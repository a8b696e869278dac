--------------------- MODULE TreeItems_Extraction_proofs ---------------------
(***************************************************************************)
(* Proofs about two components that act on the windows of the editor and    *)
(* share nothing else; each theorem names the specification it is about.     *)
(*                                                                         *)
(* ContentExtraction: its types, that a complete record holds the whole text *)
(* of its program, that exit code 0 is true, and that what is complete stays, *)
(* for any programs, blocks, runs, failures, late inputs and kills.          *)
(*                                                                         *)
(* TreeItemActions: its types, that clicks reach an item with the requested  *)
(* text, and that a complete inspection restores the folder, for any items,  *)
(* texts, number of requests and of changes of the tree.                     *)
(***************************************************************************)
EXTENDS TreeItemActions, ContentExtraction, FiniteSetTheorems, SequenceTheorems, TLAPS

(***************************************************************************)
(* ContentExtraction.                                                       *)
(***************************************************************************)

-----------------------------------------------------------------------------
(* The inductive invariant. *)

Extracting == place \notin {"idle", "pick"}
Complete(p) == stateFile[p].status = "complete"
Selected(r) == r.attempts[r.selected]
Holds(p, r) ==
  /\ r.selected \in DOMAIN r.attempts
  /\ files[p][Selected(r).method] = Selected(r).content

ProgressInv ==
  /\ mem = stateFile
  /\ Extracting => ~Complete(Program)
  /\ place = "clean" => rec.status \in {"error", "fatal"}

RecordsInv ==
  /\ \A p \in ProgramSet : Complete(p) => Holds(p, stateFile[p])
  /\ place = "save" /\ rec.status = "complete" => Holds(Program, rec)

ExitInv ==
  /\ place # "idle" /\ failures = 0 =>
       \A i \in DOMAIN Programs : i < position => Complete(Programs[i])
  /\ exit = 0 => place = "idle" /\ \A p \in ProgramSet : Complete(p)

PopupInv ==
  lagged = {} =>
    /\ pending = << >>
    /\ app.popup # None => \E p \in ProgramSet : ~Complete(p)
    /\ place = "save" /\ rec.status = "complete" => app.popup = None

\* The block of p that the n-th text is, and the line Ctrl+Down leads to.
BlockAt(p, n) == [program |-> p, number |-> IF n <= Size THEN n ELSE Size]
Line(n) == IF n <= EndLine THEN n ELSE EndLine
FrameAt(n) == [shown |-> Program, line |-> Line(n), popup |-> None]
Own(p, parts) == \A i \in DOMAIN parts : parts[i].text = <<BlockAt(p, i)>>
Here == [program |-> Program, number |-> app.line]

Next1 == Len(blocks) + 1
InBlock == app.line = Line(Next1) /\ app.line <= Size /\ frame = FrameAt(Next1)

\* The clipboard holds a whole program, in whatever form the editor copies it.
CopyOf(p, clip) == clip.custom \in {None, Whole(p)} /\ clip.text \in {None, Whole(p), Short(p)}
CopiedHere == CopyOf(Program, app.clip)

At ==
  /\ place \in {"prior", "copy all", "read all", "anchor", "load", "walk", "open", "retry", "down", "look", "join"} =>
       app.popup = None
  /\ place = "read all" => CopiedHere
  /\ place \in {"load", "walk"} => app.line = Line(1)
  /\ place = "load" => frame = FrameAt(1)
  /\ place \in {"open", "retry", "wait", "wait again"} => app.line = Line(Next1) /\ frame = FrameAt(Next1)
  /\ place \in {"wait", "wait again"} =>
       ~seen /\ (app.popup = None \/ (app.popup = Here /\ app.line <= Size))
  /\ place \in {"retry", "wait", "wait again"} /\ clicked => app.popup # None \/ app.line > Size
  /\ place \in {"copy block", "read block", "close", "closed"} => InBlock
  /\ place \in {"copy block", "read block", "close"} => app.popup = Here
  /\ place = "read block" => app.clip.text = <<Here>>
  /\ place \in {"close", "closed"} => block \in {None, <<Here>>}
  /\ place \in {"down", "look"} => blocks # << >> /\ frame = FrameAt(Len(blocks))
  /\ place = "down" => app.line = Line(Len(blocks))
  /\ place = "look" => app.line = Line(Next1)
  /\ place = "join" /\ Program \notin unclicked => Len(blocks) >= Size

WorkInv ==
  Extracting /\ Program \notin lagged =>
    /\ place \notin {"activate", "clean", "save"} => pending = << >> /\ app.shown = Program /\ At
    /\ Own(Program, blocks)
    /\ place \in {"activate", "prior", "copy all", "read all", "anchor", "load"} => blocks = << >>
    /\ place = "save" /\ rec.status = "complete" /\ Program \notin unclicked =>
         Faithful(Program, files[Program][Selected(rec).method])

FilesInv == \A p \in ProgramSet \ lagged : Own(p, blocksFile[p])

ResumeInv ==
  /\ ExtractionTypeOK /\ ProgressInv /\ RecordsInv /\ ExitInv /\ PopupInv /\ WorkInv /\ FilesInv
  /\ WholeCapture

-----------------------------------------------------------------------------
(* Sequences of inputs. *)

(***************************************************************************)
(* Induction over the natural numbers, with a set in place of a predicate:   *)
(* a set that 0 is in and that is closed under successor leaves no n out, or  *)
(* i |-> i + 1 would map its part up to n into that part without 0.           *)
(***************************************************************************)
LEMMA Induction ==
  ASSUME NEW S, 0 \in S, \A n \in Nat : n \in S => n + 1 \in S
  PROVE  \A n \in Nat : n \in S
<1> SUFFICES ASSUME NEW n \in Nat, n \notin S PROVE FALSE
  OBVIOUS
<1> DEFINE T == {i \in 0..n : i \in S}
           U == T \ {0}
           f == [i \in T |-> i + 1]
<1>1. IsFiniteSet(T)
  <2>1. T \in SUBSET (0..n)
    OBVIOUS
  <2>2. IsFiniteSet(0..n)
    BY FS_Interval
  <2> QED
    BY <2>1, <2>2, FS_Subset
<1>2. 0 \in T /\ IsFiniteSet(U) /\ Cardinality(U) = Cardinality(T) - 1 /\ Cardinality(T) \in Nat
  <2>1. 0 \in T
    OBVIOUS
  <2>2. IsFiniteSet(U) /\ Cardinality(U) = IF 0 \in T THEN Cardinality(T) - 1 ELSE Cardinality(T)
    BY <1>1, FS_RemoveElement
  <2>3. Cardinality(T) \in Nat
    BY <1>1, FS_CardinalityType
  <2> HIDE DEF T, U
  <2> QED
    BY <2>1, <2>2, <2>3
<1>3. f \in [T -> U]
  <2> SUFFICES ASSUME NEW i \in T PROVE i + 1 \in U
    OBVIOUS
  <2>1. i \in Nat /\ i # n /\ i <= n /\ i + 1 \in S
    OBVIOUS
  <2> QED
    BY <2>1
<1>4. \A i, j \in T : f[i] = f[j] => i = j
  OBVIOUS
<1> HIDE DEF T, U, f
<1>5. Cardinality(U) < Cardinality(T)
  BY <1>2
<1>6. \E i, j \in T : i # j /\ f[i] = f[j]
  BY <1>1, <1>2, <1>3, <1>5, FS_PigeonHole
<1> QED
  BY <1>4, <1>6

\* f begins with s and takes n steps of next in S.
Stepwise(f, S, s, n, next) ==
  f \in [0..n -> S] /\ f[0] = s /\ \A i \in 1..n : f[i] = next[<<i, f[i-1]>>]

(***************************************************************************)
(* A function of 0..n that is given step by step exists.                    *)
(***************************************************************************)
LEMMA StepwiseFunction ==
  ASSUME NEW S, NEW s \in S, NEW n \in Nat, NEW next \in [(1..n) \X S -> S]
  PROVE  \E f : Stepwise(f, S, s, n, next)
<1> DEFINE Good(k, f) == f[0] = s /\ \A i \in 1..k : f[i] = next[<<i, f[i-1]>>]
           K == {k \in Nat : k <= n => \E f \in [0..k -> S] : Good(k, f)}
<1>1. 0 \in K
  <2>1. [i \in 0..0 |-> s] \in [0..0 -> S] /\ Good(0, [i \in 0..0 |-> s])
    OBVIOUS
  <2> QED
    BY <2>1
<1>2. ASSUME NEW k \in Nat, k \in K
      PROVE  k + 1 \in K
  <2> SUFFICES ASSUME k + 1 <= n
               PROVE  \E f \in [0..(k + 1) -> S] : Good(k + 1, f)
    OBVIOUS
  <2>1. PICK f \in [0..k -> S] : Good(k, f)
    BY <1>2
  <2> DEFINE g == [i \in 0..(k + 1) |-> IF i = k + 1 THEN next[<<k + 1, f[k]>>] ELSE f[i]]
  <2>2. f[k] \in S /\ k + 1 \in 1..n
    OBVIOUS
  <2>3. next[<<k + 1, f[k]>>] \in S
    BY <2>2
  <2>4. g \in [0..(k + 1) -> S]
    BY <2>3
  <2>5. g[k + 1] = next[<<k + 1, f[k]>>] /\ \A i \in 0..k : g[i] = f[i]
    OBVIOUS
  <2> HIDE DEF g
  <2>6. Good(k + 1, g)
    <3>1. g[0] = s
      BY <2>1, <2>5
    <3>2. ASSUME NEW i \in 1..(k + 1)
          PROVE  g[i] = next[<<i, g[i-1]>>]
      <4>1. CASE i = k + 1
        <5>1. i - 1 = k /\ g[k] = f[k]
          BY <2>5, <4>1
        <5> QED
          BY <2>5, <4>1, <5>1
      <4>2. CASE i \in 1..k
        <5>1. g[i-1] = f[i-1] /\ g[i] = f[i]
          BY <2>5, <4>2
        <5> QED
          BY <2>1, <4>2, <5>1
      <4> QED
        BY <4>1, <4>2
    <3> QED
      BY <3>1, <3>2
  <2> QED
    BY <2>4, <2>6
<1>3. n \in K
  <2> HIDE DEF K
  <2> QED
    BY <1>1, <1>2, Induction
<1> QED
  BY <1>3 DEF Stepwise

\* What the editor copies of a whole program is a clipboard.
LEMMA CopiedType ==
  ASSUME edition \in Editions, NEW p \in ProgramSet \cup {None}
  PROVE  Copied(p) \in Clipboard
<1>1. Whole(p) \in Text /\ Short(p) \in Text
  <2>1. Whole(p) \in [1..Size -> BlockName]
    BY SizeAssumption DEF Whole, BlockName
  <2>2. Whole(p) \in Text
    BY <2>1, SizeAssumption DEF Text
  <2>3. [program |-> p, number |-> 0] \in BlockName
    BY DEF BlockName
  <2> QED
    BY <2>2, <2>3 DEF Short, Text
<1>2. edition.copies \in {"binary", "text", "short"}
  BY EditionsAssumption
<1> QED
  BY <1>1, <1>2 DEF Copied, Clipboard

LEMMA EffectType ==
  ASSUME edition \in Editions, NEW a \in AppType, NEW input \in InputKeys
  PROVE  Effect(a, input) \in AppType
<1>1. CASE a.popup # None
  <2>1. <<a.popup>> \in Text /\ a.popup \in BlockName
    BY <1>1 DEF AppType, Text
  <2>2. CASE input.key = "copy block"
    BY <1>1, <2>1, <2>2 DEF Effect, AppType, Clipboard
  <2>3. CASE input.key = "escape"
    BY <1>1, <2>3 DEF Effect, AppType
  <2>4. CASE input.key \notin {"copy block", "escape"}
    BY <1>1, <2>4 DEF Effect
  <2> QED
    BY <2>2, <2>3, <2>4
<1>2. CASE a.popup = None
  <2>1. CASE input.key = "activate"
    <3>1. input.program \in ProgramSet
      BY <2>1 DEF InputKeys
    <3> QED
      BY <1>2, <2>1, <3>1 DEF Effect, AppType
  <2>2. CASE input.key = "copy all"
    <3>1. Copied(a.shown) \in Clipboard
      BY CopiedType DEF AppType
    <3> QED
      BY <1>2, <2>2, <3>1 DEF Effect, AppType
  <2>3. CASE input.key = "down"
    <3>1. EndLine \in Nat
      BY SizeAssumption DEF EndLine
    <3> QED
      BY <1>2, <2>3, <3>1 DEF Effect, AppType
  <2>4. CASE input.key \notin {"activate", "copy all", "down"}
    BY <1>2, <2>4 DEF Effect, AppType, BlockName
  <2> QED
    BY <2>1, <2>2, <2>3, <2>4
<1> QED
  BY <1>1, <1>2

\* f is the editor before the first input and after each input of s.
Runs(f, a, s) == f[0] = a /\ \A i \in 1..Len(s) : f[i] = Effect(f[i-1], s[i])

(***************************************************************************)
(* After is reached by taking the inputs in turn.                           *)
(***************************************************************************)
LEMMA AfterRuns ==
  ASSUME edition \in Editions, NEW a \in AppType, NEW s \in Seq(InputKeys)
  PROVE  \E f \in [0..Len(s) -> AppType] : Runs(f, a, s) /\ f[Len(s)] = After(a, s)
<1> DEFINE L == Len(s)
           next == [q \in (1..L) \X AppType |-> Effect(q[2], s[q[1]])]
           after == CHOOSE after : after = [n \in 0..L |-> IF n = 0 THEN a ELSE Effect(after[n-1], s[n])]
<1>1. L \in Nat /\ \A i \in 1..L : s[i] \in InputKeys
  OBVIOUS
<1>2. next \in [(1..L) \X AppType -> AppType]
  <2>1. ASSUME NEW q \in (1..L) \X AppType
        PROVE  Effect(q[2], s[q[1]]) \in AppType
    <3>1. q[1] \in 1..L /\ q[2] \in AppType
      OBVIOUS
    <3>2. s[q[1]] \in InputKeys
      BY <1>1, <3>1
    <3> QED
      BY <3>1, <3>2, EffectType
  <2> QED
    BY <2>1
<1>3. After(a, s) = after[L]
  BY DEF After
<1>4. PICK f \in [0..L -> AppType] : f[0] = a /\ \A i \in 1..L : f[i] = next[<<i, f[i-1]>>]
  <2> HIDE DEF next, L
  <2>1. \E f : Stepwise(f, AppType, a, L, next)
    BY <1>1, <1>2, StepwiseFunction
  <2> QED
    BY <2>1 DEF Stepwise
<1>5. ASSUME NEW i \in 1..L
      PROVE  f[i] = Effect(f[i-1], s[i])
  <2>1. f[i-1] \in AppType
    <3>1. i - 1 \in 0..L
      BY <1>1
    <3> HIDE DEF L
    <3> QED
      BY <3>1
  <2> QED
    BY <1>4, <2>1
<1> HIDE DEF next
<1>6. f = [n \in 0..L |-> IF n = 0 THEN a ELSE Effect(f[n-1], s[n])]
  BY <1>1, <1>4, <1>5
<1>7. after = [n \in 0..L |-> IF n = 0 THEN a ELSE Effect(after[n-1], s[n])]
  BY <1>6
<1> HIDE DEF after
<1>8. after[0] = a /\ \A i \in 1..L : after[i] = Effect(after[i-1], s[i])
  <2>1. 0 \in 0..L /\ \A i \in 1..L : i \in 0..L /\ i # 0
    BY <1>1
  <2> HIDE DEF L
  <2> QED
    BY <1>7, <2>1
<1> DEFINE K == {n \in Nat : n <= L => after[n] = f[n]}
<1>9. 0 \in K
  BY <1>4, <1>8
<1>10. ASSUME NEW n \in Nat, n \in K PROVE n + 1 \in K
  <2> SUFFICES ASSUME n + 1 <= L PROVE after[n+1] = f[n+1]
    OBVIOUS
  <2>1. after[n] = f[n] /\ n + 1 \in 1..L /\ (n + 1) - 1 = n
    BY <1>1, <1>10
  <2> QED
    BY <1>5, <1>8, <2>1
<1>11. L \in K
  <2> HIDE DEF K
  <2> QED
    BY <1>1, <1>9, <1>10, Induction
<1> QED
  BY <1>3, <1>4, <1>5, <1>11 DEF Runs

\* The editor stays an editor.
LEMMA AfterType ==
  ASSUME edition \in Editions, NEW a \in AppType, NEW s \in Seq(InputKeys)
  PROVE  After(a, s) \in AppType
<1>1. PICK f \in [0..Len(s) -> AppType] : Runs(f, a, s) /\ f[Len(s)] = After(a, s)
  BY AfterRuns
<1> QED
  BY <1>1

\* What none, one and two inputs do.
LEMMA AfterFew ==
  ASSUME edition \in Editions, NEW a \in AppType
  PROVE  /\ After(a, << >>) = a
         /\ \A x \in InputKeys : After(a, <<x>>) = Effect(a, x)
         /\ \A x, y \in InputKeys : After(a, <<x, y>>) = Effect(Effect(a, x), y)
<1>1. After(a, << >>) = a
  <2>1. << >> \in Seq(InputKeys) /\ Len(<< >>) = 0
    OBVIOUS
  <2>2. PICK f \in [0..0 -> AppType] : Runs(f, a, << >>) /\ f[0] = After(a, << >>)
    BY <2>1, AfterRuns
  <2> QED
    BY <2>2 DEF Runs
<1>2. ASSUME NEW x \in InputKeys
      PROVE  After(a, <<x>>) = Effect(a, x)
  <2>1. <<x>> \in Seq(InputKeys) /\ Len(<<x>>) = 1 /\ <<x>>[1] = x
    OBVIOUS
  <2>2. PICK f \in [0..1 -> AppType] : Runs(f, a, <<x>>) /\ f[1] = After(a, <<x>>)
    BY <2>1, AfterRuns
  <2> QED
    BY <2>1, <2>2 DEF Runs
<1>3. ASSUME NEW x \in InputKeys, NEW y \in InputKeys
      PROVE  After(a, <<x, y>>) = Effect(Effect(a, x), y)
  <2>1. /\ <<x, y>> \in Seq(InputKeys) /\ Len(<<x, y>>) = 2
        /\ <<x, y>>[1] = x /\ <<x, y>>[2] = y
    OBVIOUS
  <2>2. PICK f \in [0..2 -> AppType] : Runs(f, a, <<x, y>>) /\ f[2] = After(a, <<x, y>>)
    BY <2>1, AfterRuns
  <2>3. f[1] = Effect(f[0], x) /\ f[2] = Effect(f[1], y) /\ f[0] = a
    BY <2>1, <2>2 DEF Runs
  <2> QED
    BY <2>2, <2>3
<1> QED
  BY <1>1, <1>2, <1>3

\* Ctrl+Down from the first block of a program, n times.
LEMMA AfterDowns ==
  ASSUME edition \in Editions, NEW a \in AppType, a.popup = None, a.line = 1,
         NEW s \in Seq(InputKeys), \A i \in 1..Len(s) : s[i] = Key("down")
  PROVE  After(a, s) = [a EXCEPT !.line = Line(Len(s) + 1)]
<1>1. PICK f \in [0..Len(s) -> AppType] : Runs(f, a, s) /\ f[Len(s)] = After(a, s)
  BY AfterRuns
<1> DEFINE L == Len(s)
           K == {n \in Nat : n <= L => f[n] = [a EXCEPT !.line = Line(n + 1)]}
<1>0. L \in Nat /\ EndLine \in Nat /\ EndLine >= 1
  BY SizeAssumption DEF EndLine
<1>2. 0 \in K
  <2>1. Line(1) = 1
    BY <1>0 DEF Line
  <2>2. f[0] = a /\ a = [a EXCEPT !.line = 1]
    BY <1>1 DEF Runs, AppType
  <2> QED
    BY <2>1, <2>2
<1>3. ASSUME NEW n \in Nat, n \in K PROVE n + 1 \in K
  <2> SUFFICES ASSUME n + 1 <= L PROVE f[n+1] = [a EXCEPT !.line = Line((n + 1) + 1)]
    OBVIOUS
  <2>1. f[n] = [a EXCEPT !.line = Line(n + 1)] /\ n + 1 \in 1..L /\ (n + 1) - 1 = n
    BY <1>0, <1>3
  <2>2. f[n+1] = Effect(f[n], Key("down"))
    BY <1>1, <2>1 DEF Runs
  <2>3. f[n].popup = None /\ f[n].line = Line(n + 1)
    BY <2>1 DEF AppType
  <2>4. Effect(f[n], Key("down")) = [f[n] EXCEPT !.line = IF @ < EndLine THEN @ + 1 ELSE @]
    BY <2>3 DEF Effect, Key
  <2>5. (IF f[n].line < EndLine THEN f[n].line + 1 ELSE f[n].line) = Line((n + 1) + 1)
    BY <1>0, <2>3 DEF Line
  <2> HIDE DEF L
  <2> QED
    BY <2>1, <2>2, <2>4, <2>5 DEF AppType
<1>4. L \in K
  <2> HIDE DEF K
  <2> QED
    BY <1>0, <1>2, <1>3, Induction
<1> QED
  BY <1>1, <1>4
-----------------------------------------------------------------------------
(* What a call of the worker may do to the editor and its queue. *)

WorldKeeps ==
  /\ app' \in AppType /\ pending' \in Seq(InputKeys) /\ faults' \in Nat
  /\ lagged \subseteq lagged' /\ lagged' \subseteq ProgramSet
  /\ Program \notin lagged' => pending' \in {pending, << >>}

\* Every program at work is one of Programs.
LEMMA AtProgram ==
  ASSUME ExtractionTypeOK, Extracting
  PROVE  position \in DOMAIN Programs /\ Program \in ProgramSet /\ Flagged = lagged \cup {Program}
<1>1. position \in DOMAIN Programs
  BY DEF ExtractionTypeOK, Extracting
<1> QED
  BY <1>1 DEF Program, ProgramSet, ToSet, Flagged

LEMMA Landing ==
  ASSUME ExtractionTypeOK, Extracting, NEW keys \in Seq(InputKeys), Land(keys), faults' \in Nat
  PROVE  /\ WorldKeeps
         /\ Program \notin lagged' => pending = << >> /\ pending' = << >> /\ app' = After(app, keys)
<1>1. Program \in ProgramSet /\ Flagged = lagged \cup {Program}
  BY AtProgram
<1>0. pending \in Seq(InputKeys)
  BY DEF ExtractionTypeOK
<1>2. pending \o keys \in Seq(InputKeys) /\ (pending = << >> => pending \o keys = keys)
  BY <1>0
<1>3. app' \in AppType
  BY <1>2, AfterType DEF Land, ExtractionTypeOK
<1>4. pending' = << >> /\ << >> \in Seq(InputKeys)
  BY DEF Land
<1>5. lagged \subseteq lagged' /\ lagged' \subseteq ProgramSet
  BY <1>1 DEF Land, ExtractionTypeOK
<1>6. Program \notin lagged' => pending = << >>
  BY <1>1 DEF Land
<1> QED
  BY <1>2, <1>3, <1>4, <1>5, <1>6 DEF WorldKeeps, Land

LEMMA SpendType ==
  ASSUME ExtractionTypeOK, Spend \/ UNCHANGED faults
  PROVE  faults' \in Nat
<1>1. faults \in Nat
  BY DEF ExtractionTypeOK
<1> QED
  BY <1>1 DEF Spend

LEMMA WhenPerformed ==
  ASSUME ExtractionTypeOK, Extracting, NEW keys \in Seq(InputKeys), Performed(keys)
  PROVE  /\ WorldKeeps
         /\ Program \notin lagged' => pending = << >> /\ pending' = << >> /\ app' = After(app, keys)
<1>1. CASE Land(keys) /\ UNCHANGED faults
  BY <1>1, SpendType, Landing
<1>2. CASE Spend /\ pending' = pending \o keys /\ lagged' = Flagged /\ UNCHANGED app
  <2>1. Program \in ProgramSet /\ lagged' = lagged \cup {Program}
    BY <1>2, AtProgram
  <2>2. faults' \in Nat
    BY <1>2, SpendType
  <2>3. pending \in Seq(InputKeys) /\ app \in AppType /\ lagged \subseteq ProgramSet
    BY DEF ExtractionTypeOK
  <2>4. pending' \in Seq(InputKeys)
    BY <1>2, <2>3
  <2> QED
    BY <1>2, <2>1, <2>2, <2>3, <2>4 DEF WorldKeeps
<1> QED
  BY <1>1, <1>2 DEF Performed

LEMMA WhenFailed ==
  ASSUME ExtractionTypeOK, Extracting, NEW keys \in Seq(InputKeys), Failed(keys)
  PROVE  /\ WorldKeeps
         /\ Program \notin lagged' =>
              /\ pending = << >> /\ pending' = << >>
              /\ \E n \in 0..Len(keys) : app' = After(app, SubSeq(keys, 1, n))
<1>1. PICK n \in 0..Len(keys) : Land(SubSeq(keys, 1, n))
  BY DEF Failed
<1>2. SubSeq(keys, 1, n) \in Seq(InputKeys)
  OBVIOUS
<1>3. faults' \in Nat
  BY SpendType DEF Failed
<1> QED
  BY <1>1, <1>2, <1>3, Landing

LEMMA WhenUnchanged ==
  ASSUME ExtractionTypeOK, UNCHANGED world
  PROVE  WorldKeeps
  BY DEF world, WorldKeeps, ExtractionTypeOK

\* One input.
LEMMA OnePerformed ==
  ASSUME ExtractionTypeOK, Extracting, NEW x \in InputKeys, Performed(<<x>>)
  PROVE  /\ WorldKeeps
         /\ Program \notin lagged' => pending = << >> /\ pending' = << >> /\ app' = Effect(app, x)
<1>1. <<x>> \in Seq(InputKeys)
  OBVIOUS
<1>2. After(app, <<x>>) = Effect(app, x)
  BY AfterFew DEF ExtractionTypeOK
<1> QED
  BY <1>1, <1>2, WhenPerformed

LEMMA OneFailed ==
  ASSUME ExtractionTypeOK, Extracting, NEW x \in InputKeys, Failed(<<x>>)
  PROVE  /\ WorldKeeps
         /\ Program \notin lagged' =>
              pending = << >> /\ pending' = << >> /\ app' \in {app, Effect(app, x)}
<1>1. <<x>> \in Seq(InputKeys) /\ Len(<<x>>) = 1
  OBVIOUS
<1>2. SubSeq(<<x>>, 1, 0) = << >> /\ SubSeq(<<x>>, 1, 1) = <<x>>
  <2>1. SubSeq(<<x>>, 1, 0) = << >>
    BY SubSeqEmpty
  <2>2. SubSeq(<<x>>, 1, Len(<<x>>)) = <<x>>
    BY <1>1, SubSeqFull
  <2> QED
    BY <1>1, <2>1, <2>2
<1>3. After(app, <<x>>) = Effect(app, x) /\ After(app, << >>) = app
  BY AfterFew DEF ExtractionTypeOK
<1>4. 0..1 = {0, 1}
  OBVIOUS
<1> QED
  BY <1>1, <1>2, <1>3, <1>4, WhenFailed
-----------------------------------------------------------------------------
(* Steps that end neither the work at a program nor its record. *)

\* What such a step leaves alone, and what it may write.
Inside ==
  /\ Extracting /\ Extracting' /\ WorldKeeps
  /\ UNCHANGED <<edition, stateFile, mem, files, position, failures, exit, runs>>
  /\ unclicked' \in {unclicked, unclicked \cup {Program}}
  /\ place' = "clean" => rec'.status \in {"error", "fatal"}
  /\ place' = "save" => rec'.status # "complete"
  /\ \/ UNCHANGED blocksFile
     \/ /\ blocksFile' = [blocksFile EXCEPT ![Program] = blocks']
        /\ Program \notin lagged' => Own(Program, blocks')

Files == ProgressInv /\ RecordsInv /\ ExitInv /\ PopupInv /\ FilesInv /\ WholeCapture

LEMMA InsideKeeps ==
  ASSUME ResumeInv, Inside
  PROVE  Files'
<1>1. Program \in ProgramSet /\ Program' = Program
  BY AtProgram DEF ResumeInv, Inside, Program
<1>2. lagged \subseteq lagged' /\ (Program \notin lagged' => pending' \in {pending, << >>})
  BY DEF Inside, WorldKeeps
<1>3. ProgressInv'
  BY <1>1 DEF ResumeInv, ProgressInv, Inside, Complete
<1>4. RecordsInv'
  BY DEF ResumeInv, RecordsInv, Inside, Complete, Holds, Selected
<1>5. ExitInv'
  BY DEF ResumeInv, ExitInv, Inside, Complete, Extracting
<1>6. PopupInv'
  <2> SUFFICES ASSUME lagged' = {}
               PROVE  /\ pending' = << >>
                      /\ \E p \in ProgramSet : ~Complete(p)'
                      /\ place' = "save" => rec'.status # "complete"
    BY DEF PopupInv
  <2>1. lagged = {} /\ pending = << >>
    BY <1>2 DEF ResumeInv, PopupInv
  <2>2. ~Complete(Program)'
    BY <1>1, <1>3 DEF ProgressInv, Inside
  <2> QED
    BY <1>1, <1>2, <2>1, <2>2 DEF Inside
<1>7. FilesInv'
  <2> SUFFICES ASSUME NEW p \in ProgramSet \ lagged' PROVE Own(p, blocksFile'[p])
    BY DEF FilesInv, Own, BlockAt
  <2>1. p \in ProgramSet \ lagged /\ Own(p, blocksFile[p])
    BY <1>2 DEF ResumeInv, FilesInv
  <2>2. blocksFile \in [ProgramSet -> Seq(SavedBlock)]
    BY DEF ResumeInv, ExtractionTypeOK
  <2> QED
    BY <1>1, <2>1, <2>2 DEF Inside
<1>8. WholeCapture'
  <2>1. unclicked \subseteq unclicked'
    BY DEF Inside
  <2> QED
    BY <1>2, <2>1 DEF ResumeInv, WholeCapture, Inside, CompleteText, Faithful
<1> QED
  BY <1>3, <1>4, <1>5, <1>6, <1>7, <1>8 DEF Files
-----------------------------------------------------------------------------
(* One lemma for each step of the script. *)

\* What an input does when no popup is open.
LEMMA InputEffects ==
  ASSUME NEW a \in AppType, a.popup = None
  PROVE  /\ \A p : Effect(a, [key |-> "activate", program |-> p]) = [a EXCEPT !.shown = p, !.line = 1]
         /\ Effect(a, Key("home")) = [a EXCEPT !.line = 1]
         /\ Effect(a, Key("copy all")) = [a EXCEPT !.clip = Copied(a.shown)]
         /\ Effect(a, Key("down")) = [a EXCEPT !.line = IF @ < EndLine THEN @ + 1 ELSE @]
         /\ a.line <= Size =>
              Effect(a, Key("list")) = [a EXCEPT !.popup = [program |-> a.shown, number |-> a.line]]
         /\ ~(a.line <= Size) => Effect(a, Key("list")) = a
         /\ \A k \in {"escape", "copy block"} : Effect(a, Key(k)) = a
  BY DEF Effect, Key

LEMMA InputTypes ==
  /\ \A k \in {"home", "copy all", "list", "copy block", "escape", "down"} : Key(k) \in InputKeys
  /\ \A p \in ProgramSet : [key |-> "activate", program |-> p] \in InputKeys
  BY DEF Key, InputKeys

LEMMA InsideInv ==
  ASSUME ResumeInv, Inside, ExtractionTypeOK', WorkInv'
  PROVE  ResumeInv'
  BY InsideKeeps DEF ResumeInv, Files

\* Before the first block was copied all are in their place.
LEMMA OwnNone == \A p : Own(p, << >>)
<1>1. DOMAIN << >> = {}
  OBVIOUS
<1> QED
  BY <1>1 DEF Own

\* A step that does not go on with the program.
LEMMA RaisedWork ==
  ASSUME place' = "clean" \/ (place' = "save" /\ rec'.status # "complete"),
         Extracting => (Program \notin lagged' => Own(Program, blocks)), Extracting,
         UNCHANGED <<position, blocks>>
  PROVE  WorkInv'
<1>1. Program' = Program
  BY DEF Program
<1>2. Own(Program, blocks)' <=> Own(Program, blocks)
  BY <1>1 DEF Own, BlockAt
<1> QED
  BY <1>1, <1>2 DEF WorkInv

LEMMA ActivateKeeps ==
  ASSUME ResumeInv, ActivateProgram
  PROVE  ResumeInv'
<1> DEFINE x == [key |-> "activate", program |-> Program]
<1>1. Extracting /\ ExtractionTypeOK /\ Program \in ProgramSet /\ x \in InputKeys
  <2>1. Extracting
    BY DEF ActivateProgram, Extracting
  <2> QED
    BY <2>1, AtProgram, InputTypes DEF ResumeInv
<1>2. Program' = Program
  BY DEF ActivateProgram, Program
<1>3. ASSUME Performed(<<x>>), app.popup = None, place' = "prior", UNCHANGED rec
      PROVE  WorldKeeps /\ Inside /\ WorkInv'
  <2>1. /\ WorldKeeps
        /\ Program \notin lagged' => pending = << >> /\ pending' = << >> /\ app' = Effect(app, x)
    BY <1>1, <1>3, OnePerformed
  <2>2. Inside
    BY <1>1, <1>3, <2>1 DEF Inside, ActivateProgram, Extracting, durable, account, capture
  <2>3. WorkInv'
    <3> SUFFICES ASSUME Program \notin lagged'
                 PROVE  pending' = << >> /\ app'.shown = Program /\ app'.popup = None /\ blocks' = << >>
      BY <1>2, <1>3 DEF WorkInv, At, Own
    <3>1. Effect(app, x) = [app EXCEPT !.shown = Program, !.line = 1]
      BY <1>1, <1>3, InputEffects DEF ExtractionTypeOK
    <3>2. app'.shown = Program /\ app'.popup = None
      BY <1>1, <1>3, <2>1, <3>1 DEF ExtractionTypeOK, AppType
    <3>3. Program \notin lagged
      BY <2>1 DEF WorldKeeps
    <3>4. blocks' = << >>
      BY <1>1, <3>3 DEF ResumeInv, WorkInv, ActivateProgram, capture
    <3> QED
      BY <2>1, <3>2, <3>4
  <2> QED
    BY <2>1, <2>2, <2>3
<1>4. ASSUME Failed(<<x>>) \/ Disabled, RaiseError
      PROVE  WorldKeeps /\ Inside /\ WorkInv'
  <2>1. WorldKeeps
    BY <1>1, <1>4, OneFailed, WhenUnchanged DEF Disabled
  <2>2. Inside
    BY <1>1, <1>4, <2>1 DEF Inside, ActivateProgram, Extracting, durable, account, capture, RaiseError, ExtractionTypeOK, Record
  <2>3. WorkInv'
    BY <1>1, <1>4, <2>1, RaisedWork DEF WorldKeeps, ResumeInv, WorkInv, ActivateProgram, capture, RaiseError
  <2> QED
    BY <2>1, <2>2, <2>3
<1>5. WorldKeeps /\ Inside /\ WorkInv'
  BY <1>3, <1>4 DEF ActivateProgram
<1>6. ExtractionTypeOK'
  BY <1>1, <1>5 DEF ExtractionTypeOK, WorldKeeps, ActivateProgram, RaiseError, durable, account, capture, Record
<1> QED
  BY <1>5, <1>6, InsideInv

\* A step that fails inside the capture of a program.
LEMMA Raised ==
  ASSUME ResumeInv, Extracting, WorldKeeps, RaiseError \/ RaiseFatal,
         UNCHANGED <<durable, position, mem, blocks, failures, account>>
  PROVE  Inside /\ WorkInv' /\ rec' \in Record /\ place' = "clean"
<1>1. rec \in Record
  BY DEF ResumeInv, ExtractionTypeOK
<1>2. rec' \in Record /\ rec'.status \in {"error", "fatal"} /\ place' = "clean"
  BY <1>1 DEF RaiseError, RaiseFatal, Record
<1>3. Inside
  BY <1>2 DEF Inside, Extracting, durable, account
<1>4. WorkInv'
  BY <1>2, RaisedWork DEF WorldKeeps, ResumeInv, WorkInv
<1> QED
  BY <1>2, <1>3, <1>4

\* A step that leaves the editor alone.
LEMMA LeftAlone ==
  ASSUME ExtractionTypeOK, UNCHANGED <<app, pending, lagged>>, Spend \/ UNCHANGED faults
  PROVE  WorldKeeps
<1>1. faults' \in Nat
  BY SpendType
<1> QED
  BY <1>1 DEF WorldKeeps, ExtractionTypeOK

LEMMA ReadPriorKeeps ==
  ASSUME ResumeInv, ReadPrior
  PROVE  ResumeInv'
<1>1. Extracting /\ ExtractionTypeOK /\ Program' = Program
  BY DEF ReadPrior, Extracting, ResumeInv, Program
<1>2. WorldKeeps
  BY <1>1, LeftAlone DEF ReadPrior
<1>3. Inside
  BY <1>1, <1>2 DEF Inside, ReadPrior, Extracting, durable, account
<1>4. prior' \in Clipboard
  <2>1. app.clip \in Clipboard
    BY <1>1 DEF ExtractionTypeOK, AppType
  <2> QED
    BY <2>1 DEF ReadPrior, Clipboard
<1>5. ExtractionTypeOK'
  BY <1>1, <1>2, <1>4 DEF ExtractionTypeOK, WorldKeeps, ReadPrior, durable, account
<1>6. WorkInv'
  BY <1>1 DEF ResumeInv, WorkInv, At, ReadPrior, Extracting, Own
<1> QED
  BY <1>3, <1>5, <1>6, InsideInv

\* The first n of two inputs.
LEMMA FirstOfTwo ==
  ASSUME NEW x \in InputKeys, NEW y \in InputKeys
  PROVE  /\ <<x, y>> \in Seq(InputKeys) /\ Len(<<x, y>>) = 2
         /\ \A n \in 0..2 : SubSeq(<<x, y>>, 1, n) \in {<< >>, <<x>>, <<x, y>>}
<1> DEFINE s == <<x, y>>
<1>1. s \in Seq(InputKeys) /\ Len(s) = 2 /\ s[1] = x
  OBVIOUS
<1>2. SubSeq(s, 1, 0) = << >>
  BY SubSeqEmpty
<1>3. SubSeq(s, 1, 2) = s
  <2> HIDE DEF s
  <2> QED
    BY <1>1, SubSeqFull
<1>4. SubSeq(s, 1, 1) = [i \in 1..1 |-> s[i]]
  OBVIOUS
<1>5. SubSeq(s, 1, 1) = [i \in 1..1 |-> x]
  BY <1>1, <1>4
<1>6. [i \in 1..1 |-> x] = <<x>>
  OBVIOUS
<1>7. 0..2 = {0, 1, 2}
  OBVIOUS
<1> QED
  BY <1>1, <1>2, <1>3, <1>5, <1>6, <1>7

LEMMA CopyAllKeeps ==
  ASSUME ResumeInv, CopyAll
  PROVE  ResumeInv'
<1> DEFINE h == Key("home")
           c == Key("copy all")
<1>1. Extracting /\ ExtractionTypeOK /\ Program' = Program /\ app \in AppType
  BY DEF CopyAll, Extracting, ResumeInv, Program, ExtractionTypeOK
<1>0. h \in InputKeys /\ c \in InputKeys
  BY InputTypes
<1>2. /\ h \in InputKeys /\ c \in InputKeys /\ <<h, c>> \in Seq(InputKeys) /\ Len(<<h, c>>) = 2
      /\ \A n \in 0..2 : SubSeq(<<h, c>>, 1, n) \in {<< >>, <<h>>, <<h, c>>}
  <2> HIDE DEF h, c
  <2> QED
    BY <1>0, FirstOfTwo
<1>3. \/ /\ WorldKeeps /\ place' = "read all"
         /\ Program \notin lagged' => pending' = << >> /\ app.popup = None /\ app' = After(app, <<h, c>>)
      \/ /\ WorldKeeps /\ place' = "anchor"
         /\ Program \notin lagged' => app.popup # None \/ (pending' = << >> /\ \E n \in 0..2 : app' = After(app, SubSeq(<<h, c>>, 1, n)))
  <2>1. CASE app.popup = None /\ Performed(<<h, c>>) /\ place' = "read all"
    BY <1>1, <1>2, <2>1, WhenPerformed
  <2>2. CASE Failed(<<h, c>>) /\ place' = "anchor"
    BY <1>1, <1>2, <2>2, WhenFailed
  <2>3. CASE Disabled /\ place' = "anchor"
    BY <1>1, <2>3, WhenUnchanged DEF Disabled
  <2> QED
    BY <2>1, <2>2, <2>3 DEF CopyAll
<1>4. Inside
  BY <1>1, <1>3 DEF Inside, CopyAll, Extracting, durable, account
<1>5. ExtractionTypeOK'
  BY <1>1, <1>3 DEF ExtractionTypeOK, WorldKeeps, CopyAll, durable, account, capture
<1>6. WorkInv'
  <2> SUFFICES ASSUME Program \notin lagged'
               PROVE  /\ pending' = << >> /\ app'.shown = Program /\ app'.popup = None /\ blocks' = << >>
                      /\ place' = "read all" => CopiedHere'
    <3>1. blocks' = << >> => Own(Program, blocks)'
      BY OwnNone
    <3>2. place' \in {"read all", "anchor"}
      BY <1>3
    <3>4. CASE place' = "read all"
      BY <1>1, <3>1, <3>4 DEF WorkInv, At
    <3>5. CASE place' = "anchor"
      BY <1>1, <3>1, <3>5 DEF WorkInv, At
    <3> QED
      BY <3>2, <3>4, <3>5
  <2>0. CopyOf(Program, Copied(Program))
    <3>1. edition.copies \in {"binary", "text", "short"}
      BY <1>1, EditionsAssumption DEF ExtractionTypeOK
    <3> QED
      BY <3>1 DEF CopyOf, Copied
  <2>1. Program \notin lagged
    BY <1>3 DEF WorldKeeps
  <2>2. app.popup = None /\ app.shown = Program /\ blocks = << >> /\ blocks' = << >>
    BY <1>1, <2>1 DEF ResumeInv, WorkInv, At, CopyAll, capture
  <2>3. /\ Effect(app, h) = [app EXCEPT !.line = 1]
        /\ Effect(Effect(app, h), c) = [app EXCEPT !.line = 1, !.clip = Copied(Program)]
    <3>1. Effect(app, h) = [app EXCEPT !.line = 1]
      BY <1>1, <2>2, InputEffects
    <3>2. Effect(app, h) \in AppType /\ Effect(app, h).popup = None /\ Effect(app, h).shown = Program
      BY <1>1, <2>2, <3>1 DEF AppType
    <3>3. Effect(Effect(app, h), c) = [Effect(app, h) EXCEPT !.clip = Copied(Program)]
      BY <3>2, InputEffects
    <3> QED
      BY <1>1, <3>1, <3>3 DEF AppType
  <2>4. /\ After(app, <<h, c>>) = Effect(Effect(app, h), c)
        /\ After(app, <<h>>) = Effect(app, h) /\ After(app, << >>) = app
    BY <1>1, <1>2, AfterFew DEF ExtractionTypeOK
  <2> HIDE DEF h, c
  <2>5. /\ pending' = << >>
        /\ place' = "read all" => app' = After(app, <<h, c>>)
        /\ app' \in {app, Effect(app, h), Effect(Effect(app, h), c)}
    BY <1>2, <1>3, <2>2, <2>4
  <2> QED
    <3>1. pending' = << >> /\ app'.shown = Program /\ app'.popup = None
      BY <1>1, <2>2, <2>3, <2>5 DEF AppType
    <3>2. place' = "read all" => CopyOf(Program, app'.clip)
      BY <1>1, <2>0, <2>3, <2>4, <2>5 DEF AppType
    <3>3. CopyOf(Program, app'.clip) => CopiedHere'
      BY <1>1 DEF CopiedHere, CopyOf, Whole, Short
    <3> QED
      BY <2>2, <3>1, <3>2, <3>3
<1> QED
  BY <1>4, <1>5, <1>6, InsideInv

LEMMA AnchorKeeps ==
  ASSUME ResumeInv, Anchor
  PROVE  ResumeInv'
<1> DEFINE h == Key("home")
<1>1. Extracting /\ ExtractionTypeOK /\ Program' = Program /\ app \in AppType /\ h \in InputKeys
  BY InputTypes DEF Anchor, Extracting, ResumeInv, Program, ExtractionTypeOK
<1>2. CASE app.popup = None /\ Performed(<<h>>) /\ frame' = Frame(app') /\ place' = "load" /\ UNCHANGED rec
  <2>1. /\ WorldKeeps
        /\ Program \notin lagged' => pending = << >> /\ pending' = << >> /\ app' = Effect(app, h)
    BY <1>1, <1>2, OnePerformed
  <2>2. Inside
    BY <1>1, <1>2, <2>1 DEF Inside, Anchor, Extracting, durable, account
  <2>3. frame' \in FrameType
    BY <1>2, <2>1 DEF WorldKeeps, Frame, FrameType, AppType
  <2>4. ExtractionTypeOK'
    BY <1>1, <1>2, <2>1, <2>3 DEF ExtractionTypeOK, WorldKeeps, Anchor, durable, account
  <2>5. WorkInv'
    <3> SUFFICES ASSUME Program \notin lagged'
                 PROVE  /\ pending' = << >> /\ app'.shown = Program /\ app'.popup = None /\ blocks' = << >>
                        /\ app'.line = Line(1)' /\ frame' = FrameAt(1)'
      BY <1>1, <1>2 DEF WorkInv, At, Own
    <3>1. Program \notin lagged
      BY <2>1 DEF WorldKeeps
    <3>2. app.shown = Program /\ blocks = << >> /\ blocks' = << >>
      BY <1>1, <3>1 DEF ResumeInv, WorkInv, Anchor
    <3>3. app' = [app EXCEPT !.line = 1]
      BY <1>1, <1>2, <2>1, InputEffects
    <3>4. Line(1)' = 1
      BY SizeAssumption DEF Line, EndLine
    <3> QED
      BY <1>1, <1>2, <2>1, <3>2, <3>3, <3>4 DEF AppType, FrameAt, Frame
  <2> QED
    BY <2>2, <2>4, <2>5, InsideInv
<1>3. CASE (Failed(<<h>>) \/ Disabled) /\ RaiseError /\ UNCHANGED frame
  <2>1. WorldKeeps
    BY <1>1, <1>3, OneFailed, WhenUnchanged DEF Disabled
  <2>2. Inside /\ WorkInv' /\ rec' \in Record /\ place' = "clean"
    BY <1>1, <1>3, <2>1, Raised DEF Anchor
  <2>3. ExtractionTypeOK'
    BY <1>1, <1>3, <2>1, <2>2 DEF ExtractionTypeOK, WorldKeeps, Anchor, durable, account
  <2> QED
    BY <2>2, <2>3, InsideInv
<1> QED
  BY <1>2, <1>3 DEF Anchor

\* The blocks loaded are those of the program, so far as they were followed by a move.
LEMMA LoadBlocksKeeps ==
  ASSUME ResumeInv, LoadBlocks
  PROVE  ResumeInv'
<1>1. /\ Extracting /\ ExtractionTypeOK /\ Program' = Program /\ UNCHANGED world
      /\ Program \in ProgramSet
  BY AtProgram DEF LoadBlocks, Extracting, ResumeInv, Program
<1> DEFINE saved == blocksFile[Program]
<1>2. PICK n \in 0..Len(saved) : blocks' = SubSeq(saved, 1, n)
  BY DEF LoadBlocks
<1>3. saved \in Seq(SavedBlock)
  BY <1>1 DEF ExtractionTypeOK
<1>4. /\ blocks' \in Seq(SavedBlock) /\ Len(blocks') = n
      /\ \A i \in 1..n : blocks'[i] = saved[i]
  <2> HIDE DEF saved
  <2> QED
    BY <1>2, <1>3
<1>5. place' \in {"open", "walk"} /\ (place' = "open" => blocks' = << >>)
  BY DEF LoadBlocks
<1>6. WorldKeeps
  BY <1>1, WhenUnchanged
<1>7. Inside
  BY <1>1, <1>5, <1>6 DEF Inside, LoadBlocks, Extracting, durable, account
<1>8. ExtractionTypeOK'
  BY <1>1, <1>4, <1>5 DEF ExtractionTypeOK, LoadBlocks, world, durable, account
<1>9. WorkInv'
  <2> SUFFICES ASSUME Program \notin lagged'
               PROVE  /\ pending' = << >> /\ app'.shown = Program /\ app'.popup = None
                      /\ Own(Program, blocks')
                      /\ app'.line = Line(1)'
                      /\ place' = "open" => app'.line = Line(Next1)' /\ frame' = FrameAt(Next1)'
    BY <1>1, <1>5 DEF WorkInv, At, Own, BlockAt
  <2>1. Program \notin lagged
    BY <1>6 DEF WorldKeeps
  <2>2. /\ pending = << >> /\ app.shown = Program /\ app.popup = None /\ app.line = Line(1)
        /\ frame = FrameAt(1)
    BY <1>1, <2>1 DEF ResumeInv, WorkInv, At, LoadBlocks
  <2>3. Line(1)' = Line(1) /\ FrameAt(1)' = FrameAt(1)
    BY <1>1 DEF Line, EndLine, FrameAt, LoadBlocks, account
  <2>4. Own(Program, saved)
    BY <1>1, <2>1 DEF ResumeInv, FilesInv
  <2>5. Own(Program, blocks')
    BY <1>3, <1>4, <2>4 DEF Own
  <2>6. place' = "open" => Next1' = 1
    BY <1>5 DEF Next1
  <2>7. place' = "open" => Line(Next1)' = Line(1)' /\ FrameAt(Next1)' = FrameAt(1)'
    BY <2>6
  <2> QED
    BY <1>1, <2>2, <2>3, <2>5, <2>7 DEF world, LoadBlocks
<1> QED
  BY <1>7, <1>8, <1>9, InsideInv

LEMMA WalkDownKeeps ==
  ASSUME ResumeInv, WalkDown
  PROVE  ResumeInv'
<1> DEFINE downs == [i \in 1..Len(blocks) |-> Key("down")]
<1>1. /\ Extracting /\ ExtractionTypeOK /\ Program' = Program /\ app \in AppType
      /\ blocks \in Seq(SavedBlock) /\ edition \in Editions
  BY DEF WalkDown, Extracting, ResumeInv, Program, ExtractionTypeOK
<1>2. downs \in Seq(InputKeys) /\ Len(downs) = Len(blocks) /\ \A i \in 1..Len(downs) : downs[i] = Key("down")
  <2>1. Key("down") \in InputKeys
    BY InputTypes
  <2>2. Len(blocks) \in Nat
    BY <1>1
  <2> QED
    BY <2>1, <2>2
<1> HIDE DEF downs
<1>3. CASE app.popup = None /\ Performed(downs) /\ frame' = Frame(app') /\ place' = "open" /\ UNCHANGED rec
  <2>1. /\ WorldKeeps
        /\ Program \notin lagged' => pending = << >> /\ pending' = << >> /\ app' = After(app, downs)
    BY <1>1, <1>2, <1>3, WhenPerformed
  <2>2. Inside
    BY <1>1, <1>3, <2>1 DEF Inside, WalkDown, Extracting, durable, account
  <2>3. frame' \in FrameType
    BY <1>3, <2>1 DEF WorldKeeps, Frame, FrameType, AppType
  <2>4. ExtractionTypeOK'
    BY <1>1, <1>3, <2>1, <2>3 DEF ExtractionTypeOK, WorldKeeps, WalkDown, durable, account
  <2>5. WorkInv'
    <3> SUFFICES ASSUME Program \notin lagged'
                 PROVE  /\ pending' = << >> /\ app'.shown = Program /\ app'.popup = None
                        /\ Own(Program, blocks')
                        /\ app'.line = Line(Next1)' /\ frame' = FrameAt(Next1)'
      BY <1>1, <1>3 DEF WorkInv, At, Own, BlockAt
    <3>1. Program \notin lagged
      BY <2>1 DEF WorldKeeps
    <3>2. app.shown = Program /\ Own(Program, blocks) /\ blocks' = blocks /\ app.line = Line(1)
      BY <1>1, <3>1 DEF ResumeInv, WorkInv, At, WalkDown
    <3>3. Line(1) = 1
      BY SizeAssumption DEF Line, EndLine
    <3>4. app' = [app EXCEPT !.line = Line(Next1)]
      BY <1>1, <1>2, <1>3, <2>1, <3>2, <3>3, AfterDowns DEF Next1
    <3>5. Line(Next1)' = Line(Next1)
      BY <3>2 DEF Line, EndLine, Next1, WalkDown, account
    <3> QED
      BY <1>1, <1>3, <2>1, <3>2, <3>4, <3>5 DEF AppType, FrameAt, Frame
  <2> QED
    BY <2>2, <2>4, <2>5, InsideInv
<1>4. CASE (Failed(downs) \/ Disabled) /\ RaiseError /\ UNCHANGED frame
  <2>1. WorldKeeps
    BY <1>1, <1>2, <1>4, WhenFailed, WhenUnchanged DEF Disabled
  <2>2. Inside /\ WorkInv' /\ rec' \in Record /\ place' = "clean"
    BY <1>1, <1>4, <2>1, Raised DEF WalkDown
  <2>3. ExtractionTypeOK'
    BY <1>1, <1>4, <2>1, <2>2 DEF ExtractionTypeOK, WorldKeeps, WalkDown, durable, account
  <2> QED
    BY <2>2, <2>3, InsideInv
<1> QED
  BY <1>3, <1>4 DEF WalkDown, downs

LEMMA CapReachedKeeps ==
  ASSUME ResumeInv, CapReached
  PROVE  ResumeInv'
<1>1. Extracting /\ ExtractionTypeOK /\ WorldKeeps
  BY WhenUnchanged DEF CapReached, Extracting, ResumeInv
<1>2. Inside /\ WorkInv' /\ rec' \in Record /\ place' = "clean"
  BY <1>1, Raised DEF CapReached, capture
<1>3. ExtractionTypeOK'
  BY <1>1, <1>2 DEF ExtractionTypeOK, CapReached, world, durable, account, capture
<1> QED
  BY <1>2, <1>3, InsideInv

\* The line and the frame of the next block, as long as the blocks stay the same.
LEMMA SameMarks ==
  ASSUME UNCHANGED <<edition, position, blocks>>
  PROVE  /\ Program' = Program /\ EndLine' = EndLine
         /\ Line(Next1)' = Line(Next1) /\ FrameAt(Next1)' = FrameAt(Next1)
         /\ Own(Program, blocks)' = Own(Program, blocks)
  BY DEF Program, EndLine, Line, Next1, FrameAt, Own, BlockAt

\* What is known of a program that no late input touched.
LEMMA Undisturbed ==
  ASSUME ResumeInv, Extracting, WorldKeeps, Program \notin lagged',
         place \notin {"activate", "clean", "save"}
  PROVE  pending = << >> /\ app.shown = Program /\ At /\ Own(Program, blocks)
  BY DEF ResumeInv, WorkInv, WorldKeeps

\* The place after a click on List Edit, and before the popup is looked for.
Waiting ==
  /\ app.line = Line(Next1) /\ frame = FrameAt(Next1) /\ ~seen
  /\ app.popup = None \/ (app.popup = Here /\ app.line <= Size)
  /\ clicked => app.popup # None \/ app.line > Size

LEMMA OpenListKeeps ==
  ASSUME ResumeInv, OpenList
  PROVE  ResumeInv'
<1> DEFINE x == Key("list")
<1>1. /\ Extracting /\ ExtractionTypeOK /\ app \in AppType /\ x \in InputKeys
      /\ UNCHANGED <<edition, position, blocks, rec, frame>>
      /\ place \in {"open", "retry"} /\ place' \in {"wait", "wait again"}
      /\ seen' = (app.popup # None)
  BY InputTypes DEF OpenList, Extracting, ResumeInv, ExtractionTypeOK, account
<1>2. \/ Performed(<<x>>) /\ clicked' = TRUE
      \/ Failed(<<x>>) /\ clicked' = (place = "retry" /\ clicked)
      \/ Disabled /\ clicked' = (place = "retry" /\ clicked)
  BY DEF OpenList
<1>3. /\ WorldKeeps
      /\ Program \notin lagged' =>
           \/ app.popup # None
           \/ /\ pending' = << >>
              /\ \/ app' = Effect(app, x) /\ clicked' = TRUE
                 \/ app' \in {app, Effect(app, x)} /\ clicked' = (place = "retry" /\ clicked)
  BY <1>1, <1>2, OnePerformed, OneFailed, WhenUnchanged DEF Disabled
<1>4. Inside
  BY <1>1, <1>3 DEF Inside, OpenList, Extracting, durable, account
<1>5. clicked' \in BOOLEAN
  BY <1>1, <1>2 DEF ExtractionTypeOK
<1>6. ExtractionTypeOK'
  BY <1>1, <1>3, <1>5 DEF ExtractionTypeOK, WorldKeeps, OpenList, durable, account
<1>7. WorkInv'
  <2>1. SUFFICES ASSUME Program \notin lagged'
                 PROVE  pending' = << >> /\ app'.shown = Program /\ Own(Program, blocks) /\ Waiting'
    BY <1>1, SameMarks DEF WorkInv, At, Waiting
  <2>2. pending = << >> /\ app.shown = Program /\ At /\ Own(Program, blocks)
    BY <1>1, <1>3, <2>1, Undisturbed
  <2>3. /\ app.popup = None /\ app.line = Line(Next1) /\ frame = FrameAt(Next1)
        /\ place = "retry" /\ clicked => app.line > Size
    BY <1>1, <2>2 DEF At
  <2>4. IF app.line <= Size THEN Effect(app, x) = [app EXCEPT !.popup = Here] ELSE Effect(app, x) = app
    BY <1>1, <2>2, <2>3, InputEffects DEF Here
  <2>5. Here # None /\ app.line \in Nat
    <3>1. Here \in BlockName
      BY <1>1, AtProgram DEF Here, BlockName, AppType
    <3> QED
      BY <1>1, <3>1, ProgramsAssumption DEF AppType
  <2> HIDE DEF x
  <2>6. /\ app'.shown = app.shown /\ app'.line = app.line
        /\ app'.popup = None \/ (app'.popup = Here /\ app.line <= Size)
        /\ clicked' => app'.popup # None \/ app.line > Size
    <3>1. CASE app.line <= Size
      BY <1>1, <1>3, <2>1, <2>3, <2>4, <2>5, <3>1 DEF AppType
    <3>2. CASE ~(app.line <= Size)
      <4>1. app.line > Size
        BY <2>5, <3>2, SizeAssumption
      <4> QED
        BY <1>1, <1>3, <2>1, <2>3, <2>4, <3>2, <4>1 DEF AppType
    <3> QED
      BY <3>1, <3>2
  <2>7. Here' = Here
    BY <1>1, <2>6, SameMarks DEF Here
  <2> QED
    BY <1>1, <1>3, <2>1, <2>2, <2>3, <2>6, <2>7, SameMarks DEF Waiting
<1> QED
  BY <1>4, <1>6, <1>7, InsideInv

LEMMA PopupFoundKeeps ==
  ASSUME ResumeInv, PopupFound
  PROVE  ResumeInv'
<1>1. /\ Extracting /\ ExtractionTypeOK /\ UNCHANGED <<edition, position, blocks, world>>
      /\ UNCHANGED <<rec, frame, app, pending, lagged>> /\ place' = "copy block"
  BY DEF PopupFound, Extracting, ResumeInv, account, capture, world
<1>2. WorldKeeps
  BY <1>1, WhenUnchanged
<1>3. Inside
  BY <1>1, <1>2 DEF Inside, PopupFound, Extracting, durable, account
<1>4. ExtractionTypeOK'
  BY <1>1 DEF ExtractionTypeOK, PopupFound, world, durable, account, capture
<1>5. WorkInv'
  <2>1. SUFFICES ASSUME Program \notin lagged'
                 PROVE  /\ pending' = << >> /\ app'.shown = Program /\ Own(Program, blocks)
                        /\ InBlock' /\ app'.popup = Here'
    BY <1>1, SameMarks DEF WorkInv, At
  <2>2. pending = << >> /\ app.shown = Program /\ At /\ Own(Program, blocks)
    BY <1>1, <1>2, <2>1, Undisturbed DEF PopupFound
  <2>3. InBlock /\ app.popup = Here
    BY <2>2 DEF At, PopupFound, NewPopup, InBlock
  <2> QED
    BY <1>1, <2>2, <2>3, SameMarks DEF InBlock, Here
<1> QED
  BY <1>3, <1>4, <1>5, InsideInv

LEMMA RetryOpenKeeps ==
  ASSUME ResumeInv, RetryOpen
  PROVE  ResumeInv'
<1>1. /\ Extracting /\ ExtractionTypeOK /\ UNCHANGED <<edition, position, blocks, world>>
      /\ UNCHANGED <<rec, frame, clicked, app, pending, lagged>> /\ place = "wait" /\ place' = "retry"
  BY DEF RetryOpen, Extracting, ResumeInv, account, capture, world
<1>2. WorldKeeps
  BY <1>1, WhenUnchanged
<1>3. Inside
  BY <1>1, <1>2 DEF Inside, RetryOpen, Extracting, durable, account
<1>4. ExtractionTypeOK'
  BY <1>1 DEF ExtractionTypeOK, RetryOpen, world, durable, account, capture
<1>5. WorkInv'
  <2>1. SUFFICES ASSUME Program \notin lagged'
                 PROVE  /\ pending' = << >> /\ app'.shown = Program /\ Own(Program, blocks)
                        /\ app'.popup = None /\ app'.line = Line(Next1)' /\ frame' = FrameAt(Next1)'
                        /\ clicked' => app'.line > Size
    BY <1>1, SameMarks DEF WorkInv, At
  <2>2. pending = << >> /\ app.shown = Program /\ At /\ Own(Program, blocks)
    BY <1>1, <1>2, <2>1, Undisturbed
  <2>3. app.popup = None
    BY <1>1, <2>2 DEF At, RetryOpen, NewPopup
  <2> QED
    BY <1>1, <2>2, <2>3, SameMarks DEF At
<1> QED
  BY <1>3, <1>4, <1>5, InsideInv

\* EndLine is the last line or the one after it.
LEMMA Lines ==
  /\ Size \in Nat /\ Size > 0 /\ EndLine \in Nat /\ EndLine \in {Size, Size + 1}
  /\ \A n \in Nat : n > 0 =>
       /\ Line(n) > Size => n > Size
       /\ Line(n) <= Size => Line(n) = IF n <= Size THEN n ELSE Size
       /\ Line(n) = Size => n >= Size
       /\ Line(n) = Line(n + 1) => n >= Size
       /\ Line(n + 1) = IF Line(n) < EndLine THEN Line(n) + 1 ELSE Line(n)
<1>1. Size \in Nat /\ Size > 0 /\ EndLine \in Nat /\ EndLine \in {Size, Size + 1}
  BY SizeAssumption DEF EndLine
<1> QED
  BY <1>1 DEF Line

LEMMA NoPopupKeeps ==
  ASSUME ResumeInv, NoPopup
  PROVE  ResumeInv'
<1>1. /\ Extracting /\ ExtractionTypeOK /\ UNCHANGED <<edition, position, blocks, world, capture>>
      /\ place = "wait again" /\ blocks \in Seq(SavedBlock) /\ Program \in ProgramSet
      /\ app \in AppType
  BY AtProgram DEF NoPopup, Extracting, ResumeInv, ExtractionTypeOK, capture
<1>2. WorldKeeps
  BY <1>1, WhenUnchanged
<1>3. CASE /\ blocks # << >> /\ app.popup = None
           /\ blocksFile' = [blocksFile EXCEPT ![Program] = blocks] /\ place' = "join"
           /\ unclicked' = IF clicked THEN unclicked ELSE unclicked \cup {Program}
           /\ UNCHANGED rec
  <2>1. Program \notin lagged' =>
          pending = << >> /\ app.shown = Program /\ At /\ Own(Program, blocks)
    BY <1>1, <1>2, Undisturbed
  <2>2. Inside
    BY <1>1, <1>2, <1>3, <2>1 DEF Inside, NoPopup, Extracting
  <2>3. ExtractionTypeOK'
    BY <1>1, <1>3 DEF ExtractionTypeOK, NoPopup, world, capture
  <2>4. WorkInv'
    <3>1. SUFFICES ASSUME Program \notin lagged'
                   PROVE  /\ pending' = << >> /\ app'.shown = Program /\ Own(Program, blocks)
                          /\ app'.popup = None
                          /\ Program \notin unclicked' => Len(blocks) >= Size
      BY <1>1, <1>3, SameMarks DEF WorkInv, At
    <3>2. clicked => app.line > Size /\ app.line = Line(Next1)
      BY <1>1, <1>3, <2>1, <3>1 DEF At
    <3>3. Program \notin unclicked' => clicked
      BY <1>3
    <3>4. Len(blocks) \in Nat
      <4>1. blocks \in Seq(SavedBlock)
        BY <1>1
      <4> QED
        BY <4>1
    <3>5. clicked => Len(blocks) >= Size
      <4>1. Next1 \in Nat /\ Next1 > 0 /\ Next1 = Len(blocks) + 1
        BY <3>4 DEF Next1
      <4>2. Line(Next1) > Size => Next1 > Size
        BY <4>1, Lines
      <4>3. clicked => Next1 > Size
        BY <3>2, <4>2
      <4> HIDE DEF Next1
      <4> QED
        BY <3>4, <4>1, <4>3, Lines
    <3> QED
      BY <1>1, <1>3, <2>1, <3>1, <3>3, <3>5 DEF world
  <2> QED
    BY <2>2, <2>3, <2>4, InsideInv
<1>4. CASE RaiseError /\ UNCHANGED <<blocksFile, unclicked>>
  <2>1. Inside /\ WorkInv' /\ rec' \in Record /\ place' = "clean"
    BY <1>1, <1>2, <1>4, Raised DEF NoPopup, durable, account
  <2>2. ExtractionTypeOK'
    BY <1>1, <1>4, <2>1 DEF ExtractionTypeOK, NoPopup, world, capture
  <2> QED
    BY <2>1, <2>2, InsideInv
<1> QED
  BY <1>3, <1>4 DEF NoPopup

LEMMA CopyBlockKeeps ==
  ASSUME ResumeInv, CopyBlock
  PROVE  ResumeInv'
<1> DEFINE x == Key("copy block")
<1>1. /\ Extracting /\ ExtractionTypeOK /\ app \in AppType /\ x \in InputKeys
      /\ UNCHANGED <<edition, position, blocks, rec, frame>>
      /\ place = "copy block" /\ place' \in {"read block", "close"} /\ block' = None
  BY InputTypes DEF CopyBlock, Extracting, ResumeInv, ExtractionTypeOK, account
<1>2. /\ WorldKeeps
      /\ Program \notin lagged' =>
           /\ pending' = << >> /\ app' \in {app, Effect(app, x)}
           /\ place' = "read block" => app' = Effect(app, x)
  BY <1>1, OnePerformed, OneFailed DEF CopyBlock
<1>3. Inside
  BY <1>1, <1>2 DEF Inside, CopyBlock, Extracting, durable, account
<1>4. ExtractionTypeOK'
  BY <1>1, <1>2 DEF ExtractionTypeOK, WorldKeeps, CopyBlock, durable, account
<1>5. WorkInv'
  <2>1. SUFFICES ASSUME Program \notin lagged'
                 PROVE  /\ pending' = << >> /\ app'.shown = Program /\ Own(Program, blocks)
                        /\ InBlock' /\ app'.popup = Here'
                        /\ place' = "read block" => app'.clip.text = <<Here'>>
    BY <1>1, SameMarks DEF WorkInv, At
  <2>2. pending = << >> /\ app.shown = Program /\ At /\ Own(Program, blocks)
    BY <1>1, <1>2, <2>1, Undisturbed
  <2>3. InBlock /\ app.popup = Here
    BY <1>1, <2>2 DEF At
  <2>4. Here # None
    <3>1. Here \in BlockName
      BY <1>1, AtProgram DEF Here, BlockName, AppType
    <3> QED
      BY <3>1, ProgramsAssumption
  <2>5. Effect(app, x) = [app EXCEPT !.clip = [custom |-> None, text |-> <<app.popup>>]]
    BY <2>3, <2>4 DEF Effect, Key
  <2> HIDE DEF x
  <2> DEFINE text == <<app.popup>>
  <2>6. /\ app'.shown = app.shown /\ app'.line = app.line /\ app'.popup = app.popup
        /\ place' = "read block" => app'.clip.text = text
    <3>1. Effect(app, x) = [app EXCEPT !.clip = [custom |-> None, text |-> text]]
      BY <2>5
    <3> HIDE DEF text
    <3>2. /\ Effect(app, x).shown = app.shown /\ Effect(app, x).line = app.line
          /\ Effect(app, x).popup = app.popup /\ Effect(app, x).clip.text = text
      <4>1. app \in AppType
        BY <1>1
      <4>2. ASSUME NEW c PROVE LET a == [app EXCEPT !.clip = c]
                               IN  a.shown = app.shown /\ a.line = app.line /\ a.popup = app.popup /\ a.clip = c
        BY <4>1 DEF AppType
      <4> QED
        BY <3>1, <4>2
    <3> QED
      BY <1>2, <2>1, <3>2
  <2>7. Here' = Here
    BY <1>1, <2>6, SameMarks DEF Here
  <2> QED
    BY <1>1, <1>2, <2>1, <2>2, <2>3, <2>6, <2>7, SameMarks DEF InBlock
<1> QED
  BY <1>3, <1>4, <1>5, InsideInv

LEMMA ReadBlockKeeps ==
  ASSUME ResumeInv, ReadBlock
  PROVE  ResumeInv'
<1>1. /\ Extracting /\ ExtractionTypeOK /\ app \in AppType
      /\ UNCHANGED <<edition, position, blocks, rec, frame, app, pending, lagged>>
      /\ place = "read block" /\ place' = "close" /\ block' \in {None, app.clip.text}
  BY DEF ReadBlock, Extracting, ResumeInv, ExtractionTypeOK, account
<1>2. WorldKeeps
  BY <1>1, LeftAlone DEF ReadBlock
<1>3. Inside
  BY <1>1, <1>2 DEF Inside, ReadBlock, Extracting, durable, account
<1>4. ExtractionTypeOK'
  <2>1. app.clip.text \in Text \cup {None}
    BY <1>1 DEF AppType, Clipboard
  <2> QED
    BY <1>1, <1>2, <2>1 DEF ExtractionTypeOK, WorldKeeps, ReadBlock, durable, account
<1>5. WorkInv'
  <2>1. SUFFICES ASSUME Program \notin lagged'
                 PROVE  /\ pending' = << >> /\ app'.shown = Program /\ Own(Program, blocks)
                        /\ InBlock' /\ app'.popup = Here' /\ block' \in {None, <<Here'>>}
    BY <1>1, SameMarks DEF WorkInv, At
  <2>2. pending = << >> /\ app.shown = Program /\ At /\ Own(Program, blocks)
    BY <1>1, <1>2, <2>1, Undisturbed
  <2>3. InBlock /\ app.popup = Here /\ app.clip.text = <<Here>>
    BY <1>1, <2>2 DEF At
  <2> QED
    BY <1>1, <2>2, <2>3, SameMarks DEF InBlock, Here
<1> QED
  BY <1>3, <1>4, <1>5, InsideInv

LEMMA CloseListKeeps ==
  ASSUME ResumeInv, CloseList
  PROVE  ResumeInv'
<1> DEFINE x == Key("escape")
<1>1. /\ Extracting /\ ExtractionTypeOK /\ app \in AppType /\ x \in InputKeys
      /\ UNCHANGED <<edition, position, blocks, frame, block>> /\ place = "close"
  BY InputTypes DEF CloseList, Extracting, ResumeInv, ExtractionTypeOK, account, capture
<1>2. /\ WorldKeeps
      /\ Program \notin lagged' => pending' = << >> /\ app' \in {app, Effect(app, x)}
  BY <1>1, OnePerformed, OneFailed DEF CloseList
<1>3. CASE place' = "closed" /\ UNCHANGED rec
  <2>1. Inside
    BY <1>1, <1>2, <1>3 DEF Inside, CloseList, Extracting, durable, account
  <2>2. ExtractionTypeOK'
    BY <1>1, <1>2, <1>3 DEF ExtractionTypeOK, WorldKeeps, CloseList, durable, account, capture
  <2>3. WorkInv'
    <3>1. SUFFICES ASSUME Program \notin lagged'
                   PROVE  /\ pending' = << >> /\ app'.shown = Program /\ Own(Program, blocks)
                          /\ InBlock' /\ block' \in {None, <<Here'>>}
      BY <1>1, <1>3, SameMarks DEF WorkInv, At
    <3>2. pending = << >> /\ app.shown = Program /\ At /\ Own(Program, blocks)
      BY <1>1, <1>2, <3>1, Undisturbed
    <3>3. InBlock /\ block \in {None, <<Here>>}
      BY <1>1, <3>2 DEF At
    <3>4. app'.shown = app.shown /\ app'.line = app.line
      BY <1>1, <1>2, <3>1 DEF AppType, Effect, Key
    <3>5. Here' = Here
      BY <1>1, <3>4, SameMarks DEF Here
    <3> QED
      BY <1>1, <1>2, <3>1, <3>2, <3>3, <3>4, <3>5, SameMarks DEF InBlock
  <2> QED
    BY <2>1, <2>2, <2>3, InsideInv
<1>4. CASE RaiseFatal
  <2>1. Inside /\ WorkInv' /\ rec' \in Record /\ place' = "clean"
    BY <1>1, <1>2, <1>4, Raised DEF CloseList
  <2>2. ExtractionTypeOK'
    BY <1>1, <1>2, <2>1 DEF ExtractionTypeOK, WorldKeeps, CloseList, durable, account, capture
  <2> QED
    BY <2>1, <2>2, InsideInv
<1> QED
  BY <1>3, <1>4 DEF CloseList

\* The next block is in its place, and nothing is said of how it was left.
LEMMA OwnAppend ==
  ASSUME NEW p, NEW parts \in Seq(SavedBlock), Own(p, parts), NEW part,
         part.text = <<BlockAt(p, Len(parts) + 1)>>
  PROVE  Own(p, Append(parts, part))
<1>1. Len(parts) \in Nat /\ DOMAIN parts = 1..Len(parts)
  OBVIOUS
<1>2. /\ DOMAIN Append(parts, part) = 1..(Len(parts) + 1)
      /\ \A i \in 1..Len(parts) : Append(parts, part)[i] = parts[i]
      /\ Append(parts, part)[Len(parts) + 1] = part
  OBVIOUS
<1>3. ASSUME NEW i \in DOMAIN Append(parts, part)
      PROVE  Append(parts, part)[i].text = <<BlockAt(p, i)>>
  <2>1. CASE i = Len(parts) + 1
    BY <1>2, <2>1
  <2>2. CASE i \in 1..Len(parts)
    BY <1>1, <1>2, <2>2 DEF Own
  <2> QED
    BY <1>1, <1>2, <1>3, <2>1, <2>2
<1> QED
  BY <1>3 DEF Own

\* The block in the popup is the next one.
LEMMA NextBlock ==
  ASSUME ResumeInv, InBlock, blocks \in Seq(SavedBlock)
  PROVE  /\ Here = BlockAt(Program, Next1)
         /\ app.line = Size => Len(blocks) + 1 >= Size
<1>1. Len(blocks) \in Nat
  OBVIOUS
<1>2. Next1 \in Nat /\ Next1 > 0 /\ Next1 = Len(blocks) + 1
  BY <1>1 DEF Next1
<1>3. app.line = Line(Next1) /\ app.line <= Size
  BY DEF InBlock
<1> HIDE DEF Next1
<1>4. app.line = IF Next1 <= Size THEN Next1 ELSE Size
  BY <1>2, <1>3, Lines
<1>5. app.line = Size => Next1 >= Size
  BY <1>2, <1>3, Lines
<1> QED
  BY <1>2, <1>4, <1>5 DEF Here, BlockAt

LEMMA ClosedKeeps ==
  ASSUME ResumeInv, Closed
  PROVE  ResumeInv'
<1>1. /\ Extracting /\ ExtractionTypeOK /\ UNCHANGED <<edition, position, frame, block>>
      /\ UNCHANGED world /\ UNCHANGED app /\ UNCHANGED unclicked
      /\ place = "closed" /\ Program \in ProgramSet
  BY AtProgram DEF Closed, Extracting, ResumeInv, account, world
<1>0. blocks \in Seq(SavedBlock) /\ block \in Text \cup {None}
  BY <1>1 DEF ExtractionTypeOK
<1>2. WorldKeeps
  BY <1>1, WhenUnchanged
<1>3. CASE (RaiseFatal \/ RaiseError) /\ UNCHANGED <<blocks, blocksFile>>
  <2>1. Inside /\ WorkInv' /\ rec' \in Record /\ place' = "clean"
    BY <1>1, <1>2, <1>3, Raised DEF Closed, durable, account
  <2>2. ExtractionTypeOK'
    BY <1>1, <1>3, <2>1 DEF ExtractionTypeOK, Closed, world, account
  <2> QED
    BY <2>1, <2>2, InsideInv
<1>4. CASE /\ app.popup = None /\ block # None
           /\ blocks' = Append(blocks, [text |-> block, moved |-> FALSE])
           /\ IF Endh(block)
                THEN blocksFile' = [blocksFile EXCEPT ![Program] = blocks'] /\ place' = "join"
                ELSE place' = "down" /\ UNCHANGED blocksFile
           /\ UNCHANGED rec
  <2>1. [text |-> block, moved |-> FALSE] \in SavedBlock
    BY <1>0, <1>4 DEF SavedBlock
  <2>2. blocks' \in Seq(SavedBlock) /\ Len(blocks') = Len(blocks) + 1 /\ Len(blocks) \in Nat
    <3> DEFINE part == [text |-> block, moved |-> FALSE]
    <3>1. part \in SavedBlock /\ blocks' = Append(blocks, part)
      BY <1>4, <2>1
    <3> HIDE DEF part
    <3> QED
      BY <1>0, <3>1
  <2>3. ASSUME Program \notin lagged'
        PROVE  /\ pending = << >> /\ app.shown = Program /\ InBlock
               /\ block = <<Here>> /\ Own(Program, blocks')
    <3>1. pending = << >> /\ app.shown = Program /\ At /\ Own(Program, blocks)
      BY <1>1, <1>2, <2>3, Undisturbed
    <3>2. InBlock /\ block = <<Here>>
      BY <1>1, <1>4, <3>1 DEF At
    <3>3. block = <<BlockAt(Program, Len(blocks) + 1)>>
      BY <1>0, <3>2, NextBlock DEF Next1
    <3>4. Own(Program, Append(blocks, [text |-> block, moved |-> FALSE]))
      BY <1>0, <3>1, <3>3, OwnAppend
    <3> QED
      BY <1>4, <3>1, <3>2, <3>4
  <2>4. place' \in {"join", "down"} /\ (place' = "join" => Endh(block))
    BY <1>4
  <2>5. Inside
    BY <1>1, <1>2, <1>4, <2>3, <2>4 DEF Inside, Closed, Extracting, account
  <2>6. ExtractionTypeOK'
    <3>1. blocksFile' \in [ProgramSet -> Seq(SavedBlock)]
      BY <1>1, <1>4, <2>2 DEF ExtractionTypeOK
    <3> QED
      BY <1>1, <1>4, <2>2, <2>4, <3>1 DEF ExtractionTypeOK, Closed, world, account
  <2>7. WorkInv'
    <3>0. Program' = Program /\ EndLine' = EndLine
      BY <1>1 DEF Program, EndLine
    <3>1. Own(Program, blocks)' <=> Own(Program, blocks')
      BY <3>0 DEF Own, BlockAt
    <3>2. SUFFICES ASSUME Program \notin lagged'
                   PROVE  /\ pending' = << >> /\ app'.shown = Program /\ app'.popup = None
                          /\ Own(Program, blocks')
                          /\ place' = "down" =>
                               /\ blocks' # << >> /\ frame' = FrameAt(Len(blocks))'
                               /\ app'.line = Line(Len(blocks))'
                          /\ place' = "join" => Len(blocks') >= Size
      BY <2>4, <3>0, <3>1 DEF WorkInv, At
    <3>3. blocks' # << >>
      BY <2>2
    <3>4. frame = FrameAt(Next1) /\ app.line = Line(Next1) /\ Len(blocks') = Next1
      BY <2>2, <2>3, <3>2 DEF InBlock, Next1
    <3>5. Line(Len(blocks))' = Line(Next1) /\ FrameAt(Len(blocks))' = FrameAt(Next1)
      BY <3>0, <3>4 DEF Line, FrameAt
    <3>6. place' = "join" => Len(blocks') >= Size
      <4>1. Endh(block) => app.line = Size
        BY <2>3, <3>2 DEF Endh, Here
      <4> QED
        BY <1>0, <2>2, <2>3, <2>4, <3>2, <4>1, NextBlock
    <3> QED
      BY <1>1, <1>4, <2>3, <3>2, <3>3, <3>4, <3>5, <3>6 DEF world
  <2> QED
    BY <2>5, <2>6, <2>7, InsideInv
<1> QED
  BY <1>3, <1>4 DEF Closed

LEMMA MoveDownKeeps ==
  ASSUME ResumeInv, MoveDown
  PROVE  ResumeInv'
<1> DEFINE x == Key("down")
<1>1. /\ Extracting /\ ExtractionTypeOK /\ app \in AppType /\ x \in InputKeys
      /\ UNCHANGED <<edition, position, blocks, frame>> /\ place = "down"
  BY InputTypes DEF MoveDown, Extracting, ResumeInv, ExtractionTypeOK, account, capture
<1>2. CASE app.popup = None /\ Performed(<<x>>) /\ place' = "look" /\ UNCHANGED rec
  <2>1. /\ WorldKeeps
        /\ Program \notin lagged' => pending = << >> /\ pending' = << >> /\ app' = Effect(app, x)
    BY <1>1, <1>2, OnePerformed
  <2>2. Inside
    BY <1>1, <1>2, <2>1 DEF Inside, MoveDown, Extracting, durable, account
  <2>3. ExtractionTypeOK'
    BY <1>1, <1>2, <2>1 DEF ExtractionTypeOK, WorldKeeps, MoveDown, durable, account, capture
  <2>4. WorkInv'
    <3>1. SUFFICES ASSUME Program \notin lagged'
                   PROVE  /\ pending' = << >> /\ app'.shown = Program /\ Own(Program, blocks)
                          /\ app'.popup = None /\ app'.line = Line(Next1)'
                          /\ blocks # << >> /\ frame' = FrameAt(Len(blocks))'
      BY <1>1, <1>2, SameMarks DEF WorkInv, At
    <3>2. pending = << >> /\ app.shown = Program /\ At /\ Own(Program, blocks)
      BY <1>1, <2>1, <3>1, Undisturbed
    <3>3. blocks # << >> /\ frame = FrameAt(Len(blocks)) /\ app.line = Line(Len(blocks))
      BY <1>1, <3>2 DEF At
    <3>4. FrameAt(Len(blocks))' = FrameAt(Len(blocks))
      BY <1>1, SameMarks DEF FrameAt, Line
    <3>5. Effect(app, x) = [app EXCEPT !.line = IF @ < EndLine THEN @ + 1 ELSE @]
      BY <1>1, <1>2, InputEffects
    <3>6. Line(Next1) = IF app.line < EndLine THEN app.line + 1 ELSE app.line
      <4>1. Len(blocks) \in Nat /\ Len(blocks) > 0
        <5>1. blocks \in Seq(SavedBlock)
          BY <1>1 DEF ExtractionTypeOK
        <5> QED
          BY <3>3, <5>1
      <4> QED
        BY <3>3, <4>1, Lines DEF Next1
    <3> HIDE DEF x
    <3>7. app'.shown = app.shown /\ app'.popup = app.popup /\ app'.line = Line(Next1)
      BY <1>1, <2>1, <3>1, <3>5, <3>6 DEF AppType
    <3> QED
      BY <1>1, <1>2, <2>1, <3>1, <3>2, <3>3, <3>4, <3>7, SameMarks
  <2> QED
    BY <2>2, <2>3, <2>4, InsideInv
<1>3. CASE (Failed(<<x>>) \/ Disabled) /\ RaiseError
  <2>1. WorldKeeps
    BY <1>1, <1>3, OneFailed, WhenUnchanged DEF Disabled
  <2>2. Inside /\ WorkInv' /\ rec' \in Record /\ place' = "clean"
    BY <1>1, <1>3, <2>1, Raised DEF MoveDown
  <2>3. ExtractionTypeOK'
    BY <1>1, <1>3, <2>1, <2>2 DEF ExtractionTypeOK, WorldKeeps, MoveDown, durable, account, capture
  <2> QED
    BY <2>2, <2>3, InsideInv
<1> QED
  BY <1>2, <1>3 DEF MoveDown

LEMMA LookAfterKeeps ==
  ASSUME ResumeInv, LookAfter
  PROVE  ResumeInv'
<1>1. /\ Extracting /\ ExtractionTypeOK /\ app \in AppType /\ UNCHANGED world /\ UNCHANGED app
      /\ UNCHANGED <<edition, position, pending, lagged, unclicked, rec>> /\ place = "look"
      /\ place' \in {"join", "open"} /\ (place' = "join" => frame = Frame(app))
      /\ frame' = Frame(app) /\ blocks' = [blocks EXCEPT ![Len(blocks)].moved = TRUE]
      /\ blocksFile' = [blocksFile EXCEPT ![Program] = blocks']
  BY DEF LookAfter, Extracting, ResumeInv, ExtractionTypeOK, account, world
<1>2. blocks \in Seq(SavedBlock) /\ Len(blocks) \in Nat /\ Program \in ProgramSet
  <2>1. blocks \in Seq(SavedBlock)
    BY <1>1 DEF ExtractionTypeOK
  <2> QED
    BY <1>1, <2>1, AtProgram
<1>3. /\ blocks' \in Seq(SavedBlock) /\ Len(blocks') = Len(blocks) /\ DOMAIN blocks' = DOMAIN blocks
      /\ \A i \in DOMAIN blocks : blocks'[i].text = blocks[i].text
  <2>1. \A i \in DOMAIN blocks : blocks[i] \in SavedBlock
    BY <1>2
  <2>2. \A i \in DOMAIN blocks :
          blocks'[i] = IF i = Len(blocks) THEN [blocks[i] EXCEPT !.moved = TRUE] ELSE blocks[i]
    BY <1>1, <1>2
  <2>3. \A b \in SavedBlock :
          [b EXCEPT !.moved = TRUE] \in SavedBlock /\ [b EXCEPT !.moved = TRUE].text = b.text
    BY DEF SavedBlock
  <2>4. \A i \in DOMAIN blocks : blocks'[i] \in SavedBlock /\ blocks'[i].text = blocks[i].text
    BY <2>1, <2>2, <2>3
  <2>5. blocks' = [i \in 1..Len(blocks) |-> blocks'[i]]
    <3>1. DOMAIN blocks = 1..Len(blocks)
      BY <1>2
    <3>2. \E g : blocks' = [i \in DOMAIN blocks |-> g[i]]
      <4> DEFINE g == [i \in DOMAIN blocks |->
                        IF i = Len(blocks) THEN [blocks[i] EXCEPT !.moved = TRUE] ELSE blocks[i]]
      <4>1. blocks' = g
        BY <1>1, <1>2
      <4>2. g = [i \in DOMAIN blocks |-> g[i]]
        OBVIOUS
      <4> HIDE DEF g
      <4> QED
        BY <4>1, <4>2
    <3>3. PICK g : blocks' = [i \in DOMAIN blocks |-> g[i]]
      BY <3>2
    <3>4. \A i \in DOMAIN blocks : blocks'[i] = g[i]
      BY <3>3
    <3> QED
      BY <3>1, <3>3, <3>4
  <2>6. \A i \in 1..Len(blocks) : blocks'[i] \in SavedBlock
    BY <1>2, <2>4
  <2>7. blocks' \in Seq(SavedBlock)
    BY <1>2, <2>5, <2>6
  <2>8. Len(blocks') = Len(blocks) /\ DOMAIN blocks' = DOMAIN blocks
    BY <1>2, <2>5, <2>7
  <2> QED
    BY <2>4, <2>7, <2>8
<1>4. WorldKeeps
  BY <1>1, WhenUnchanged
<1>5. ASSUME Program \notin lagged'
      PROVE  pending = << >> /\ app.shown = Program /\ At /\ Own(Program, blocks')
  <2>1. pending = << >> /\ app.shown = Program /\ At /\ Own(Program, blocks)
    BY <1>1, <1>4, <1>5, Undisturbed
  <2> QED
    BY <1>3, <2>1 DEF Own
<1>6. Inside
  BY <1>1, <1>4, <1>5 DEF Inside, LookAfter, Extracting, account
<1>7. ExtractionTypeOK'
  <2>1. frame' \in FrameType
    BY <1>1 DEF Frame, FrameType, AppType
  <2>2. blocksFile' \in [ProgramSet -> Seq(SavedBlock)]
    BY <1>1, <1>2, <1>3 DEF ExtractionTypeOK
  <2> QED
    BY <1>1, <1>3, <2>1, <2>2 DEF ExtractionTypeOK, LookAfter, world, account
<1>8. WorkInv'
  <2>0. Program' = Program /\ EndLine' = EndLine /\ Next1' = Next1
    BY <1>1, <1>3 DEF Program, EndLine, Next1
  <2>1. Own(Program, blocks)' <=> Own(Program, blocks')
    BY <2>0 DEF Own, BlockAt
  <2>2. SUFFICES ASSUME Program \notin lagged'
                 PROVE  /\ pending' = << >> /\ app'.shown = Program /\ app'.popup = None
                        /\ Own(Program, blocks')
                        /\ app'.line = Line(Next1)' /\ frame' = FrameAt(Next1)'
                        /\ place' = "join" => Len(blocks') >= Size
    BY <1>1, <2>0, <2>1 DEF WorkInv, At
  <2>3. /\ app.popup = None /\ app.shown = Program /\ blocks # << >>
        /\ frame = FrameAt(Len(blocks)) /\ app.line = Line(Next1)
    BY <1>1, <1>5, <2>2 DEF At
  <2>4. Frame(app) = FrameAt(Next1)
    BY <2>3 DEF Frame, FrameAt
  <2>5. Line(Next1)' = Line(Next1) /\ FrameAt(Next1)' = FrameAt(Next1)
    BY <2>0 DEF Line, FrameAt
  <2>6. place' = "join" => Len(blocks) >= Size
    <3>1. place' = "join" => Line(Len(blocks)) = Line(Len(blocks) + 1)
      BY <1>1, <2>3, <2>4 DEF FrameAt, Next1
    <3>2. Len(blocks) > 0
      BY <1>2, <2>3
    <3> QED
      BY <1>2, <3>1, <3>2, Lines
  <2> QED
    BY <1>1, <1>3, <1>5, <2>2, <2>3, <2>4, <2>5, <2>6
<1> QED
  BY <1>6, <1>7, <1>8, InsideInv

LEMMA DismissDialogsKeeps ==
  ASSUME ResumeInv, DismissDialogs
  PROVE  ResumeInv'
<1> DEFINE x == Key("escape")
<1>1. /\ Extracting /\ ExtractionTypeOK /\ x \in InputKeys
      /\ UNCHANGED <<edition, position, blocks, rec>> /\ place = "clean" /\ place' = "save"
      /\ rec.status \in {"error", "fatal"}
  BY InputTypes DEF DismissDialogs, Extracting, ResumeInv, ProgressInv, account, capture
<1>2. WorldKeeps
  BY <1>1, OnePerformed, OneFailed, WhenUnchanged DEF DismissDialogs
<1>3. Inside
  BY <1>1, <1>2 DEF Inside, DismissDialogs, Extracting, durable, account
<1>4. ExtractionTypeOK'
  BY <1>1, <1>2 DEF ExtractionTypeOK, WorldKeeps, DismissDialogs, durable, account, capture
<1>5. WorkInv'
  BY <1>1, <1>2, RaisedWork DEF WorldKeeps, ResumeInv, WorkInv
<1> QED
  BY <1>3, <1>4, <1>5, InsideInv
-----------------------------------------------------------------------------
(* Steps that write the file of an attempt. *)

\* The file belongs to the program at work, which no record says is complete.
LEMMA ProgramFile ==
  ASSUME ResumeInv, Extracting, NEW method \in Methods, NEW content \in Text,
         files' = [files EXCEPT ![Program][method] = content],
         place' \in {"anchor", "save"}, rec' \in Record,
         place' = "save" => Holds(Program, rec)' /\ (Program \notin lagged => app.popup = None),
         UNCHANGED <<app, pending, lagged, stateFile, blocksFile, position, mem, failures, account>>
  PROVE  /\ files' \in [ProgramSet -> [Methods -> Text \cup {None}]]
         /\ files'[Program][method] = content
         /\ Files'
<1>1. /\ Program \in ProgramSet /\ Program' = Program /\ ~Complete(Program)
      /\ files \in [ProgramSet -> [Methods -> Text \cup {None}]]
  BY AtProgram DEF ResumeInv, ExtractionTypeOK, ProgressInv, Program
<1>2. /\ files' \in [ProgramSet -> [Methods -> Text \cup {None}]]
      /\ files'[Program][method] = content
      /\ \A p \in ProgramSet : p # Program => files'[p] = files[p]
  BY <1>1
<1>3. ASSUME NEW p \in ProgramSet, Complete(p)
      PROVE  files'[p] = files[p]
  BY <1>1, <1>2, <1>3
<1>4. ProgressInv'
  BY <1>1 DEF ResumeInv, ProgressInv, Extracting, Complete
<1>5. RecordsInv'
  <2>1. ASSUME NEW p \in ProgramSet, Complete(p)'
        PROVE  Holds(p, stateFile[p])'
    <3>1. Complete(p)
      BY <2>1 DEF Complete
    <3>2. Holds(p, stateFile[p]) /\ files'[p] = files[p]
      BY <1>3, <3>1 DEF ResumeInv, RecordsInv
    <3> QED
      BY <3>2 DEF Holds, Selected
  <2> QED
    BY <1>1, <2>1 DEF RecordsInv
<1>6. ExitInv'
  BY DEF ResumeInv, ExitInv, Extracting, Complete, account
<1>7. PopupInv'
  BY <1>1 DEF ResumeInv, PopupInv, Complete
<1>8. FilesInv'
  BY DEF ResumeInv, FilesInv, Own, BlockAt
<1>9. WholeCapture'
  <2> SUFFICES ASSUME NEW p \in ProgramSet \ (lagged \cup unclicked), Complete(p)
               PROVE  Faithful(p, CompleteText(p))'
    BY DEF WholeCapture, Complete, account
  <2>1. Faithful(p, CompleteText(p))
    BY DEF ResumeInv, WholeCapture, Complete
  <2>2. CompleteText(p)' = CompleteText(p)
    BY <1>3 DEF CompleteText
  <2> QED
    BY <2>1, <2>2 DEF Faithful
<1> QED
  BY <1>2, <1>4, <1>5, <1>6, <1>7, <1>8, <1>9 DEF Files

\* An attempt is added to the record, and selected if it completes it.
LEMMA AttemptTypes ==
  ASSUME rec \in Record, NEW method \in Methods, NEW content \in Text
  PROVE  LET attempt == [method |-> method, content |-> content]
             attempts == Append(rec.attempts, attempt)
             n == Len(rec.attempts) + 1
         IN  /\ [rec EXCEPT !.attempts = attempts] \in Record
             /\ [status |-> "complete", attempts |-> attempts, selected |-> n] \in Record
             /\ n \in DOMAIN attempts /\ attempts[n] = attempt
<1> DEFINE Attempt == [method : Methods, content : Text]
           attempt == [method |-> method, content |-> content]
           past == rec.attempts
           attempts == Append(past, attempt)
<1>1. past \in Seq(Attempt) /\ attempt \in Attempt
  BY DEF Record
<1>2. /\ attempts \in Seq(Attempt) /\ Len(past) + 1 \in Nat
      /\ Len(past) + 1 \in DOMAIN attempts /\ attempts[Len(past) + 1] = attempt
  <2> HIDE DEF past, attempt, Attempt
  <2> QED
    BY <1>1
<1>3. [rec EXCEPT !.attempts = attempts] \in Record
  <2> HIDE DEF attempts
  <2> QED
    BY <1>2 DEF Record
<1>4. [status |-> "complete", attempts |-> attempts, selected |-> Len(past) + 1] \in Record
  <2> HIDE DEF attempts, past
  <2> QED
    BY <1>2 DEF Record
<1> QED
  BY <1>2, <1>3, <1>4

\* The record completed holds a faithful text.
LEMMA CompletedKeeps ==
  ASSUME ResumeInv, Extracting, NEW method \in Methods, NEW content \in Text,
         Completed(method, content),
         Program \notin lagged =>
           /\ app.popup = None /\ Own(Program, blocks)
           /\ Program \notin unclicked => Faithful(Program, content),
         UNCHANGED <<app, pending, lagged, stateFile, blocksFile, position, mem, capture, failures, account>>,
         Spend \/ UNCHANGED faults
  PROVE  ResumeInv'
<1> DEFINE attempt == [method |-> method, content |-> content]
           attempts == Append(rec.attempts, attempt)
           n == Len(rec.attempts) + 1
<1>1. /\ files' = [files EXCEPT ![Program][method] = content]
      /\ rec' = [status |-> "complete", attempts |-> attempts, selected |-> n]
      /\ place' = "save" /\ ExtractionTypeOK /\ Program' = Program
  BY DEF Completed, ResumeInv, Program
<1>2. rec' \in Record /\ n \in DOMAIN attempts /\ attempts[n] = attempt
  BY <1>1, AttemptTypes DEF ExtractionTypeOK
<1>3. /\ Selected(rec)' = attempt /\ rec'.selected \in DOMAIN rec'.attempts
      /\ attempt.method = method /\ attempt.content = content
  <2> HIDE DEF attempts, n
  <2> QED
    BY <1>1, <1>2 DEF Selected
<1> HIDE DEF attempts, n, attempt
<1>4. Program \in ProgramSet /\ files \in [ProgramSet -> [Methods -> Text \cup {None}]]
  BY <1>1, AtProgram DEF ExtractionTypeOK
<1>5. files'[Program][method] = content
  BY <1>1, <1>4
<1>6. Holds(Program, rec)'
  BY <1>1, <1>3, <1>5 DEF Holds, Selected
<1>7. files' \in [ProgramSet -> [Methods -> Text \cup {None}]] /\ Files'
  BY <1>1, <1>2, <1>6, ProgramFile
<1>8. WorkInv'
  <2>1. Own(Program, blocks)' <=> Own(Program, blocks)
    BY <1>1 DEF Own, BlockAt, capture
  <2>2. Faithful(Program, files[Program][Selected(rec).method])' <=> Faithful(Program, content)
    BY <1>1, <1>3, <1>5 DEF Faithful
  <2> QED
    BY <1>1, <2>1, <2>2 DEF WorkInv, account
<1>9. faults' \in Nat
  BY <1>1, SpendType
<1>10. ExtractionTypeOK'
  <2>1. files' \in [ProgramSet -> [Methods -> Text \cup {None}]] /\ rec' \in Record
    BY <1>2, <1>7
  <2>2. place' = "save" /\ position \in DOMAIN Programs
    BY <1>1, AtProgram
  <2> QED
    BY <1>9, <2>1, <2>2 DEF ResumeInv, Extracting, ExtractionTypeOK, capture, account
<1> QED
  BY <1>7, <1>8, <1>10 DEF ResumeInv, Files

\* The whole program is a faithful text.
LEMMA WholeFaithful ==
  ASSUME NEW p PROVE Faithful(p, Whole(p)) /\ Whole(p) # Short(p)
<1>1. Len(Whole(p)) = Size /\ DOMAIN Whole(p) = 1..Size
  BY SizeAssumption DEF Whole
<1>2. Whole(p)[1].number = 1 /\ Short(p)[1].number = 0
  BY SizeAssumption DEF Whole, Short
<1>3. \A i \in 1..Size : Whole(p)[i] = [program |-> p, number |-> i] /\ i <= Size
  BY SizeAssumption DEF Whole
<1>4. \A i \in DOMAIN Whole(p) : Whole(p)[i] = [program |-> p, number |-> IF i <= Size THEN i ELSE Size]
  BY <1>1, <1>3
<1> QED
  BY <1>1, <1>2, <1>4, SizeAssumption DEF Faithful

LEMMA ReadBinaryKeeps ==
  ASSUME ResumeInv, ReadBinary
  PROVE  ResumeInv'
<1>1. Extracting /\ ExtractionTypeOK /\ app \in AppType /\ place = "read all"
  BY DEF ReadBinary, Extracting, ResumeInv, ExtractionTypeOK
<1>2. app.clip.custom \in Text /\ "binary" \in Methods
  BY <1>1 DEF ReadBinary, BinaryChanged, AppType, Clipboard, Methods
<1>3. ASSUME Program \notin lagged
      PROVE  app.popup = None /\ Own(Program, blocks) /\ Faithful(Program, app.clip.custom)
  <2>1. At /\ Own(Program, blocks)
    BY <1>1, <1>3 DEF ResumeInv, WorkInv
  <2>2. app.popup = None /\ CopiedHere
    BY <1>1, <2>1 DEF At
  <2>3. app.clip.custom = Whole(Program)
    BY <2>2 DEF CopiedHere, CopyOf, ReadBinary, BinaryChanged
  <2> QED
    BY <2>1, <2>2, <2>3, WholeFaithful
<1>4. /\ Completed("binary", app.clip.custom)
      /\ UNCHANGED <<app, pending, lagged, stateFile, blocksFile, position, mem, capture, failures, account>>
      /\ UNCHANGED faults
  BY DEF ReadBinary, world
<1> QED
  BY <1>1, <1>2, <1>3, <1>4, CompletedKeeps

LEMMA ReadPlainKeeps ==
  ASSUME ResumeInv, ReadPlain
  PROVE  ResumeInv'
<1> DEFINE text == app.clip.text
<1>1. /\ Extracting /\ ExtractionTypeOK /\ app \in AppType /\ place = "read all"
      /\ Spend \/ UNCHANGED faults
      /\ UNCHANGED <<app, pending, lagged, stateFile, blocksFile, position, mem, capture, failures, account>>
  BY DEF ReadPlain, Extracting, ResumeInv, ExtractionTypeOK
<1>2. WorldKeeps
  BY <1>1, LeftAlone
<1>3. /\ Program' = Program /\ UNCHANGED <<edition, blocks>>
      /\ Own(Program, blocks)' = Own(Program, blocks)
  <2>1. UNCHANGED <<edition, position, blocks>>
    BY <1>1 DEF capture, account
  <2> QED
    BY <2>1, SameMarks
<1>4. ASSUME Program \notin lagged
      PROVE  /\ pending = << >> /\ app.shown = Program /\ app.popup = None /\ CopiedHere
             /\ Own(Program, blocks) /\ blocks = << >>
  <2>1. pending = << >> /\ app.shown = Program /\ At /\ Own(Program, blocks) /\ blocks = << >>
    BY <1>1, <1>4 DEF ResumeInv, WorkInv
  <2> QED
    BY <1>1, <2>1 DEF At
<1>5. text \in Text \cup {None} /\ "plain" \in Methods
  BY <1>1 DEF AppType, Clipboard, Methods
<1>6. ASSUME place' = "anchor"
      PROVE  WorkInv'
  BY <1>1, <1>3, <1>4, <1>6 DEF WorkInv, At
<1>7. CASE place' = "anchor" /\ UNCHANGED <<files, rec>>
  <2>1. Inside
    BY <1>1, <1>2, <1>7 DEF Inside, Extracting, account
  <2>2. ExtractionTypeOK'
    BY <1>1, <1>2, <1>7 DEF ExtractionTypeOK, WorldKeeps, account, capture
  <2> QED
    BY <1>6, <1>7, <2>1, <2>2, InsideInv
<1>8. CASE text # None /\ Attempted("plain", text) /\ place' = "anchor"
  <2>1. /\ files' = [files EXCEPT ![Program]["plain"] = text]
        /\ rec' = [rec EXCEPT !.attempts = Append(@, [method |-> "plain", content |-> text])]
    BY <1>8 DEF Attempted
  <2>2. rec' \in Record
    BY <1>1, <1>5, <1>8, <2>1, AttemptTypes DEF ExtractionTypeOK
  <2>3. files' \in [ProgramSet -> [Methods -> Text \cup {None}]] /\ Files'
    BY <1>1, <1>5, <1>8, <2>1, <2>2, ProgramFile
  <2>4. ExtractionTypeOK'
    BY <1>1, <1>2, <1>8, <2>2, <2>3 DEF ExtractionTypeOK, WorldKeeps, account, capture
  <2> QED
    BY <1>6, <1>8, <2>3, <2>4 DEF ResumeInv, Files
<1>9. CASE text # None /\ text[1].number # 0 /\ Completed("plain", text)
  <2>1. Program \notin lagged => Faithful(Program, text)
    <3>1. Short(Program)[1].number = 0
      BY DEF Short
    <3>2. Program \notin lagged => text = Whole(Program)
      BY <1>4, <1>9, <3>1 DEF CopiedHere, CopyOf
    <3> QED
      BY <3>2, WholeFaithful
  <2> QED
    BY <1>1, <1>4, <1>5, <1>9, <2>1, CompletedKeeps
<1> QED
  BY <1>7, <1>8, <1>9 DEF ReadPlain

\* f[n] is the text of the first n parts.
LEMMA JoinedRuns ==
  ASSUME NEW parts \in Seq(SavedBlock)
  PROVE  \E f \in [0..Len(parts) -> Text] :
           /\ f[0] = << >> /\ \A i \in 1..Len(parts) : f[i] = f[i-1] \o parts[i].text
           /\ f[Len(parts)] = Joined(parts)
<1> DEFINE L == Len(parts)
           next == [q \in (1..L) \X Text |-> q[2] \o parts[q[1]].text]
           joined == CHOOSE joined : joined = [n \in 0..L |-> IF n = 0 THEN << >> ELSE joined[n-1] \o parts[n].text]
<1>1. L \in Nat /\ \A i \in 1..L : parts[i].text \in Text
  <2>1. \A i \in 1..L : parts[i] \in SavedBlock
    OBVIOUS
  <2> QED
    BY <2>1 DEF SavedBlock
<1>2. next \in [(1..L) \X Text -> Text]
  <2>1. ASSUME NEW q \in (1..L) \X Text
        PROVE  q[2] \o parts[q[1]].text \in Text
    <3>1. q[1] \in 1..L /\ q[2] \in Text
      OBVIOUS
    <3>2. parts[q[1]].text \in Text
      BY <1>1, <3>1
    <3> QED
      BY <3>1, <3>2 DEF Text
  <2> QED
    BY <2>1
<1>3. Joined(parts) = joined[L]
  BY DEF Joined
<1>4. PICK f \in [0..L -> Text] : f[0] = << >> /\ \A i \in 1..L : f[i] = next[<<i, f[i-1]>>]
  <2> HIDE DEF next, L
  <2>0. << >> \in Text
    BY DEF Text
  <2>1. \E f : Stepwise(f, Text, << >>, L, next)
    BY <1>1, <1>2, <2>0, StepwiseFunction
  <2> QED
    BY <2>1 DEF Stepwise
<1>5. ASSUME NEW i \in 1..L
      PROVE  f[i] = f[i-1] \o parts[i].text
  <2>1. f[i-1] \in Text
    <3>1. i - 1 \in 0..L
      BY <1>1
    <3> HIDE DEF L
    <3> QED
      BY <3>1
  <2> QED
    BY <1>4, <2>1
<1> HIDE DEF next
<1>6. f = [n \in 0..L |-> IF n = 0 THEN << >> ELSE f[n-1] \o parts[n].text]
  <2>1. f = [n \in 0..L |-> f[n]]
    OBVIOUS
  <2>2. \A n \in 0..L : n = 0 \/ n \in 1..L
    BY <1>1
  <2> HIDE DEF L
  <2>3. \A n \in 0..L : f[n] = IF n = 0 THEN << >> ELSE f[n-1] \o parts[n].text
    BY <1>4, <1>5, <2>2
  <2> QED
    BY <2>1, <2>3
<1>7. joined = [n \in 0..L |-> IF n = 0 THEN << >> ELSE joined[n-1] \o parts[n].text]
  BY <1>6
<1> HIDE DEF joined
<1>8. joined[0] = << >> /\ \A i \in 1..L : joined[i] = joined[i-1] \o parts[i].text
  <2>1. 0 \in 0..L /\ \A i \in 1..L : i \in 0..L /\ i # 0
    BY <1>1
  <2> HIDE DEF L
  <2> QED
    BY <1>7, <2>1
<1> DEFINE K == {n \in Nat : n <= L => joined[n] = f[n]}
<1>9. 0 \in K
  BY <1>4, <1>8
<1>10. ASSUME NEW n \in Nat, n \in K PROVE n + 1 \in K
  <2> SUFFICES ASSUME n + 1 <= L PROVE joined[n+1] = f[n+1]
    OBVIOUS
  <2>1. joined[n] = f[n] /\ n + 1 \in 1..L /\ (n + 1) - 1 = n
    BY <1>1, <1>10
  <2> QED
    BY <1>5, <1>8, <2>1
<1>11. L \in K
  <2> HIDE DEF K
  <2> QED
    BY <1>1, <1>9, <1>10, Induction
<1> QED
  BY <1>3, <1>4, <1>5, <1>11

(***************************************************************************)
(* Blocks that are in their places join to the text of the program, as many *)
(* blocks long as there are.                                                *)
(***************************************************************************)
LEMMA JoinedOwn ==
  ASSUME NEW parts \in Seq(SavedBlock)
  PROVE  /\ Joined(parts) \in Text
         /\ \A p : Own(p, parts) =>
              Len(Joined(parts)) = Len(parts) /\ \A i \in 1..Len(parts) : Joined(parts)[i] = BlockAt(p, i)
<1> DEFINE L == Len(parts)
<1>1. PICK f \in [0..L -> Text] :
        /\ f[0] = << >> /\ \A i \in 1..L : f[i] = f[i-1] \o parts[i].text
        /\ f[L] = Joined(parts)
  BY JoinedRuns
<1>2. L \in Nat /\ DOMAIN parts = 1..L
  OBVIOUS
<1> HIDE DEF L
<1>3. ASSUME NEW p, Own(p, parts)
      PROVE  Len(f[L]) = L /\ \A i \in 1..L : f[L][i] = BlockAt(p, i)
  <2> DEFINE K == {n \in Nat : n <= L => Len(f[n]) = n /\ \A i \in 1..n : f[n][i] = BlockAt(p, i)}
  <2>1. 0 \in K
    BY <1>1
  <2>2. ASSUME NEW n \in Nat, n \in K PROVE n + 1 \in K
    <3> SUFFICES ASSUME n + 1 <= L
                 PROVE  Len(f[n+1]) = n + 1 /\ \A i \in 1..(n+1) : f[n+1][i] = BlockAt(p, i)
      OBVIOUS
    <3>1. n + 1 \in 1..L /\ (n + 1) - 1 = n /\ n \in 0..L
      BY <1>2
    <3> DEFINE b == BlockAt(p, n + 1)
               g == f[n]
    <3>2. g \in Text /\ Len(g) = n /\ \A i \in 1..n : g[i] = BlockAt(p, i)
      BY <1>2, <2>2, <3>1
    <3>3. parts[n+1].text = <<b>>
      BY <1>2, <1>3, <3>1 DEF Own
    <3>4. f[n+1] = g \o <<b>>
      BY <1>1, <3>1, <3>3
    <3>5. g \in Seq(BlockName)
      BY <3>2 DEF Text
    <3> HIDE DEF b, g
    <3>6. /\ Len(g \o <<b>>) = n + 1 /\ (g \o <<b>>)[n+1] = b
          /\ \A i \in 1..n : (g \o <<b>>)[i] = g[i]
      BY <3>2, <3>5
    <3> QED
      BY <3>2, <3>4, <3>6 DEF b
  <2>3. L \in K
    <3> HIDE DEF K
    <3> QED
      BY <1>2, <2>1, <2>2, Induction
  <2> QED
    BY <2>3
<1>4. f[L] \in Text
  BY <1>2
<1> QED
  BY <1>1, <1>3, <1>4 DEF L

LEMMA JoinBlocksKeeps ==
  ASSUME ResumeInv, JoinBlocks
  PROVE  ResumeInv'
<1>1. /\ Extracting /\ ExtractionTypeOK /\ place = "join" /\ blocks \in Seq(SavedBlock)
      /\ UNCHANGED <<app, pending, lagged, stateFile, blocksFile, position, mem, capture, failures, account>>
      /\ UNCHANGED faults /\ Completed("list", Joined(blocks))
  BY DEF JoinBlocks, Extracting, ResumeInv, ExtractionTypeOK, world
<1>2. Joined(blocks) \in Text /\ "list" \in Methods
  BY <1>1, JoinedOwn DEF Methods
<1>3. ASSUME Program \notin lagged
      PROVE  /\ app.popup = None /\ Own(Program, blocks)
             /\ Program \notin unclicked => Faithful(Program, Joined(blocks))
  <2>1. At /\ Own(Program, blocks)
    BY <1>1, <1>3 DEF ResumeInv, WorkInv
  <2>2. app.popup = None /\ (Program \notin unclicked => Len(blocks) >= Size)
    BY <1>1, <2>1 DEF At
  <2> DEFINE text == Joined(blocks)
  <2>3. /\ text \in Seq(BlockName) /\ Len(text) = Len(blocks)
        /\ \A i \in 1..Len(blocks) : text[i] = BlockAt(Program, i)
    BY <1>1, <2>1, JoinedOwn DEF Text
  <2> HIDE DEF text
  <2>4. DOMAIN text = 1..Len(blocks)
    BY <2>3
  <2>5. Len(blocks) >= Size => Faithful(Program, text)
    BY <2>3, <2>4 DEF Faithful, BlockAt
  <2> QED
    BY <2>1, <2>2, <2>5 DEF text
<1> QED
  BY <1>1, <1>2, <1>3, CompletedKeeps
-----------------------------------------------------------------------------
(* Steps between two programs, and between two runs. *)

LEMMA EveryProgram ==
  /\ Programs \in Seq(ProgramSet) /\ Len(Programs) \in Nat /\ DOMAIN Programs = 1..Len(Programs)
  /\ \A i \in DOMAIN Programs : Programs[i] \in ProgramSet
  /\ \A p \in ProgramSet : \E i \in DOMAIN Programs : Programs[i] = p
<1>1. Programs \in Seq(ProgramSet)
  BY ProgramsAssumption
<1>2. ProgramSet = {Programs[i] : i \in DOMAIN Programs}
  BY DEF ProgramSet, ToSet
<1> QED
  BY <1>1, <1>2

LEMMA SaveRecordKeeps ==
  ASSUME ResumeInv, SaveRecord
  PROVE  ResumeInv'
<1>1. /\ Extracting /\ ExtractionTypeOK /\ Program \in ProgramSet /\ mem = stateFile /\ ~Complete(Program)
      /\ place = "save" /\ place' = "pick" /\ position \in DOMAIN Programs
      /\ stateFile \in [ProgramSet -> Record] /\ rec \in Record /\ position \in Nat /\ failures \in Nat
  BY AtProgram DEF SaveRecord, Extracting, ResumeInv, ProgressInv, ExtractionTypeOK
<1>2. PICK q \in ProgramSet : q = Program
  BY <1>1
<1>3. /\ stateFile' = [stateFile EXCEPT ![q] = rec] /\ mem' = stateFile'
      /\ failures' = IF rec.status = "complete" THEN failures ELSE failures + 1
      /\ position' = IF rec.status = "fatal" THEN Len(Programs) + 1 ELSE position + 1
      /\ UNCHANGED <<files, blocksFile, unclicked, exit, app, pending, faults, lagged>>
      /\ rec' = Running
  BY <1>1, <1>2 DEF SaveRecord, account, world
<1>4. stateFile'[q] = rec /\ \A p \in ProgramSet : p # q => stateFile'[p] = stateFile[p]
  BY <1>1, <1>3
<1>5. /\ Complete(q)' <=> rec.status = "complete"
      /\ \A p \in ProgramSet : p # q => (Complete(p)' <=> Complete(p))
  BY <1>4 DEF Complete
<1>6. ExtractionTypeOK'
  <2>1. stateFile' \in [ProgramSet -> Record]
    BY <1>1, <1>3
  <2>2. position' \in Nat /\ position' > 0 /\ failures' \in Nat
    BY <1>1, <1>3, EveryProgram
  <2>3. Running \in Record
    BY DEF Running, Record
  <2> QED
    BY <1>1, <1>3, <2>1, <2>2, <2>3 DEF ExtractionTypeOK, SaveRecord, account, capture
<1>7. ProgressInv'
  BY <1>1, <1>3 DEF ProgressInv, Extracting
<1>8. RecordsInv'
  <2>1. ASSUME NEW p \in ProgramSet, Complete(p)'
        PROVE  Holds(p, stateFile[p])'
    <3>1. CASE p = q
      BY <1>1, <1>2, <1>3, <1>4, <1>5, <2>1, <3>1 DEF ResumeInv, RecordsInv, Holds, Selected
    <3>2. CASE p # q
      BY <1>3, <1>4, <1>5, <2>1, <3>2 DEF ResumeInv, RecordsInv, Holds, Selected
    <3> QED
      BY <3>1, <3>2
  <2> QED
    BY <1>1, <2>1 DEF RecordsInv
<1>9. ExitInv'
  <2>1. exit # 0
    BY <1>1 DEF ResumeInv, ExitInv
  <2>2. ASSUME failures' = 0, NEW i \in DOMAIN Programs, i < position'
        PROVE  Complete(Programs[i])'
    <3>1. failures = 0 /\ rec.status = "complete" /\ position' = position + 1
      BY <1>1, <1>3, <2>2
    <3>2. i < position \/ i = position
      BY <1>1, <2>2, <3>1, EveryProgram
    <3>3. Programs[i] \in ProgramSet
      BY EveryProgram
    <3>4. CASE i = position
      BY <1>2, <1>5, <3>1, <3>4 DEF Program
    <3>5. CASE i < position
      <4>1. Complete(Programs[i])
        BY <1>1, <3>1, <3>5 DEF ResumeInv, ExitInv
      <4> QED
        BY <1>5, <3>1, <3>3, <4>1
    <3> QED
      BY <3>2, <3>4, <3>5
  <2> QED
    BY <1>3, <2>1, <2>2 DEF ExitInv
<1>10. PopupInv'
  <2> SUFFICES ASSUME lagged = {}
               PROVE  /\ pending = << >>
                      /\ app.popup # None => \E p \in ProgramSet : ~Complete(p)'
    BY <1>1, <1>3 DEF PopupInv
  <2>1. pending = << >> /\ (rec.status = "complete" => app.popup = None)
    BY <1>1 DEF ResumeInv, PopupInv
  <2> QED
    BY <1>5, <2>1
<1>11. WorkInv'
  BY <1>1 DEF WorkInv, Extracting
<1>12. FilesInv'
  BY <1>3 DEF ResumeInv, FilesInv, Own, BlockAt
<1>13. WholeCapture'
  <2> SUFFICES ASSUME NEW p \in ProgramSet \ (lagged \cup unclicked), Complete(p)'
               PROVE  Faithful(p, CompleteText(p))'
    BY <1>3 DEF WholeCapture, Complete
  <2>1. CASE p = q
    <3>1. Faithful(p, files[p][Selected(rec).method])
      BY <1>1, <1>2, <1>5, <2>1 DEF ResumeInv, WorkInv
    <3>2. CompleteText(p)' = files[p][Selected(rec).method]
      BY <1>3, <1>4, <2>1 DEF CompleteText, Selected
    <3> QED
      BY <3>1, <3>2 DEF Faithful
  <2>2. CASE p # q
    <3>1. Faithful(p, CompleteText(p)) /\ CompleteText(p)' = CompleteText(p)
      BY <1>3, <1>4, <1>5, <2>2 DEF ResumeInv, WholeCapture, CompleteText, Complete
    <3> QED
      BY <3>1 DEF Faithful
  <2> QED
    BY <2>1, <2>2
<1> QED
  BY <1>6, <1>7, <1>8, <1>9, <1>10, <1>11, <1>12, <1>13 DEF ResumeInv

\* What the files, the records and the editor keep when a step leaves them alone.
LEMMA FilesAlone ==
  ASSUME ResumeInv, UNCHANGED <<world, durable, unclicked>>, ~Extracting', mem' = stateFile
  PROVE  ProgressInv' /\ RecordsInv' /\ PopupInv' /\ WorkInv' /\ FilesInv' /\ WholeCapture'
<1>1. UNCHANGED <<app, pending, lagged, stateFile, blocksFile, files, unclicked>>
  BY DEF world, durable
<1>2. place' \in {"idle", "pick"}
  BY DEF Extracting
<1>3. ProgressInv' /\ WorkInv'
  BY <1>1, <1>2 DEF ProgressInv, WorkInv
<1>4. RecordsInv' /\ PopupInv'
  BY <1>1, <1>2 DEF ResumeInv, RecordsInv, PopupInv, Complete, Holds, Selected
<1>5. FilesInv'
  BY <1>1 DEF ResumeInv, FilesInv, Own, BlockAt
<1>6. WholeCapture'
  BY <1>1 DEF ResumeInv, WholeCapture, CompleteText, Faithful
<1> QED
  BY <1>3, <1>4, <1>5, <1>6

\* A record that holds is valid.
LEMMA ValidComplete ==
  ASSUME ResumeInv, NEW p \in ProgramSet
  PROVE  CompletedRecordValid(p, stateFile[p]) <=> Complete(p)
  BY DEF ResumeInv, RecordsInv, Complete, Holds, Selected, CompletedRecordValid

LEMMA ResumeKeeps ==
  ASSUME ResumeInv, Resume
  PROVE  ResumeInv'
<1>1. /\ ExtractionTypeOK /\ place = "pick" /\ position \in DOMAIN Programs /\ position \in Nat
      /\ position' = position + 1 /\ mem = stateFile /\ Program \in ProgramSet
      /\ UNCHANGED <<world, durable, place, mem, rec, capture, failures, account>>
  BY EveryProgram DEF Resume, ResumeInv, ProgressInv, ExtractionTypeOK, Program
<1>2. Complete(Program)
  BY <1>1, ValidComplete DEF Resume
<1>3. ExtractionTypeOK'
  BY <1>1 DEF ExtractionTypeOK, world, durable, capture, account
<1>4. ProgressInv' /\ RecordsInv' /\ PopupInv' /\ WorkInv' /\ FilesInv' /\ WholeCapture'
  BY <1>1, FilesAlone DEF Extracting, account
<1>5. ExitInv'
  <2>1. \A p : Complete(p)' <=> Complete(p)
    BY <1>1 DEF Complete, durable
  <2>2. exit' = exit /\ exit # 0 /\ place' = "pick"
    BY <1>1 DEF ResumeInv, ExitInv, account
  <2>3. ASSUME failures' = 0, NEW i \in DOMAIN Programs, i < position'
        PROVE  Complete(Programs[i])
    <3>1. i < position \/ i = position
      BY <1>1, <2>3, EveryProgram
    <3> QED
      BY <1>1, <1>2, <2>3, <3>1 DEF ResumeInv, ExitInv, Program
  <2> QED
    BY <2>1, <2>2, <2>3 DEF ExitInv
<1> QED
  BY <1>3, <1>4, <1>5 DEF ResumeInv

LEMMA BeginKeeps ==
  ASSUME ResumeInv, Begin
  PROVE  ResumeInv'
<1>1. /\ ExtractionTypeOK /\ place = "pick" /\ place' = "activate" /\ position \in DOMAIN Programs
      /\ mem = stateFile /\ Program \in ProgramSet /\ rec' = Running /\ blocks' = << >> /\ block' = None
      /\ UNCHANGED <<app, pending, faults, lagged, stateFile, blocksFile, files, position, mem, failures>>
      /\ UNCHANGED <<edition, runs, exit, unclicked, prior, frame, seen, clicked>>
  BY EveryProgram DEF Begin, ResumeInv, ProgressInv, ExtractionTypeOK, Program, world, durable, account
<1>2. ~Complete(Program) /\ Program' = Program
  BY <1>1, ValidComplete DEF Begin, Program
<1>3. ExtractionTypeOK'
  <2>1. Running \in Record /\ << >> \in Seq(SavedBlock)
    BY DEF Running, Record
  <2> QED
    BY <1>1, <2>1 DEF ExtractionTypeOK
<1>4. ProgressInv' /\ RecordsInv' /\ PopupInv'
  BY <1>1, <1>2 DEF ResumeInv, ProgressInv, RecordsInv, PopupInv, Complete, Holds, Selected
<1>5. ExitInv'
  BY <1>1 DEF ResumeInv, ExitInv, Complete
<1>6. WorkInv'
  BY <1>1, OwnNone DEF WorkInv
<1>7. FilesInv' /\ WholeCapture'
  BY <1>1 DEF ResumeInv, FilesInv, Own, BlockAt, WholeCapture, CompleteText, Faithful
<1> QED
  BY <1>3, <1>4, <1>5, <1>6, <1>7 DEF ResumeInv

LEMMA StartRunKeeps ==
  ASSUME ResumeInv, StartRun
  PROVE  ResumeInv'
<1>1. /\ ExtractionTypeOK /\ place = "idle" /\ place' = "pick" /\ position' = 1 /\ failures' = 0
      /\ exit' = None /\ mem' = stateFile /\ runs' = runs + 1
      /\ UNCHANGED <<world, durable, rec, capture, edition, unclicked>>
  BY DEF StartRun, ResumeInv
<1>2. ExtractionTypeOK'
  <2>1. runs' \in Nat
    BY <1>1 DEF ExtractionTypeOK
  <2> QED
    BY <1>1, <2>1 DEF ExtractionTypeOK, world, durable, capture
<1>3. ProgressInv' /\ RecordsInv' /\ PopupInv' /\ WorkInv' /\ FilesInv' /\ WholeCapture'
  BY <1>1, FilesAlone DEF Extracting
<1>4. ExitInv'
  <2>1. exit' # 0
    BY <1>1, ProgramsAssumption
  <2>2. \A i \in DOMAIN Programs : ~(i < 1)
    BY EveryProgram
  <2> QED
    BY <1>1, <2>1, <2>2 DEF ExitInv
<1> QED
  BY <1>2, <1>3, <1>4 DEF ResumeInv

\* What is left when the script has stopped.
LEMMA StoppedType ==
  ASSUME Stopped
  PROVE  /\ place' = "idle" /\ position' \in Nat /\ rec' \in Record /\ failures' \in Nat
         /\ prior' \in Clipboard /\ blocks' \in Seq(SavedBlock) /\ block' = None /\ frame' = None
         /\ seen' \in BOOLEAN /\ clicked' \in BOOLEAN
<1>1. NoCapture.prior \in Clipboard
  BY DEF NoCapture, Clipboard
<1>2. Running \in Record /\ << >> \in Seq(SavedBlock)
  BY DEF Running, Record
<1> QED
  BY <1>1, <1>2 DEF Stopped

LEMMA FinishKeeps ==
  ASSUME ResumeInv, Finish
  PROVE  ResumeInv'
<1>1. /\ ExtractionTypeOK /\ place = "pick" /\ position \notin DOMAIN Programs /\ mem = stateFile
      /\ position \in Nat /\ position > 0
      /\ stateFile' = stateFile /\ mem' = stateFile /\ exit' = IF failures = 0 THEN 0 ELSE 2
      /\ UNCHANGED <<world, blocksFile, files, edition, runs, unclicked>>
  BY DEF Finish, ResumeInv, ProgressInv, ExtractionTypeOK
<1>2. /\ place' = "idle" /\ position' \in Nat /\ rec' \in Record /\ failures' \in Nat
      /\ prior' \in Clipboard /\ blocks' \in Seq(SavedBlock) /\ block' = None /\ frame' = None
      /\ seen' \in BOOLEAN /\ clicked' \in BOOLEAN
  BY StoppedType DEF Finish
<1>3. ExtractionTypeOK'
  BY <1>1, <1>2 DEF ExtractionTypeOK, world
<1>4. ProgressInv' /\ RecordsInv' /\ PopupInv' /\ WorkInv' /\ FilesInv' /\ WholeCapture'
  BY <1>1, <1>2, FilesAlone DEF Extracting, durable
<1>5. ExitInv'
  <2>1. ASSUME failures = 0, NEW p \in ProgramSet
        PROVE  Complete(p)'
    <3>1. PICK i \in DOMAIN Programs : Programs[i] = p
      BY EveryProgram
    <3>2. i < position
      BY <1>1, EveryProgram
    <3>3. Complete(p)
      BY <1>1, <2>1, <3>1, <3>2 DEF ResumeInv, ExitInv
    <3> QED
      BY <1>1, <3>3 DEF Complete
  <2> QED
    BY <1>1, <1>2, <2>1 DEF ExitInv
<1> QED
  BY <1>3, <1>4, <1>5 DEF ResumeInv

LEMMA KillKeeps ==
  ASSUME ResumeInv, Kill
  PROVE  ResumeInv'
<1>1. /\ ExtractionTypeOK /\ place # "idle" /\ mem' = stateFile
      /\ UNCHANGED <<app, pending, lagged, stateFile, blocksFile, files>>
      /\ UNCHANGED <<edition, runs, exit, unclicked>>
  BY DEF Kill, ResumeInv, durable, account
<1>2. /\ place' = "idle" /\ position' \in Nat /\ rec' \in Record /\ failures' \in Nat
      /\ prior' \in Clipboard /\ blocks' \in Seq(SavedBlock) /\ block' = None /\ frame' = None
      /\ seen' \in BOOLEAN /\ clicked' \in BOOLEAN
  BY StoppedType DEF Kill
<1>3. faults' \in Nat
  BY <1>1, SpendType DEF Kill
<1>4. ExtractionTypeOK'
  BY <1>1, <1>2, <1>3 DEF ExtractionTypeOK
<1>5. ProgressInv' /\ WorkInv'
  BY <1>1, <1>2 DEF ProgressInv, WorkInv, Extracting
<1>6. RecordsInv' /\ PopupInv' /\ ExitInv'
  BY <1>1, <1>2 DEF ResumeInv, RecordsInv, PopupInv, ExitInv, Complete, Holds, Selected
<1>7. FilesInv' /\ WholeCapture'
  BY <1>1 DEF ResumeInv, FilesInv, Own, BlockAt, WholeCapture, CompleteText, Faithful
<1> QED
  BY <1>4, <1>5, <1>6, <1>7 DEF ResumeInv

\* Late inputs are processed: nothing is claimed of the program they find at work.
LEMMA CatchUpKeeps ==
  ASSUME ResumeInv, CatchUp
  PROVE  ResumeInv'
<1>1. /\ ExtractionTypeOK /\ edition \in Editions /\ app \in AppType /\ pending \in Seq(InputKeys)
      /\ lagged \subseteq ProgramSet /\ pending # << >>
      /\ app' = After(app, pending \o << >>) /\ pending' = << >> /\ lagged' = Flagged
      /\ UNCHANGED <<stateFile, blocksFile, files, place, position, mem, rec, failures, faults>>
      /\ UNCHANGED <<edition, runs, exit, unclicked, prior, blocks, block, frame, seen, clicked>>
  BY DEF CatchUp, Land, ResumeInv, ExtractionTypeOK, durable, account, capture
<1>2. app' \in AppType
  <2>1. pending \o << >> \in Seq(InputKeys)
    BY <1>1
  <2> QED
    BY <1>1, <2>1, AfterType
<1>3. lagged \subseteq lagged' /\ lagged' \subseteq ProgramSet
  BY <1>1, EveryProgram DEF Flagged, Program
<1>4. ExtractionTypeOK'
  <2>1. pending' \in Seq(InputKeys)
    BY <1>1
  <2> QED
    BY <1>1, <1>2, <1>3, <2>1 DEF ExtractionTypeOK
<1>5. ProgressInv' /\ RecordsInv' /\ ExitInv'
  BY <1>1 DEF ResumeInv, ProgressInv, RecordsInv, ExitInv, Extracting, Program, Complete, Holds, Selected
<1>6. PopupInv'
  BY <1>1, <1>3 DEF ResumeInv, PopupInv
<1>7. WorkInv'
  <2>1. Extracting' => Program' \in lagged'
    <3>1. Extracting' => position \in DOMAIN Programs
      BY <1>1 DEF Extracting, ExtractionTypeOK
    <3> QED
      BY <1>1, <3>1 DEF Flagged, Program
  <2> QED
    BY <2>1 DEF WorkInv
<1>8. FilesInv' /\ WholeCapture'
  BY <1>1, <1>3 DEF ResumeInv, FilesInv, Own, BlockAt, WholeCapture, CompleteText, Faithful
<1> QED
  BY <1>4, <1>5, <1>6, <1>7, <1>8 DEF ResumeInv
-----------------------------------------------------------------------------
(* The theorems. *)

LEMMA InitHolds == ExtractionInit => ResumeInv
<1> SUFFICES ASSUME ExtractionInit PROVE ResumeInv
  OBVIOUS
<1>1. /\ edition \in Editions /\ pending = << >> /\ faults = 0 /\ lagged = {} /\ unclicked = {}
      /\ app = [shown |-> None, line |-> 1, popup |-> None, clip |-> [custom |-> None, text |-> None]]
      /\ stateFile = [p \in ProgramSet |-> NoRecord] /\ mem = stateFile
      /\ blocksFile = [p \in ProgramSet |-> << >>]
      /\ files = [p \in ProgramSet |-> [m \in {"binary", "plain", "list"} |-> None]]
      /\ place = "idle" /\ position = 0 /\ rec = Running /\ failures = 0 /\ runs = 0 /\ exit = None
      /\ prior = NoCapture.prior /\ blocks = << >> /\ block = None /\ frame = None
      /\ seen = FALSE /\ clicked = FALSE
  BY DEF ExtractionInit
<1>2. NoRecord \in Record /\ Running \in Record /\ NoRecord.status = "none"
  BY DEF NoRecord, Running, Record
<1>3. ExtractionTypeOK
  <2>1. stateFile \in [ProgramSet -> Record] /\ mem \in [ProgramSet -> Record] /\ rec \in Record
    BY <1>1, <1>2
  <2>2. blocksFile \in [ProgramSet -> Seq(SavedBlock)] /\ blocks \in Seq(SavedBlock)
        /\ pending \in Seq(InputKeys)
    BY <1>1
  <2>3. files \in [ProgramSet -> [Methods -> Text \cup {None}]]
    BY <1>1 DEF Methods
  <2>4. prior \in Clipboard /\ app \in AppType
    BY <1>1 DEF NoCapture, Clipboard, AppType
  <2> QED
    BY <1>1, <2>1, <2>2, <2>3, <2>4 DEF ExtractionTypeOK
<1>4. \A p \in ProgramSet : ~Complete(p)
  BY <1>1, <1>2 DEF Complete
<1>5. ProgressInv /\ RecordsInv /\ WorkInv /\ PopupInv
  BY <1>1, <1>4 DEF ProgressInv, RecordsInv, WorkInv, PopupInv, Extracting
<1>6. ExitInv
  BY <1>1, ProgramsAssumption DEF ExitInv
<1>7. FilesInv
  BY <1>1, OwnNone DEF FilesInv
<1>8. WholeCapture
  BY <1>4 DEF WholeCapture, Complete
<1> QED
  BY <1>3, <1>5, <1>6, <1>7, <1>8 DEF ResumeInv

LEMMA NextKeeps ==
  ASSUME ResumeInv, [ExtractionNext]_extractionVars
  PROVE  ResumeInv'
<1>1. CASE StartRun
  BY <1>1, StartRunKeeps
<1>2. CASE Script
  <2>1. CASE Resume \/ Begin \/ ActivateProgram \/ ReadPrior \/ CopyAll \/ ReadBinary \/ ReadPlain
    BY <2>1, ResumeKeeps, BeginKeeps, ActivateKeeps, ReadPriorKeeps, CopyAllKeeps, ReadBinaryKeeps,
       ReadPlainKeeps
  <2>2. CASE Anchor \/ LoadBlocks \/ WalkDown \/ CapReached \/ OpenList \/ PopupFound \/ RetryOpen \/ NoPopup
    BY <2>2, AnchorKeeps, LoadBlocksKeeps, WalkDownKeeps, CapReachedKeeps, OpenListKeeps,
       PopupFoundKeeps, RetryOpenKeeps, NoPopupKeeps
  <2>3. CASE CopyBlock \/ ReadBlock \/ CloseList \/ Closed \/ MoveDown \/ LookAfter \/ JoinBlocks
    BY <2>3, CopyBlockKeeps, ReadBlockKeeps, CloseListKeeps, ClosedKeeps, MoveDownKeeps,
       LookAfterKeeps, JoinBlocksKeeps
  <2>4. CASE DismissDialogs \/ SaveRecord \/ Finish
    BY <2>4, DismissDialogsKeeps, SaveRecordKeeps, FinishKeeps
  <2> QED
    BY <1>2, <2>1, <2>2, <2>3, <2>4 DEF Script
<1>3. CASE CatchUp
  BY <1>3, CatchUpKeeps
<1>4. CASE Kill
  BY <1>4, KillKeeps
<1>5. CASE UNCHANGED extractionVars
  <2>1. /\ UNCHANGED <<edition, app, pending, stateFile, blocksFile, files, place, position, mem, rec>>
        /\ UNCHANGED <<prior, blocks, block, frame, seen, clicked, failures, exit, runs, faults, lagged, unclicked>>
    BY <1>5 DEF extractionVars, world, durable, capture, account
  <2>2. ExtractionTypeOK' /\ ProgressInv' /\ RecordsInv' /\ ExitInv' /\ PopupInv'
    <3>1. ExtractionTypeOK'
      BY <2>1 DEF ResumeInv, ExtractionTypeOK
    <3>2. ProgressInv' /\ ExitInv' /\ PopupInv'
      BY <2>1 DEF ResumeInv, ProgressInv, ExitInv, PopupInv, Extracting, Program, Complete
    <3>3. RecordsInv'
      BY <2>1 DEF ResumeInv, RecordsInv, Program, Complete, Holds, Selected
    <3> QED
      BY <3>1, <3>2, <3>3
  <2>3. FilesInv' /\ WholeCapture'
    BY <2>1 DEF ResumeInv, FilesInv, Own, BlockAt, WholeCapture, CompleteText, Faithful
  <2>4. WorkInv'
    <3>1. Program' = Program /\ EndLine' = EndLine
      BY <2>1 DEF Program, EndLine
    <3>2. At' = At
      BY <2>1, <3>1 DEF At, CopiedHere, CopyOf, Whole, Short, Line, Next1, FrameAt, Here, InBlock
    <3> QED
      BY <2>1, <3>1, <3>2 DEF ResumeInv, WorkInv, Own, BlockAt, Faithful, Selected, Extracting
  <2> QED
    BY <2>2, <2>3, <2>4 DEF ResumeInv
<1> QED
  BY <1>1, <1>2, <1>3, <1>4, <1>5 DEF ExtractionNext

LEMMA Always == ExtractionSpec => []ResumeInv
<1>1. ResumeInv /\ [ExtractionNext]_extractionVars => ResumeInv'
  BY NextKeeps
<1> QED
  BY InitHolds, <1>1, PTL DEF ExtractionSpec

\* Every variable of the capture keeps its type, and what is worked on is one of
\* Programs (the loop of main over _program_nodes).
THEOREM ExtractionTypeCorrect == ExtractionSpec => []ExtractionTypeOK
<1>1. ResumeInv => ExtractionTypeOK
  BY DEF ResumeInv
<1> QED
  BY Always, <1>1, PTL

\* A record marked complete names a file with every block of its own program, in
\* order and none of another, for any number of programs, blocks, runs, failures
\* and kills (_extract_one, and the resume of its blocks).
THEOREM CapturesWhole == ExtractionSpec => []WholeCapture
<1>1. ResumeInv => WholeCapture
  BY DEF ResumeInv
<1> QED
  BY Always, <1>1, PTL

\* Exit code 0 is only given when every program has a record that is complete and
\* whose file is the captured one, and no popup was left open (main).
THEOREM ExitsTruthfully == ExtractionSpec => []ExitTruthful
<1>1. ResumeInv => ExitTruthful
  <2> SUFFICES ASSUME ResumeInv, exit = 0
               PROVE  /\ \A p \in ProgramSet : CompletedRecordValid(p, stateFile[p])
                      /\ lagged = {} => app.popup = None
    BY DEF ExitTruthful
  <2>1. \A p \in ProgramSet : Complete(p)
    BY DEF ResumeInv, ExitInv
  <2>2. lagged = {} => app.popup = None
    BY <2>1 DEF ResumeInv, PopupInv
  <2> QED
    BY <2>1, <2>2, ValidComplete
<1> QED
  BY Always, <1>1, PTL

\* A step writes neither the record nor the files of a program that is complete.
LEMMA CompleteAlone ==
  ASSUME ResumeInv, [ExtractionNext]_extractionVars, NEW p \in ProgramSet, Complete(p)
  PROVE  stateFile'[p] = stateFile[p] /\ files'[p] = files[p]
<1>1. /\ stateFile \in [ProgramSet -> Record]
      /\ files \in [ProgramSet -> [Methods -> Text \cup {None}]] /\ mem = stateFile
  BY DEF ResumeInv, ExtractionTypeOK, ProgressInv
<1>2. ASSUME Extracting PROVE p # Program
  BY <1>2 DEF ResumeInv, ProgressInv
<1>3. CASE SaveRecord
  <2>1. p # Program
    BY <1>2, <1>3 DEF SaveRecord, Extracting
  <2> QED
    BY <1>1, <1>3, <2>1 DEF SaveRecord
<1>4. CASE ReadBinary \/ JoinBlocks \/ ReadPlain
  <2>1. p # Program /\ UNCHANGED stateFile
    BY <1>2, <1>4 DEF ReadBinary, JoinBlocks, ReadPlain, Extracting
  <2>2. UNCHANGED files \/ \E m, c : files' = [files EXCEPT ![Program][m] = c]
    BY <1>4 DEF ReadBinary, JoinBlocks, ReadPlain, Completed, Attempted
  <2> QED
    BY <1>1, <2>1, <2>2
<1>5. CASE Finish
  BY <1>1, <1>5 DEF Finish
<1>6. CASE \/ StartRun \/ CatchUp \/ Kill \/ UNCHANGED extractionVars
           \/ Resume \/ Begin \/ ActivateProgram \/ ReadPrior \/ CopyAll
           \/ Anchor \/ LoadBlocks \/ WalkDown \/ CapReached \/ OpenList \/ PopupFound
           \/ RetryOpen \/ CopyBlock \/ ReadBlock \/ CloseList \/ MoveDown \/ DismissDialogs
  <2>1. UNCHANGED durable
    BY <1>6 DEF StartRun, CatchUp, Kill, extractionVars, Resume, Begin, ActivateProgram, ReadPrior,
       CopyAll, Anchor, LoadBlocks, WalkDown, CapReached, OpenList, PopupFound, RetryOpen, CopyBlock,
       ReadBlock, CloseList, MoveDown, DismissDialogs
  <2> QED
    BY <2>1 DEF durable
<1>7. CASE NoPopup \/ Closed \/ LookAfter
  BY <1>7 DEF NoPopup, Closed, LookAfter
<1> QED
  BY <1>3, <1>4, <1>5, <1>6, <1>7 DEF ExtractionNext, Script

\* No step replaces a record that is complete, or its file (the resume of main).
THEOREM CompletesKept == ExtractionSpec => CompleteKept
<1>1. ResumeInv /\ [ExtractionNext]_extractionVars =>
        [\A p \in ProgramSet :
           CompletedRecordValid(p, stateFile[p]) =>
             /\ stateFile'[p] = stateFile[p]
             /\ files'[p][stateFile[p].attempts[stateFile[p].selected].method] = CompleteText(p)]_extractionVars
  <2> SUFFICES ASSUME ResumeInv, [ExtractionNext]_extractionVars, NEW p \in ProgramSet,
                      CompletedRecordValid(p, stateFile[p])
               PROVE  /\ stateFile'[p] = stateFile[p]
                      /\ files'[p][stateFile[p].attempts[stateFile[p].selected].method] = CompleteText(p)
    OBVIOUS
  <2>1. Complete(p)
    BY ValidComplete
  <2> QED
    BY <2>1, CompleteAlone DEF CompleteText
<1> QED
  BY Always, <1>1, PTL DEF CompleteKept, ExtractionSpec

(***************************************************************************)
(* TreeItemActions.                                                         *)
(***************************************************************************)
-----------------------------------------------------------------------------
(* Types. *)

LEMMA InitType == Init => TreeActionsTypeOK
<1> SUFFICES ASSUME Init PROVE TreeActionsTypeOK
  OBVIOUS
<1>1. order \in [1..Cardinality(Items) -> Items]
  BY DEF Init, SetToSeqs
<1>2. InputsTyped
  BY DEF Init, InputsTyped
<1> QED
  BY <1>1, <1>2 DEF Init, TreeActionsTypeOK, FlagsTyped

\* A row found for a resolved item.
Shows(i) == \E row \in DOMAIN order : order[row] = i

LEMMA RowFound ==
  ASSUME NEW i, Shows(i)
  PROVE  RowOf(i) \in DOMAIN order /\ order[RowOf(i)] = i
  BY DEF Shows, RowOf

\* An item resolved for the request: it has the text asked for and a row.
ItemInv ==
  /\ item # NULL => Label[item] = source /\ Shows(item)
  /\ pc \in {"baseline", "press"} => item # NULL

LEMMA InitItem == Init => ItemInv
  BY DEF Init, ItemInv

\* Inputs are only appended at one end, and taken from the other.
LEMMA AppendInputs ==
  ASSUME NEW S, NEW s \in Seq(S), NEW e \in S, NEW n \in DOMAIN Append(s, e)
  PROVE  (n \in DOMAIN s /\ Append(s, e)[n] = s[n]) \/ Append(s, e)[n] = e
  OBVIOUS

LEMMA TailInputs ==
  ASSUME NEW S, NEW s \in Seq(S), s # << >>, NEW n \in DOMAIN Tail(s)
  PROVE  n + 1 \in DOMAIN s /\ Tail(s)[n] = s[n + 1]
  OBVIOUS

LEMMA SameInputs ==
  ASSUME InputsTyped, UNCHANGED <<inputs, order>>
  PROVE  InputsTyped'
  BY DEF InputsTyped

\* An input the adapter sends keeps the types of the queue.
LEMMA SendType ==
  ASSUME TreeActionsTypeOK, NEW what \in {"double", "right", "escape"}, NEW row \in Nat,
         what # "escape" => row \in DOMAIN order, UNCHANGED order,
         inputs' = Append(inputs, Input(what, row))
  PROVE  InputsTyped'
<1> DEFINE e == Input(what, row)
<1>1. e \in Inputs /\ e.what = what /\ e.row = row
  BY DEF Input, Inputs, TreeActionsTypeOK
<1>2. inputs \in Seq(Inputs) /\ inputs' = Append(inputs, e)
  BY DEF TreeActionsTypeOK, InputsTyped
<1> HIDE DEF e
<1>3. inputs' \in Seq(Inputs)
  BY <1>1, <1>2
<1>4. ASSUME NEW n \in DOMAIN inputs', inputs'[n].what # "escape"
      PROVE inputs'[n].row \in DOMAIN order'
  <2>1. (n \in DOMAIN inputs /\ inputs'[n] = inputs[n]) \/ inputs'[n] = e
    BY <1>1, <1>2, AppendInputs
  <2> QED
    BY <1>1, <1>4, <2>1 DEF TreeActionsTypeOK, InputsTyped
<1> QED
  BY <1>3, <1>4 DEF InputsTyped

\* The input the editor takes is the first of the queue.
LEMMA TakeType ==
  ASSUME TreeActionsTypeOK, Process
  PROVE  /\ Head(inputs) \in Inputs /\ Head(inputs) = inputs[1] /\ 1 \in DOMAIN inputs
         /\ UNCHANGED <<order, folder, opening>> /\ InputsTyped'
<1>1. inputs \in Seq(Inputs) /\ inputs # << >> /\ inputs' = Tail(inputs)
  BY DEF Process, TreeActionsTypeOK, InputsTyped
<1>2. UNCHANGED <<order, folder, opening>>
  <2>1. Head(inputs) \in Inputs
    BY <1>1
  <2> QED
    BY <2>1 DEF Process, Inputs, editor
<1>3. Head(inputs) \in Inputs /\ Head(inputs) = inputs[1] /\ 1 \in DOMAIN inputs
  BY <1>1
<1>4. inputs' \in Seq(Inputs)
  BY <1>1
<1>5. ASSUME NEW n \in DOMAIN inputs', inputs'[n].what # "escape"
      PROVE inputs'[n].row \in DOMAIN order'
  <2>1. n + 1 \in DOMAIN inputs /\ inputs'[n] = inputs[n + 1]
    BY <1>1, TailInputs
  <2> QED
    BY <1>2, <1>5, <2>1 DEF TreeActionsTypeOK, InputsTyped
<1> QED
  BY <1>2, <1>3, <1>4, <1>5 DEF InputsTyped

LEMMA ReorderType ==
  ASSUME TreeActionsTypeOK, Reorder
  PROVE  /\ order' \in [1..Cardinality(Items) -> Items] /\ InputsTyped'
         /\ DOMAIN inputs' = DOMAIN inputs
         /\ \A n \in DOMAIN inputs : inputs'[n] = [inputs[n] EXCEPT !.moved = TRUE]
<1>1. order' \in [1..Cardinality(Items) -> Items]
  BY DEF Reorder, TreeActionsTypeOK
<1>2. inputs \in Seq(Inputs) /\ inputs' = [n \in DOMAIN inputs |-> [inputs[n] EXCEPT !.moved = TRUE]]
  BY DEF Reorder, TreeActionsTypeOK, InputsTyped
<1>3. ASSUME NEW n \in DOMAIN inputs
      PROVE  /\ inputs'[n] = [inputs[n] EXCEPT !.moved = TRUE] /\ inputs'[n] \in Inputs
             /\ inputs'[n].what = inputs[n].what /\ inputs'[n].row = inputs[n].row
  <2>1. inputs[n] \in Inputs
    BY <1>2
  <2>2. inputs'[n] = [inputs[n] EXCEPT !.moved = TRUE]
    BY <1>2
  <2> QED
    BY <2>1, <2>2 DEF Inputs
<1>4. inputs' \in Seq(Inputs) /\ DOMAIN inputs' = DOMAIN inputs
  BY <1>2, <1>3
<1>5. DOMAIN order' = DOMAIN order
  BY <1>1 DEF TreeActionsTypeOK
<1> QED
  BY <1>1, <1>3, <1>4, <1>5 DEF TreeActionsTypeOK, InputsTyped

LEMMA RowIsNat ==
  ASSUME TreeActionsTypeOK, NEW row \in DOMAIN order
  PROVE  row \in Nat
<1>1. DOMAIN order = 1..Cardinality(Items)
  BY DEF TreeActionsTypeOK
<1>2. row \in Int /\ 1 <= row
  BY <1>1
<1> QED
  BY <1>2

\* A click on the resolved item.
LEMMA ClickType ==
  ASSUME TreeActionsTypeOK, ItemInv, pc = "press", NEW what \in {"double", "right"}, UNCHANGED order,
         inputs' = Append(inputs, Input(what, RowOf(item)))
  PROVE  InputsTyped'
<1>1. RowOf(item) \in DOMAIN order
  BY RowFound DEF ItemInv
<1>2. RowOf(item) \in Nat
  BY <1>1, RowIsNat
<1> QED
  BY <1>1, <1>2, SendType

LEMMA NextFlags == TreeActionsTypeOK /\ [Next]_vars => FlagsTyped'
<1> SUFFICES ASSUME TreeActionsTypeOK, [Next]_vars PROVE FlagsTyped'
  OBVIOUS
<1> USE DEF Goto, Fail, editor, locals, history, SendEscape
<1>0. FlagsTyped
  BY DEF TreeActionsTypeOK
<1> USE <1>0 DEF FlagsTyped
<1>1. CASE Requests
  BY <1>1, Zenon DEF Requests, Request
<1>2. CASE Expand \/ SeenExpanded \/ NotSeenExpanded \/ Lost \/ KnownMenus
  BY <1>2, Zenon DEF Expand, SeenExpanded, NotSeenExpanded, Lost, KnownMenus
<1>3. CASE Resolve
  BY <1>3, Zenon DEF Resolve
<1>4. CASE DoubleClick \/ DoubleClickFails \/ RightClick
  BY <1>4, Zenon DEF DoubleClick, DoubleClickFails, RightClick
<1>10. CASE RightClickFails \/ SeeMenu \/ SeeMenuFails
  BY <1>10, Zenon DEF RightClickFails, SeeMenu, SeeMenuFails
<1>5. CASE NoMenu \/ SeeEnd \/ StaysOpen \/ VerifySource
  BY <1>5, Zenon DEF NoMenu, SeeEnd, StaysOpen, VerifySource
<1>6. CASE CleanUp
  <2>1. warned' \in BOOLEAN /\ abandoned' \in BOOLEAN
    BY <1>6, Zenon DEF CleanUp
  <2> QED
    BY <1>6, <2>1, Zenon DEF CleanUp
<1>7. CASE Process
  <2>1. UNCHANGED opening
    BY <1>7, TakeType
  <2> QED
    BY <1>7, <2>1, Zenon DEF Process
<1>8. CASE ObeyExpand \/ Reorder
  BY <1>8, Zenon DEF ObeyExpand, Reorder
<1>9. CASE UNCHANGED vars
  BY <1>9, Zenon DEF vars
<1> QED
  BY <1>1, <1>2, <1>3, <1>4, <1>5, <1>6, <1>7, <1>8, <1>9, <1>10 DEF Next, Adapter, Editor

\* What a step of the editor has to keep.
LEMMA EditorType ==
  ASSUME TreeActionsTypeOK, InputsTyped', FlagsTyped', folder' = folder,
         order' \in [1..Cardinality(Items) -> Items],
         menus' \in Nat, menu' \in Menus \cup {NULL}, found' = found,
         pc' = pc, kind' = kind, source' = source, item' = item, shown' = shown, result' = result
  PROVE  TreeActionsTypeOK'
  BY Zenon DEF TreeActionsTypeOK

LEMMA NextType == TreeActionsTypeOK /\ ItemInv /\ [Next]_vars => TreeActionsTypeOK'
<1> SUFFICES ASSUME TreeActionsTypeOK, ItemInv, [Next]_vars PROVE TreeActionsTypeOK'
  OBVIOUS
<1> USE DEF Goto, Fail, editor, locals, request, history, Menus
<1>0. FlagsTyped'
  BY NextFlags
<1>1. CASE Requests
  <2>1. InputsTyped'
    BY <1>1, SameInputs DEF Requests, Request, TreeActionsTypeOK
  <2> QED
    BY <1>0, <1>1, <2>1 DEF Requests, Request, TreeActionsTypeOK
<1>2. CASE Expand \/ SeenExpanded \/ NotSeenExpanded \/ Lost \/ KnownMenus
  <2>1. InputsTyped'
    BY <1>2, SameInputs DEF Expand, SeenExpanded, NotSeenExpanded, Lost, KnownMenus, TreeActionsTypeOK
  <2> QED
    BY <1>0, <1>2, <2>1 DEF Expand, Resolving, SeenExpanded, NotSeenExpanded, Lost, KnownMenus, TreeActionsTypeOK
<1>3. CASE Resolve
  <2>1. InputsTyped'
    BY <1>3, SameInputs DEF Resolve, TreeActionsTypeOK
  <2> QED
    BY <1>0, <1>3, <2>1 DEF Resolve, Resolving, Found, TreeActionsTypeOK
<1>4. CASE DoubleClick \/ DoubleClickFails
  <2>1. InputsTyped'
    BY <1>4, ClickType, SameInputs DEF DoubleClick, DoubleClickFails, TreeActionsTypeOK
  <2> QED
    BY <1>0, <1>4, <2>1 DEF DoubleClick, DoubleClickFails, TreeActionsTypeOK
<1>5. CASE RightClick \/ RightClickFails
  <2>1. InputsTyped'
    BY <1>5, ClickType, SameInputs DEF RightClick, RightClickFails, TreeActionsTypeOK
  <2> QED
    BY <1>0, <1>5, <2>1 DEF RightClick, RightClickFails, TreeActionsTypeOK
<1>6. CASE SeeMenu \/ SeeMenuFails
  <2>1. found' \in Menus /\ found' # NULL /\ shown' \in Items \cup {NULL}
    BY <1>6 DEF SeeMenu, SeeMenuFails, NewMenus, OpenMenus, TreeActionsTypeOK
  <2>2. UNCHANGED order /\ (inputs' = inputs \/ inputs' = Append(inputs, Input("escape", 1)))
    BY <1>6 DEF SeeMenu, SeeMenuFails, SendEscape
  <2>3. InputsTyped'
    BY <2>2, SameInputs, SendType DEF TreeActionsTypeOK
  <2> QED
    BY <1>0, <1>6, <2>1, <2>3 DEF SeeMenu, SeeMenuFails, TreeActionsTypeOK
<1>7. CASE NoMenu \/ SeeEnd \/ StaysOpen \/ VerifySource
  <2>1. InputsTyped'
    BY <1>7, SameInputs DEF NoMenu, SeeEnd, StaysOpen, VerifySource, TreeActionsTypeOK
  <2> QED
    BY <1>0, <1>7, <2>1 DEF NoMenu, SeeEnd, StaysOpen, VerifySource, TreeActionsTypeOK
<1>8. CASE CleanUp
  <2>1. UNCHANGED order /\ (inputs' = inputs \/ inputs' = Append(inputs, Input("escape", 1)))
    BY <1>8 DEF CleanUp, SendEscape
  <2>2. InputsTyped'
    BY <2>1, SameInputs, SendType DEF TreeActionsTypeOK
  <2> QED
    BY <1>0, <1>8, <2>2 DEF CleanUp, TreeActionsTypeOK
<1>9. CASE Process
  <2> DEFINE input == Head(inputs)
  <2>1. input \in Inputs /\ input = inputs[1] /\ 1 \in DOMAIN inputs /\ UNCHANGED <<order, folder>> /\ InputsTyped'
    BY <1>9, TakeType
  <2>9. /\ pc' = pc /\ kind' = kind /\ source' = source /\ item' = item
        /\ found' = found /\ shown' = shown /\ result' = result
    BY <1>9, Zenon DEF Process
  <2>0. order' \in [1..Cardinality(Items) -> Items]
    BY <2>1 DEF TreeActionsTypeOK
  <2>2. CASE input.what = "right"
    <3>1. input.row \in DOMAIN order
      BY <2>1, <2>2 DEF TreeActionsTypeOK, InputsTyped
    <3>2. order[input.row] \in Items /\ input.moved \in BOOLEAN
      BY <2>1, <3>1 DEF TreeActionsTypeOK, Inputs
    <3>3. /\ menu' = [id |-> menus + 1, of |-> order[input.row], moved |-> input.moved]
          /\ menus' = menus + 1
      BY <1>9, <2>2 DEF Process
    <3>5. menus \in Nat
      BY DEF TreeActionsTypeOK
    <3>4. menus' \in Nat /\ menu' \in Menus
      BY <3>2, <3>3, <3>5 DEF Menus
    <3> QED
      BY <1>0, <2>0, <2>1, <2>9, <3>4, EditorType
  <2>3. CASE input.what \in {"double", "escape"}
    <3>1. menu' \in {menu, NULL} /\ menus' = menus
      BY <1>9, <2>3 DEF Process
    <3>2. menus' \in Nat /\ menu' \in Menus \cup {NULL}
      BY <3>1 DEF TreeActionsTypeOK
    <3> QED
      BY <1>0, <2>0, <2>1, <2>9, <3>2, EditorType
  <2> QED
    BY <2>1, <2>2, <2>3 DEF Inputs
<1>10. CASE ObeyExpand
  <2>1. InputsTyped'
    BY <1>10, SameInputs DEF ObeyExpand, TreeActionsTypeOK
  <2> QED
    BY <1>0, <1>10, <2>1 DEF ObeyExpand, TreeActionsTypeOK
<1>11. CASE Reorder
  <2>1. /\ menu' = menu /\ menus' = menus /\ pc' = pc /\ kind' = kind /\ source' = source /\ item' = item
        /\ found' = found /\ shown' = shown /\ result' = result /\ folder' = folder
    BY <1>11, Zenon DEF Reorder
  <2>2. menus' \in Nat /\ menu' \in Menus \cup {NULL}
    BY <2>1 DEF TreeActionsTypeOK
  <2> QED
    BY <1>0, <1>11, <2>1, <2>2, ReorderType, EditorType
<1>12. CASE UNCHANGED vars
  <2>1. InputsTyped'
    BY <1>12, SameInputs DEF vars, TreeActionsTypeOK
  <2>2. /\ menu' = menu /\ menus' = menus /\ pc' = pc /\ kind' = kind /\ source' = source /\ item' = item
        /\ found' = found /\ shown' = shown /\ result' = result /\ folder' = folder /\ order' = order
    BY <1>12, Zenon DEF vars
  <2>3. menus' \in Nat /\ menu' \in Menus \cup {NULL} /\ order' \in [1..Cardinality(Items) -> Items]
    BY <2>2 DEF TreeActionsTypeOK
  <2> QED
    BY <1>0, <2>1, <2>2, <2>3, EditorType
<1> QED
  BY <1>1, <1>2, <1>3, <1>4, <1>5, <1>6, <1>7, <1>8, <1>9, <1>10, <1>11, <1>12
  DEF Next, Adapter, Editor

-----------------------------------------------------------------------------
(* The resolved item. *)

LEMMA SwapShows ==
  ASSUME Reorder, TreeActionsTypeOK
  PROVE  \A i \in Items : Shows(i) => \E row \in DOMAIN order' : order'[row] = i
<1> SUFFICES ASSUME NEW i \in Items, Shows(i)
             PROVE  \E row \in DOMAIN order' : order'[row] = i
  OBVIOUS
<1>1. PICK a, b \in DOMAIN order : a < b /\ order' = [order EXCEPT ![a] = order[b], ![b] = order[a]]
  BY DEF Reorder
<1>2. PICK row \in DOMAIN order : order[row] = i
  BY DEF Shows
<1>3. order \in [1..Cardinality(Items) -> Items]
  BY DEF TreeActionsTypeOK
<1>4. DOMAIN order' = DOMAIN order
  BY <1>1
<1>5. a \in Int /\ b \in Int
  BY <1>3
<1>6. CASE row = a
  <2>1. order'[b] = order[a]
    BY <1>1, <1>5
  <2> QED
    BY <1>2, <1>4, <1>6, <2>1
<1>7. CASE row = b
  <2>1. order'[a] = order[b]
    BY <1>1, <1>5
  <2> QED
    BY <1>2, <1>4, <1>7, <2>1
<1>8. CASE row # a /\ row # b
  <2>1. order'[row] = order[row]
    BY <1>1, <1>8
  <2> QED
    BY <1>2, <1>4, <2>1
<1> QED
  BY <1>6, <1>7, <1>8

LEMMA NextItem == TreeActionsTypeOK /\ ItemInv /\ [Next]_vars => ItemInv'
<1> SUFFICES ASSUME TreeActionsTypeOK, ItemInv, [Next]_vars PROVE ItemInv'
  OBVIOUS
<1> USE DEF Goto, Fail, editor, locals, request
<1>0. ASSUME item' = item, source' = source, order' = order,
             pc' \in {"baseline", "press"} => pc \in {"baseline", "press"}
      PROVE  ItemInv'
  BY <1>0 DEF ItemInv, Shows
<1>1. CASE Requests
  <2>1. item' = NULL /\ pc' = "resolve"
    BY <1>1, Zenon DEF Requests, Request
  <2> QED
    BY <2>1 DEF ItemInv
<1>2. CASE Resolve
  <2>1. source' = source /\ order' = order
    BY <1>2, Zenon DEF Resolve
  <2>2. CASE Found /\ item' = order[index]
    <3>1. order[index] # NULL /\ Label[order[index]] = source /\ Shows(order[index])
      BY <2>2, ItemAssumption DEF Found, Shows, TreeActionsTypeOK
    <3>2. Label[item'] = source' /\ Shows(item)' /\ item' # NULL
      BY <2>1, <2>2, <3>1 DEF Shows
    <3> QED
      BY <3>2 DEF ItemInv
  <2>3. CASE Fail /\ UNCHANGED item
    <3>1. pc' \notin {"baseline", "press"}
      BY <2>3 
    <3> QED
      BY <1>0, <2>1, <2>3, <3>1
  <2> QED
    BY <1>2, <2>2, <2>3, Zenon DEF Resolve
<1>3. CASE KnownMenus
  <2>1. item' = item /\ source' = source /\ order' = order /\ pc = "baseline"
    BY <1>3, Zenon DEF KnownMenus
  <2> QED
    BY <1>0, <2>1
<1>4. CASE Reorder
  <2>1. item' = item /\ source' = source /\ pc' = pc
    BY <1>4, Zenon DEF Reorder
  <2>2. item # NULL => \E row \in DOMAIN order' : order'[row] = item
    BY <1>4, SwapShows DEF ItemInv, TreeActionsTypeOK
  <2>3. item' # NULL => Label[item'] = source' /\ Shows(item)'
    BY <2>1, <2>2 DEF ItemInv, Shows
  <2> QED
    BY <2>1, <2>3 DEF ItemInv
<1>5. CASE Expand \/ SeenExpanded \/ NotSeenExpanded \/ Lost
  <2>1. /\ item' = item /\ source' = source /\ order' = order
        /\ pc' \in {"expand", "expand again", "resolve", "again", "idle", "clean up"}
    BY <1>5 DEF Expand, SeenExpanded, NotSeenExpanded, Lost
  <2> QED
    BY <1>0, <2>1
<1>9. CASE DoubleClickFails \/ RightClickFails \/ SeeMenuFails
  <2>1. item' = item /\ source' = source /\ order' = order /\ pc' \in {"idle", "clean up"}
    BY <1>9 DEF DoubleClickFails, RightClickFails, SeeMenuFails
  <2> QED
    BY <1>0, <2>1
<1>6. CASE DoubleClick \/ RightClick \/ SeeMenu \/ NoMenu \/ SeeEnd \/ StaysOpen \/ VerifySource \/ CleanUp
  <2>1. /\ item' = item /\ source' = source /\ order' = order
        /\ pc' \in {"await menu", "await end", "verify", "idle", "clean up"}
    BY <1>6 DEF DoubleClick, RightClick, SeeMenu, NoMenu, SeeEnd, StaysOpen, VerifySource, CleanUp
  <2> QED
    BY <1>0, <2>1
<1>7. CASE Process \/ ObeyExpand
  <2>1. item' = item /\ source' = source /\ pc' = pc
    BY <1>7, Zenon DEF Process, ObeyExpand
  <2>2. order' = order
    BY <1>7, TakeType DEF ObeyExpand
  <2> QED
    BY <1>0, <2>1, <2>2
<1>8. CASE UNCHANGED vars
  <2>1. item' = item /\ source' = source /\ order' = order /\ pc' = pc
    BY <1>8, Zenon DEF vars
  <2> QED
    BY <1>0, <2>1
<1> QED
  BY <1>1, <1>2, <1>3, <1>4, <1>5, <1>6, <1>7, <1>8, <1>9 DEF Next, Adapter, Editor

\* Every variable keeps its type, whatever the editor and its operator do (the locals of the
\* request, the input queue and the history of the editor).
THEOREM TypeCorrect == Spec => []TreeActionsTypeOK
<1>1. Init => TreeActionsTypeOK /\ ItemInv
  BY InitType, InitItem
<1>2. (TreeActionsTypeOK /\ ItemInv) /\ [Next]_vars => (TreeActionsTypeOK /\ ItemInv)'
  BY NextType, NextItem
<1> QED
  BY <1>1, <1>2, PTL DEF Spec

-----------------------------------------------------------------------------
(* Clicks reach an item with the text the request named. *)

\* An input whose rows have not moved is for the text of that row: the text its
\* request named, the one being served if it is a right click, unless it was left
\* by an earlier request.
Aims(input) ==
  /\ input.what = "double" /\ ~input.moved => Label[order[input.row]] = input.source
  /\ input.what = "right" /\ ~input.moved => Label[order[input.row]] = source \/ "right" \in leftover

QueueInv == \A n \in DOMAIN inputs : Aims(inputs[n])

\* A menu of the inspection being served is of an item it named.
Ours(m) == m.moved \/ Label[m.of] = source \/ "right" \in leftover

Inspecting == pc \in {"baseline", "await menu", "await end", "verify", "clean up"}

MenuInv ==
  /\ Inspecting => kind = "inspect"
  /\ kind = "inspect" /\ pc \in {"press", "await menu"} /\ menu # NULL /\ menu.id \notin baseline => Ours(menu)
  /\ found # NULL => Ours(found)
  /\ pc \in {"await end", "verify"} \/ closed = TRUE => found # NULL /\ shown = found.of
  /\ result = "complete" => pc = "idle" /\ found # NULL /\ shown = found.of
  /\ pc \in {"verify", "clean up", "idle"} \/ closed = FALSE

OpenedInv == \A a \in activated : a.moved \/ Label[a.item] = a.source

PinnedInv == QueueInv /\ MenuInv /\ OpenedInv

LEMMA InitPinned == Init => PinnedInv
  BY DEF Init, PinnedInv, QueueInv, MenuInv, OpenedInv, Inspecting

LEMMA SameQueue ==
  ASSUME QueueInv, inputs' = inputs, order' = order, source' = source, leftover' = leftover
  PROVE  QueueInv'
  BY DEF QueueInv, Aims

LEMMA SendQueue ==
  ASSUME TreeActionsTypeOK, QueueInv, order' = order, source' = source, leftover' = leftover,
         NEW what \in {"double", "right", "escape"}, NEW row \in Nat,
         what # "escape" => Label[order[row]] = source,
         inputs' = Append(inputs, Input(what, row))
  PROVE  QueueInv'
<1> DEFINE e == Input(what, row)
<1>1. e \in Inputs /\ e.what = what /\ e.row = row /\ e.source = source
  BY DEF Input, Inputs, TreeActionsTypeOK
<1>2. inputs \in Seq(Inputs) /\ inputs' = Append(inputs, e)
  BY DEF TreeActionsTypeOK, InputsTyped
<1> HIDE DEF e
<1> SUFFICES ASSUME NEW n \in DOMAIN inputs' PROVE Aims(inputs[n])'
  BY DEF QueueInv
<1>3. CASE n \in DOMAIN inputs /\ inputs'[n] = inputs[n]
  BY <1>3 DEF QueueInv, Aims
<1>4. CASE inputs'[n] = e
  BY <1>1, <1>4 DEF Aims
<1> QED
  BY <1>1, <1>2, <1>3, <1>4, AppendInputs

LEMMA NextQueue == TreeActionsTypeOK /\ ItemInv /\ QueueInv /\ [Next]_vars => QueueInv'
<1> SUFFICES ASSUME TreeActionsTypeOK, ItemInv, QueueInv, [Next]_vars PROVE QueueInv'
  OBVIOUS
<1> USE DEF Goto, Fail, editor, locals, request, history
<1>1. CASE Requests
  <2>1. /\ inputs' = inputs /\ order' = order
        /\ \A m \in DOMAIN inputs : inputs[m].what \in leftover'
    BY <1>1 DEF Requests, Request
  <2> QED
    BY <2>1 DEF QueueInv, Aims
<1>2. CASE DoubleClick \/ DoubleClickFails \/ RightClick \/ RightClickFails
  <2>1. order' = order /\ source' = source /\ leftover' = leftover /\ pc = "press"
    BY <1>2 DEF DoubleClick, DoubleClickFails, RightClick, RightClickFails
  <2>2. CASE inputs' = inputs
    BY <2>1, <2>2, SameQueue
  <2> SUFFICES ASSUME inputs' # inputs PROVE QueueInv'
    BY <2>2
  <2>5. PICK what \in {"double", "right"} : inputs' = Append(inputs, Input(what, RowOf(item)))
    BY <1>2 DEF DoubleClick, DoubleClickFails, RightClick, RightClickFails
  <2>3. RowOf(item) \in DOMAIN order /\ order[RowOf(item)] = item /\ Label[item] = source
    BY <2>1, RowFound DEF ItemInv
  <2>4. RowOf(item) \in Nat
    BY <2>3, RowIsNat
  <2> QED
    BY <2>1, <2>3, <2>4, <2>5, SendQueue
<1>3. CASE SeeMenu \/ SeeMenuFails \/ CleanUp
  <2>1. /\ order' = order /\ source' = source /\ leftover' = leftover
        /\ inputs' = inputs \/ inputs' = Append(inputs, Input("escape", 1))
    BY <1>3 DEF SeeMenu, SeeMenuFails, CleanUp, SendEscape
  <2> QED
    BY <2>1, SameQueue, SendQueue
<1>4. CASE Process
  <2>1. inputs \in Seq(Inputs) /\ inputs # << >> /\ inputs' = Tail(inputs) /\ order' = order
    BY <1>4, TakeType DEF Process, TreeActionsTypeOK, InputsTyped
  <2>2. source' = source /\ leftover' = leftover
    BY <1>4, Zenon DEF Process
  <2>3. ASSUME NEW n \in DOMAIN inputs' PROVE Aims(inputs[n])'
    <3>1. n + 1 \in DOMAIN inputs /\ inputs'[n] = inputs[n + 1]
      BY <2>1, <2>3, TailInputs
    <3>2. Aims(inputs[n + 1])
      BY <3>1 DEF QueueInv
    <3> QED
      BY <2>1, <2>2, <3>1, <3>2 DEF Aims
  <2> QED
    BY <2>3 DEF QueueInv
<1>5. CASE Reorder
  <2>1. ASSUME NEW n \in DOMAIN inputs PROVE inputs'[n].moved = TRUE
    <3>1. inputs \in Seq(Inputs)
      BY DEF TreeActionsTypeOK, InputsTyped
    <3>2. inputs[n] \in Inputs
      BY <2>1, <3>1
    <3> QED
      BY <1>5, <2>1, <3>2, ReorderType DEF Inputs
  <2>2. DOMAIN inputs' = DOMAIN inputs
    BY <1>5, ReorderType
  <2> QED
    BY <2>1, <2>2 DEF QueueInv, Aims
<1>6. CASE Expand \/ SeenExpanded \/ NotSeenExpanded \/ Resolve \/ Lost \/ KnownMenus
  BY <1>6, SameQueue DEF Expand, SeenExpanded, NotSeenExpanded, Resolve, Lost, KnownMenus
<1>7. CASE NoMenu \/ SeeEnd \/ StaysOpen \/ VerifySource \/ ObeyExpand
  BY <1>7, SameQueue DEF NoMenu, SeeEnd, StaysOpen, VerifySource, ObeyExpand
<1>8. CASE UNCHANGED vars
  BY <1>8, SameQueue DEF vars
<1> QED
  BY <1>1, <1>2, <1>3, <1>4, <1>5, <1>6, <1>7, <1>8 DEF Next, Adapter, Editor

\* A menu the editor opens is of the item the right click was for.
LEMMA OpensOurs ==
  ASSUME TreeActionsTypeOK, QueueInv, Process, Head(inputs).what = "right"
  PROVE  Ours(menu)'
<1>1. Head(inputs) \in Inputs /\ Head(inputs) = inputs[1] /\ 1 \in DOMAIN inputs
  BY TakeType
<1>2. Aims(Head(inputs))
  BY <1>1 DEF QueueInv
<1>3. menu'.of = order[Head(inputs).row] /\ menu'.moved = Head(inputs).moved
  <2>1. menu' = [id |-> menus + 1, of |-> order[Head(inputs).row], moved |-> Head(inputs).moved]
    BY DEF Process
  <2> QED
    BY <2>1
<1>4. source' = source /\ leftover' = leftover
  BY Zenon DEF Process, request, history
<1> QED
  BY <1>1, <1>2, <1>3, <1>4 DEF Aims, Ours, Inputs

\* ... and the item a double click opens has the text it was for.
LEMMA OpensText ==
  ASSUME TreeActionsTypeOK, QueueInv, OpenedInv, Process
  PROVE  OpenedInv'
<1>1. Head(inputs) \in Inputs /\ Head(inputs) = inputs[1] /\ 1 \in DOMAIN inputs
  BY TakeType
<1>2. Aims(Head(inputs))
  BY <1>1 DEF QueueInv
<1>3. CASE Head(inputs).what = "double"
  <2> DEFINE a == [item |-> order[Head(inputs).row], source |-> Head(inputs).source, moved |-> Head(inputs).moved]
  <2>1. activated' = activated \cup {a}
    BY <1>3 DEF Process
  <2>2. a.moved \/ Label[a.item] = a.source
    BY <1>1, <1>2, <1>3 DEF Aims, Inputs
  <2> QED
    BY <2>1, <2>2 DEF OpenedInv
<1>4. CASE Head(inputs).what \in {"right", "escape"}
  BY <1>4 DEF Process, OpenedInv
<1> QED
  BY <1>1, <1>3, <1>4 DEF Inputs

\* Steps that leave what MenuInv says alone.
LEMMA SameMenu ==
  ASSUME MenuInv, kind' = kind, source' = source, leftover' = leftover,
         menu' = menu, baseline' = baseline, found' = found, shown' = shown, closed' = closed,
         result' = result \/ result' # "complete",
         pc' = pc \/ (pc # "idle" /\ pc' \in {"idle", "clean up"}) \/ pc \notin {"verify", "clean up", "idle"},
         pc' = pc \/ pc' \in {"idle", "resolve", "again", "expand", "expand again"}
                  \/ (kind = "inspect" /\ pc' \in {"baseline", "clean up"})
                  \/ (kind = "activate" /\ pc' = "press")
  PROVE  MenuInv'
  BY DEF MenuInv, Inspecting, Ours

LEMMA NextMenu == TreeActionsTypeOK /\ QueueInv /\ MenuInv /\ [Next]_vars => MenuInv'
<1> SUFFICES ASSUME TreeActionsTypeOK, QueueInv, MenuInv, [Next]_vars PROVE MenuInv'
  OBVIOUS
<1> USE DEF Goto, Fail, editor, locals, request, history
<1>0. kind \in {"activate", "inspect"}
  BY DEF TreeActionsTypeOK
<1>1. CASE Requests
  <2>1. found' = NULL /\ closed' = FALSE /\ result' = "none" /\ pc' = "resolve"
    BY <1>1, Zenon DEF Requests, Request
  <2> QED
    BY <2>1 DEF MenuInv, Inspecting
<1>2. CASE Expand \/ SeenExpanded \/ NotSeenExpanded \/ Lost
  BY <1>0, <1>2, SameMenu DEF Expand, Resolving, SeenExpanded, NotSeenExpanded, Lost
<1>3. CASE Resolve
  BY <1>0, <1>3, SameMenu DEF Resolve, Resolving, Found
<1>4. CASE KnownMenus
  <2>1. menu' = menu /\ (menu # NULL => menu.id \in baseline')
    BY <1>4 DEF KnownMenus, OpenMenus
  <2>2. /\ found' = found /\ shown' = shown /\ closed' = closed /\ result' = result
        /\ source' = source /\ leftover' = leftover /\ pc = "baseline" /\ pc' = "press"
    BY <1>4, Zenon DEF KnownMenus
  <2> QED
    BY <2>1, <2>2 DEF MenuInv, Inspecting, Ours
<1>5. CASE DoubleClick \/ DoubleClickFails \/ RightClickFails
  BY <1>0, <1>5, SameMenu DEF DoubleClick, DoubleClickFails, RightClickFails
<1>6. CASE RightClick
  <2>1. /\ menu' = menu /\ baseline' = baseline /\ kind' = kind /\ kind = "inspect" /\ pc = "press"
        /\ found' = found /\ shown' = shown /\ closed' = closed /\ result' = result
        /\ source' = source /\ leftover' = leftover /\ pc' = "await menu"
    BY <1>6, Zenon DEF RightClick
  <2> QED
    BY <2>1 DEF MenuInv, Inspecting, Ours
<1>7. CASE SeeMenu
  <2>1. /\ closed' = closed /\ found' = menu /\ shown' = menu.of /\ menu # NULL /\ menu.id \notin baseline
        /\ pc = "await menu" /\ pc' = "await end" /\ kind' = kind /\ result' = result
        /\ source' = source /\ leftover' = leftover
    BY <1>7 DEF SeeMenu, NewMenus, OpenMenus
  <2> QED
    BY <2>1 DEF MenuInv, Inspecting, Ours
<1>14. CASE SeeMenuFails
  <2>1. PICK m \in NewMenus : found' = m
    BY <1>14 DEF SeeMenuFails
  <2>2. m = menu /\ m # NULL /\ m.id \notin baseline
    BY <2>1 DEF NewMenus, OpenMenus
  <2>3. /\ pc = "await menu" /\ kind' = kind /\ closed' = closed /\ source' = source /\ leftover' = leftover
        /\ (result' = result \/ result' = "failed") /\ pc' \in {"idle", "clean up"}
    BY <1>14 DEF SeeMenuFails
  <2>4. kind = "inspect" /\ closed # TRUE /\ result # "complete"
    BY <2>3 DEF MenuInv, Inspecting
  <2> QED
    BY <2>1, <2>2, <2>3, <2>4 DEF MenuInv, Inspecting, Ours
<1>8. CASE NoMenu \/ StaysOpen \/ VerifySource
  BY <1>0, <1>8, SameMenu DEF NoMenu, StaysOpen, VerifySource, MenuInv, Inspecting
<1>9. CASE SeeEnd
  <2>1. /\ pc = "await end" /\ pc' = "verify" /\ kind' = kind /\ result' = result
        /\ found' = found /\ shown' = shown /\ source' = source /\ leftover' = leftover
    BY <1>9, Zenon DEF SeeEnd
  <2> QED
    BY <2>1 DEF MenuInv, Inspecting, Ours
<1>10. CASE CleanUp
  <2>1. /\ pc' = "idle" /\ found' = found /\ shown' = shown /\ closed' = closed /\ source' = source
        /\ leftover' = leftover /\ (result' = "complete" => closed = TRUE)
    BY <1>10, Zenon DEF CleanUp
  <2> QED
    BY <2>1 DEF MenuInv, Inspecting, Ours
<1>11. CASE Process
  <2>1. /\ kind' = kind /\ source' = source /\ leftover' = leftover /\ baseline' = baseline
        /\ found' = found /\ shown' = shown /\ closed' = closed /\ result' = result /\ pc' = pc
    BY <1>11, Zenon DEF Process
  <2>2. Head(inputs) \in Inputs
    BY <1>11, TakeType
  <2>3. CASE Head(inputs).what = "right"
    <3>1. Ours(menu)'
      BY <1>11, <2>3, OpensOurs
    <3> QED
      BY <2>1, <3>1 DEF MenuInv, Inspecting, Ours
  <2>4. CASE Head(inputs).what \in {"double", "escape"}
    <3>1. menu' \in {menu, NULL}
      BY <1>11, <2>4 DEF Process
    <3> QED
      BY <2>1, <3>1 DEF MenuInv, Inspecting, Ours
  <2> QED
    BY <2>2, <2>3, <2>4 DEF Inputs
<1>12. CASE ObeyExpand \/ Reorder
  BY <1>12, SameMenu DEF ObeyExpand, Reorder
<1>13. CASE UNCHANGED vars
  BY <1>13, SameMenu DEF vars
<1> QED
  BY <1>1, <1>2, <1>3, <1>4, <1>5, <1>6, <1>7, <1>8, <1>9, <1>10, <1>11, <1>12, <1>13, <1>14
  DEF Next, Adapter, Editor

LEMMA NextOpened == TreeActionsTypeOK /\ QueueInv /\ OpenedInv /\ [Next]_vars => OpenedInv'
<1> SUFFICES ASSUME TreeActionsTypeOK, QueueInv, OpenedInv, [Next]_vars PROVE OpenedInv'
  OBVIOUS
<1>1. CASE Process
  BY <1>1, OpensText
<1>2. CASE ~Process
  <2>1. activated' = activated
    BY <1>2, Zenon DEF Next, Adapter, Editor, Requests, Request, Expand, SeenExpanded, NotSeenExpanded, Resolve,
       Lost, DoubleClick, DoubleClickFails, KnownMenus, RightClick, RightClickFails, SeeMenu, SeeMenuFails, NoMenu, SeeEnd, StaysOpen, VerifySource, CleanUp,
       ObeyExpand, Reorder, vars
  <2> QED
    BY <2>1 DEF OpenedInv
<1> QED
  BY <1>1, <1>2

\* A double click opens an item with the text its request named, and a complete
\* inspection shows the menu of such an item, with the exceptions ActionIsPinned
\* names (activate_tree_item, inspect_tree_context_menu).
THEOREM ActionsPinned == Spec => []ActionIsPinned
<1> DEFINE IInv == TreeActionsTypeOK /\ ItemInv /\ PinnedInv
<1>1. Init => IInv
  BY InitType, InitItem, InitPinned
<1>2. IInv /\ [Next]_vars => IInv'
  BY NextType, NextItem, NextQueue, NextMenu, NextOpened DEF PinnedInv
<1>3. IInv => ActionIsPinned
  BY DEF PinnedInv, MenuInv, OpenedInv, Ours, ActionIsPinned
<1> QED
  BY <1>1, <1>2, <1>3, PTL DEF Spec

-----------------------------------------------------------------------------
(* A complete inspection restores the folder. *)

\* An expand() of an earlier request may still be obeyed.
Late == "expand" \in leftover

\* Until it is told to expand the folder, a request leaves it as it was; it clicks
\* on and cleans up only once it expanded it, unless it was expanded all along.
RestoreInv ==
  /\ opening = TRUE => folder = "collapsed"
  /\ pc # "idle" /\ own = TRUE => folder = "expanded"
  /\ pc # "idle" /\ ~Late /\ first = "expanded" =>
       folder = "expanded" /\ own = FALSE /\ pc \notin {"expand", "expand again"}
  /\ pc # "idle" /\ ~Late /\ first = "collapsed" /\ own = FALSE /\ warned = FALSE =>
       pc \in {"resolve", "expand"} /\ (pc = "resolve" => folder = "collapsed" /\ opening = FALSE)
  /\ result = "complete" => pc = "idle" /\ (Late \/ (folder = first /\ opening = FALSE))
  /\ first \in {"collapsed", "expanded"} /\ FlagsTyped

LEMMA InitRestore == Init => RestoreInv
  BY Zenon DEF Init, RestoreInv, FlagsTyped

\* Steps that touch none of it.
LEMMA SameRestore ==
  ASSUME RestoreInv, FlagsTyped', pc # "idle",
         pc' = "idle" \/ (pc \notin {"resolve", "expand"} /\ pc' \notin {"expand", "expand again"}),
         result' = result \/ result' # "complete",
         opening' = opening, folder' = folder, own' = own, first' = first, leftover' = leftover,
         warned' = warned \/ warned' = TRUE
  PROVE  RestoreInv'
<1>1. warned' = FALSE => warned = FALSE
  OBVIOUS
<1>2. pc' \in {"resolve", "expand"} \/ pc' # "resolve"
  OBVIOUS
<1> QED
  BY <1>1, Zenon DEF RestoreInv, Late

\* What fails ends an activation and adds a warning to an inspection.
LEMMA FailRestore ==
  ASSUME RestoreInv, FlagsTyped', pc # "idle", pc' = "idle" \/ (pc' = "clean up" /\ warned' = TRUE),
         result' = result \/ result' = "failed",
         opening' = opening, folder' = folder, own' = own, first' = first, leftover' = leftover
  PROVE  RestoreInv'
<1>1. result' # "complete"
  BY DEF RestoreInv
<1>2. CASE pc' = "idle"
  BY <1>1, <1>2, Zenon DEF RestoreInv
<1>3. CASE pc' = "clean up" /\ warned' = TRUE
  <2>1. warned' # FALSE /\ pc' \notin {"expand", "expand again"}
    BY <1>3
  <2> QED
    BY <1>1, <2>1, Zenon DEF RestoreInv, Late
<1> QED
  BY <1>2, <1>3

LEMMA NextRestore == TreeActionsTypeOK /\ RestoreInv /\ [Next]_vars => RestoreInv'
<1> SUFFICES ASSUME TreeActionsTypeOK, RestoreInv, [Next]_vars PROVE RestoreInv'
  OBVIOUS
<1> USE DEF Goto, Fail, editor, locals, request, history, Late
<1>0. FlagsTyped'
  BY NextFlags
<1>1. CASE Requests
  <2>1. /\ own' = FALSE /\ warned' = FALSE /\ result' = "none" /\ pc' = "resolve"
        /\ opening' = opening /\ folder' = folder /\ first' = folder
        /\ (opening = TRUE => "expand" \in leftover')
    BY <1>1, Zenon DEF Requests, Request
  <2>2. folder \in {"collapsed", "expanded"} /\ opening \in BOOLEAN
    BY DEF TreeActionsTypeOK, FlagsTyped
  <2> QED
    BY <1>0, <2>1, <2>2, Zenon DEF RestoreInv
<1>2. CASE Expand
  <2>1. /\ opening' = TRUE /\ folder' = folder /\ folder = "collapsed" /\ pc \in {"resolve", "again"}
        /\ pc' \in {"expand", "expand again"} /\ (pc = "resolve" => pc' = "expand")
        /\ own' = own /\ warned' = warned /\ first' = first /\ leftover' = leftover /\ result' = result
    BY <1>2, Zenon DEF Expand, Resolving
  <2>2. pc # "idle" /\ pc' # "idle" /\ pc' # "resolve" /\ folder # "expanded"
    BY <2>1
  <2>3. CASE pc = "resolve"
    BY <1>0, <2>1, <2>2, <2>3, Zenon DEF RestoreInv
  <2>4. CASE pc = "again"
    <3>1. pc \notin {"resolve", "expand"}
      BY <2>4
    <3> QED
      BY <1>0, <2>1, <2>2, <3>1, Zenon DEF RestoreInv
  <2> QED
    BY <2>1, <2>3, <2>4
<1>3. CASE SeenExpanded
  <2>1. /\ opening' = opening /\ folder' = folder /\ folder = "expanded" /\ pc \in {"expand", "expand again"}
        /\ own' = TRUE /\ pc' # "idle" /\ warned' = warned /\ first' = first /\ leftover' = leftover /\ result' = result
    BY <1>3, Zenon DEF SeenExpanded
  <2>2. pc # "idle" /\ folder # "collapsed" /\ own' # FALSE
    BY <2>1
  <2> QED
    BY <1>0, <2>1, <2>2, Zenon DEF RestoreInv
<1>11. CASE DoubleClickFails \/ RightClickFails \/ SeeMenuFails
  <2>1. pc # "idle" /\ Fail
    BY <1>11 DEF DoubleClickFails, RightClickFails, SeeMenuFails
  <2>2. opening' = opening /\ folder' = folder /\ own' = own /\ first' = first /\ leftover' = leftover
    BY <1>11, Zenon DEF DoubleClickFails, RightClickFails, SeeMenuFails
  <2> QED
    BY <1>0, <2>1, <2>2, FailRestore
<1>4. CASE NotSeenExpanded \/ Lost \/ NoMenu \/ StaysOpen
  <2>1. pc # "idle" /\ Fail
    BY <1>4 DEF NotSeenExpanded, Lost, NoMenu, StaysOpen
  <2>2. opening' = opening /\ folder' = folder /\ own' = own /\ first' = first /\ leftover' = leftover
    BY <1>4, Zenon DEF NotSeenExpanded, Lost, NoMenu, StaysOpen
  <2> QED
    BY <1>0, <2>1, <2>2, FailRestore
<1>5. CASE Resolve
  <2>1. /\ opening' = opening /\ folder' = folder /\ folder = "expanded" /\ pc \in {"resolve", "again"}
        /\ own' = own /\ first' = first /\ leftover' = leftover
        /\ ((warned' = warned /\ result' = result /\ pc' \in {"baseline", "again", "press"}) \/ Fail)
    BY <1>5, Zenon DEF Resolve, Resolving
  <2>2. pc # "idle" /\ folder # "collapsed"
    BY <2>1
  <2>3. CASE Fail
    BY <1>0, <2>1, <2>2, <2>3, FailRestore
  <2>4. CASE warned' = warned /\ result' = result /\ pc' \in {"baseline", "again", "press"}
    <3>1. pc' # "idle" /\ pc' \notin {"expand", "expand again"} /\ pc \in {"resolve", "expand"} => pc = "resolve"
      BY <2>1, <2>4
    <3> QED
      BY <1>0, <2>1, <2>2, <2>4, <3>1, Zenon DEF RestoreInv
  <2> QED
    BY <2>1, <2>3, <2>4
<1>6. CASE DoubleClick \/ KnownMenus \/ RightClick \/ SeeMenu \/ SeeEnd
  <2>1. /\ pc \in {"press", "baseline", "await menu", "await end"}
        /\ pc' \in {"idle", "press", "await menu", "await end", "verify"}
    BY <1>6 DEF DoubleClick, KnownMenus, RightClick, SeeMenu, SeeEnd
  <2>2. /\ opening' = opening /\ folder' = folder /\ own' = own /\ first' = first /\ leftover' = leftover
        /\ warned' = warned /\ (result' = result \/ result' = "performed")
    BY <1>6, Zenon DEF DoubleClick, KnownMenus, RightClick, SeeMenu, SeeEnd
  <2> QED
    BY <1>0, <2>1, <2>2, SameRestore
<1>7. CASE VerifySource
  <2>1. /\ pc = "verify" /\ opening' = opening /\ folder' = folder /\ own' = own /\ first' = first
        /\ leftover' = leftover /\ ((warned' = warned /\ pc' = "clean up" /\ result' = result) \/ Fail)
    BY <1>7, Zenon DEF VerifySource
  <2> QED
    BY <1>0, <2>1, SameRestore, FailRestore
<1>8. CASE CleanUp
  <2>1. /\ pc = "clean up" /\ pc' = "idle" /\ opening' = opening /\ own' = own /\ first' = first /\ leftover' = leftover
        /\ folder' \in (IF own THEN {folder, "collapsed"} ELSE {folder})
        /\ (warned' = TRUE \/ warned' = (warned \/ (own /\ folder' # "collapsed")))
        /\ result' = (IF closed /\ ~warned' THEN "complete" ELSE "incomplete")
    BY <1>8, Zenon DEF CleanUp
  <2>2. pc \notin {"idle", "resolve", "expand"} /\ own \in BOOLEAN /\ warned \in BOOLEAN /\ opening \in BOOLEAN
    BY <2>1 DEF RestoreInv, FlagsTyped
  <2>3. ASSUME own = TRUE, ~Late, result' = "complete"
        PROVE  folder' = first /\ opening = FALSE /\ folder' = "collapsed"
    <3>1. folder = "expanded" /\ "expanded" # "collapsed"
      BY <2>2, <2>3, Zenon DEF RestoreInv
    <3>2. folder' = "collapsed" 
      BY <2>1, <2>3, Zenon
    <3>3. opening = FALSE
      BY <2>2, <3>1, Zenon DEF RestoreInv
    <3>4. first = "collapsed"
      BY <2>2, <2>3, Zenon DEF RestoreInv
    <3> QED
      BY <3>2, <3>3, <3>4
  <2>4. ASSUME own = FALSE PROVE folder' = folder
    BY <2>1, <2>4, Zenon
  <2>5. ASSUME own = FALSE, ~Late, result' = "complete"
        PROVE  folder = first /\ opening = FALSE
    <3>1. warned = FALSE
      BY <2>1, <2>2, <2>5, Zenon
    <3>2. first = "expanded"
      BY <2>2, <2>5, <3>1, Zenon DEF RestoreInv
    <3>3. folder = "expanded" /\ "expanded" # "collapsed"
      BY <2>2, <2>5, <3>2, Zenon DEF RestoreInv
    <3> QED
      BY <2>2, <3>2, <3>3, Zenon DEF RestoreInv
  <2>6. opening = TRUE => folder' = "collapsed"
    <3>1. own = FALSE \/ folder' \in {folder, "collapsed"}
      BY <2>1, <2>2, Zenon
    <3> QED
      BY <2>2, <2>4, <3>1, Zenon DEF RestoreInv
  <2> QED
    BY <1>0, <2>1, <2>2, <2>3, <2>4, <2>5, <2>6, Zenon DEF RestoreInv
<1>9. CASE Process \/ Reorder \/ UNCHANGED vars
  <2>1. folder' = folder /\ opening' = opening
    BY <1>9, TakeType DEF Reorder, vars
  <2>2. /\ pc' = pc /\ own' = own /\ first' = first /\ leftover' = leftover /\ warned' = warned /\ result' = result
    BY <1>9, Zenon DEF Process, Reorder, vars
  <2> QED
    BY <1>0, <2>1, <2>2, Zenon DEF RestoreInv
<1>10. CASE ObeyExpand
  <2>1. /\ opening = TRUE /\ opening' = FALSE /\ folder' = "expanded" /\ pc' = pc /\ own' = own /\ first' = first
        /\ leftover' = leftover /\ warned' = warned /\ result' = result
    <3>1. opening = TRUE
      BY <1>10, Zenon DEF ObeyExpand, RestoreInv, FlagsTyped
    <3> QED
      BY <1>10, <3>1, Zenon DEF ObeyExpand
  <2>2. folder' # "collapsed" /\ opening # FALSE /\ folder = "collapsed"
    BY <2>1 DEF RestoreInv
  <2> QED
    BY <1>0, <2>1, <2>2, Zenon DEF RestoreInv
<1> QED
  BY <1>1, <1>2, <1>3, <1>4, <1>5, <1>6, <1>7, <1>8, <1>9, <1>10, <1>11 DEF Next, Adapter, Editor

\* A complete inspection leaves the folder as it found it, an expand() of an earlier
\* request apart (_resolve_tree_item_for_edit, inspect_tree_context_menu).
THEOREM InspectionRestores == Spec => []CompleteRestores
<1> DEFINE IInv == TreeActionsTypeOK /\ ItemInv /\ RestoreInv
<1>1. Init => IInv
  BY InitType, InitItem, InitRestore
<1>2. IInv /\ [Next]_vars => IInv'
  BY NextType, NextItem, NextRestore
<1>3. IInv => CompleteRestores
  BY DEF RestoreInv, Late, CompleteRestores
<1> QED
  BY <1>1, <1>2, <1>3, PTL DEF Spec
-----------------------------------------------------------------------------
(* An ESC follows every right click. *)

\* Until the right click is sent the flags are as the request set them; a menu for
\* which no ESC is queued is one the inspection still waits for or cleans up.
EscapeInv ==
  /\ pc \in {"resolve", "again", "expand", "expand again", "baseline", "press"} => closed = FALSE
  /\ pc = "await menu" => sent = TRUE /\ closed = FALSE /\ kind = "inspect"
  /\ pc = "await end" => Escaped \/ abandoned = TRUE
  /\ pc = "clean up" => Escaped \/ abandoned = TRUE \/ (sent = TRUE /\ closed = FALSE)
  /\ pc \notin {"await menu", "clean up"} => Escaped \/ abandoned = TRUE
  /\ FlagsTyped

LEMMA InitEscape == Init => EscapeInv
<1> SUFFICES ASSUME Init PROVE EscapeInv
  OBVIOUS
<1>1. menu = NULL /\ inputs = << >> /\ pc = "idle"
  BY DEF Init
<1>2. Escaped
  BY <1>1 DEF Escaped
<1>3. FlagsTyped
  BY Zenon DEF Init, FlagsTyped
<1> QED
  BY <1>1, <1>2, <1>3 DEF EscapeInv

\* A right click that is queued, or has opened the menu, keeps the ESC behind it: ...
LEMMA SameEscapes ==
  ASSUME Escaped, UNCHANGED <<menu, inputs>>
  PROVE  Escaped'
  BY DEF Escaped

\* ... when another input is queued, ...
LEMMA DoubleEscapes ==
  ASSUME TreeActionsTypeOK, Escaped, UNCHANGED menu, NEW row \in Nat,
         inputs' = Append(inputs, Input("double", row))
  PROVE  Escaped'
<1> DEFINE e == Input("double", row)
<1>1. e \in Inputs /\ e.what = "double"
  BY DEF Input, Inputs, TreeActionsTypeOK
<1>2. inputs \in Seq(Inputs) /\ inputs' = Append(inputs, e)
  BY DEF TreeActionsTypeOK, InputsTyped
<1> HIDE DEF e
<1>3. \A n \in DOMAIN inputs : n \in DOMAIN inputs' /\ inputs'[n] = inputs[n]
  BY <1>1, <1>2
<1>4. \A n \in DOMAIN inputs' : n \in DOMAIN inputs \/ inputs'[n] = e
  BY <1>1, <1>2
<1> QED
  BY <1>1, <1>3, <1>4 DEF Escaped

\* ... an ESC queued last follows all of them, ...
LEMMA LastEscapes ==
  ASSUME TreeActionsTypeOK, UNCHANGED menu, inputs' = Append(inputs, Input("escape", 1))
  PROVE  Escaped'
<1> DEFINE e == Input("escape", 1)
<1>1. e \in Inputs /\ e.what = "escape"
  BY DEF Input, Inputs, TreeActionsTypeOK
<1>2. inputs \in Seq(Inputs) /\ inputs' = Append(inputs, e)
  BY DEF TreeActionsTypeOK, InputsTyped
<1> HIDE DEF e
<1> DEFINE last == Len(inputs) + 1
<1>3. last \in DOMAIN inputs' /\ inputs'[last] = e
  BY <1>1, <1>2
<1>4. \A n \in DOMAIN inputs' : n = last \/ last > n
  BY <1>1, <1>2
<1> HIDE DEF last
<1> QED
  BY <1>1, <1>3, <1>4 DEF Escaped

\* ... and the editor takes the inputs in their order.
LEMMA TakeEscapes ==
  ASSUME TreeActionsTypeOK, Escaped, Process
  PROVE  Escaped'
<1>1. inputs \in Seq(Inputs) /\ inputs # << >> /\ inputs' = Tail(inputs)
  BY DEF Process, TreeActionsTypeOK, InputsTyped
<1>2. Head(inputs) \in Inputs /\ Head(inputs) = inputs[1] /\ 1 \in DOMAIN inputs
  BY TakeType
<1>3. \A n \in DOMAIN inputs : n > 1 => n - 1 \in DOMAIN inputs' /\ inputs'[n - 1] = inputs[n]
  BY <1>1
<1>4. \A n \in DOMAIN inputs' : n \in Nat /\ n + 1 \in DOMAIN inputs /\ inputs'[n] = inputs[n + 1]
  BY <1>1, TailInputs
<1>5. \A m \in DOMAIN inputs : m \in Nat /\ m >= 1
  BY <1>1
<1>6. ASSUME NEW n \in DOMAIN inputs', inputs'[n].what = "right"
      PROVE  \E m \in DOMAIN inputs' : m > n /\ inputs'[m].what = "escape"
  <2>1. PICK m \in DOMAIN inputs : m > n + 1 /\ inputs[m].what = "escape"
    BY <1>4, <1>6 DEF Escaped
  <2>2. m - 1 \in DOMAIN inputs' /\ inputs'[m - 1] = inputs[m] /\ m - 1 > n
    BY <1>3, <1>4, <1>5, <2>1
  <2> QED
    BY <2>1, <2>2
<1>7. menu' # NULL => \E m \in DOMAIN inputs' : inputs'[m].what = "escape"
  <2>1. CASE Head(inputs).what = "right"
    <3>1. PICK m \in DOMAIN inputs : m > 1 /\ inputs[m].what = "escape"
      BY <1>2, <2>1 DEF Escaped
    <3> QED
      BY <1>3, <3>1
  <2>2. CASE Head(inputs).what = "double"
    <3>1. menu' = menu
      BY <2>2 DEF Process, editor
    <3>2. ASSUME menu # NULL PROVE \E m \in DOMAIN inputs : m > 1 /\ inputs[m].what = "escape"
      BY <1>2, <1>5, <2>2, <3>2 DEF Escaped
    <3> QED
      BY <1>3, <3>1, <3>2
  <2>3. CASE Head(inputs).what = "escape"
    BY <2>3 DEF Process
  <2> QED
    BY <1>2, <2>1, <2>2, <2>3 DEF Inputs
<1> QED
  BY <1>6, <1>7 DEF Escaped

LEMMA MovedEscapes ==
  ASSUME TreeActionsTypeOK, Escaped, Reorder
  PROVE  Escaped'
<1>1. menu' = menu /\ DOMAIN inputs' = DOMAIN inputs
  BY ReorderType, Zenon DEF Reorder
<1>2. ASSUME NEW n \in DOMAIN inputs PROVE inputs'[n].what = inputs[n].what
  <2>0. inputs \in Seq(Inputs)
    BY DEF TreeActionsTypeOK, InputsTyped
  <2>1. inputs[n] \in Inputs
    BY <1>2, <2>0
  <2>2. inputs'[n] = [inputs[n] EXCEPT !.moved = TRUE]
    BY <1>2, ReorderType
  <2> QED
    BY <2>1, <2>2 DEF Inputs
<1> QED
  BY <1>1, <1>2 DEF Escaped

\* Steps that queue nothing and keep what the inspection knows.
LEMMA QuietEscape ==
  ASSUME EscapeInv, FlagsTyped', UNCHANGED <<menu, inputs, kind, sent, closed, abandoned>>,
         pc \notin {"await menu", "clean up"} \/ pc' = "clean up" \/ pc' = pc,
         pc' \notin {"await menu", "await end"} \/ pc' = pc,
         pc' \notin {"resolve", "again", "expand", "expand again", "baseline", "press"}
           \/ pc \in {"resolve", "again", "expand", "expand again", "baseline", "press"}
  PROVE  EscapeInv'
<1>1. Escaped => Escaped'
  BY SameEscapes
<1> QED
  BY <1>1 DEF EscapeInv

LEMMA NextEscape == TreeActionsTypeOK /\ ItemInv /\ EscapeInv /\ [Next]_vars => EscapeInv'
<1> SUFFICES ASSUME TreeActionsTypeOK, ItemInv, EscapeInv, [Next]_vars PROVE EscapeInv'
  OBVIOUS
<1> USE DEF Goto, Fail, editor, locals, request, history
<1>0. FlagsTyped'
  BY NextFlags
<1>14. kind \in {"activate", "inspect"}
  BY DEF TreeActionsTypeOK
<1>1. CASE Requests
  <2>1. /\ pc = "idle" /\ pc' = "resolve" /\ sent' = FALSE /\ closed' = FALSE
        /\ UNCHANGED <<menu, inputs, abandoned>>
    BY <1>1, Zenon DEF Requests, Request
  <2>2. Escaped \/ abandoned = TRUE
    BY <2>1 DEF EscapeInv
  <2>3. Escaped' \/ abandoned' = TRUE
    BY <2>1, <2>2, SameEscapes
  <2> QED
    BY <1>0, <2>1, <2>3 DEF EscapeInv
<1>2. CASE Expand \/ SeenExpanded \/ NotSeenExpanded \/ Lost \/ KnownMenus
  <2>1. /\ UNCHANGED <<menu, inputs, kind, sent, closed, abandoned>>
        /\ pc \in {"resolve", "again", "expand", "expand again", "baseline", "press", "await end", "verify"}
             \/ (pc = "await menu" /\ Fail)
        /\ pc' \in {"idle", "clean up"} \/
             (pc \in {"resolve", "again", "expand", "expand again", "baseline", "press"}
              /\ pc' \in {"resolve", "again", "expand", "expand again", "baseline", "press"})
    BY <1>2, <1>14 DEF Expand, Resolving, SeenExpanded, NotSeenExpanded, Lost, KnownMenus
  <2>2. pc = "await menu" => pc' = "clean up"
    BY <2>1 DEF EscapeInv
  <2> QED
    BY <1>0, <2>1, <2>2, QuietEscape
<1>3. CASE Resolve
  BY <1>0, <1>3, <1>14, QuietEscape DEF Resolve, Resolving, Found
<1>4. CASE NoMenu \/ StaysOpen \/ VerifySource
  <2>1. /\ UNCHANGED <<menu, inputs, kind, sent, closed, abandoned>>
        /\ pc \in {"await end", "verify"} \/ (pc = "await menu" /\ Fail)
        /\ pc' \in {"idle", "clean up"}
    BY <1>4, <1>14 DEF NoMenu, StaysOpen, VerifySource
  <2>2. pc = "await menu" => pc' = "clean up"
    BY <2>1 DEF EscapeInv
  <2> QED
    BY <1>0, <2>1, <2>2, QuietEscape
<1>5. CASE DoubleClick \/ DoubleClickFails
  <2>1. /\ pc = "press" /\ pc' \in {"idle", "clean up"} /\ UNCHANGED <<menu, abandoned>>
        /\ inputs' = inputs \/ inputs' = Append(inputs, Input("double", RowOf(item)))
    BY <1>5 DEF DoubleClick, DoubleClickFails
  <2>2. RowOf(item) \in Nat
    BY <2>1, RowFound, RowIsNat DEF ItemInv
  <2>3. Escaped' \/ abandoned' = TRUE
    BY <2>1, <2>2, SameEscapes, DoubleEscapes DEF EscapeInv
  <2> QED
    BY <1>0, <2>1, <2>3 DEF EscapeInv
<1>6. CASE RightClick
  <2>1. pc = "press" /\ pc' = "await menu" /\ sent' = TRUE /\ closed' = closed
    BY <1>6, Zenon DEF RightClick
  <2>2. kind' = "inspect"
    BY <1>6, Zenon DEF RightClick
  <2> QED
    BY <1>0, <2>1, <2>2 DEF EscapeInv
<1>7. CASE RightClickFails
  <2>1. /\ pc = "press" /\ pc' \in {"idle", "clean up"} /\ UNCHANGED menu
        /\ (UNCHANGED <<inputs, abandoned>> \/ abandoned' = TRUE)
    BY <1>7 DEF RightClickFails
  <2>2. Escaped' \/ abandoned' = TRUE
    BY <2>1, SameEscapes DEF EscapeInv
  <2> QED
    BY <1>0, <2>1, <2>2 DEF EscapeInv
<1>8. CASE SeeMenu
  <2>1. pc' = "await end" /\ UNCHANGED menu /\ inputs' = Append(inputs, Input("escape", 1))
    BY <1>8, Zenon DEF SeeMenu, SendEscape
  <2>2. Escaped'
    BY <2>1, LastEscapes
  <2> QED
    BY <1>0, <2>1, <2>2 DEF EscapeInv
<1>9. CASE SeeMenuFails
  <2>1. /\ pc = "await menu" /\ pc' \in {"idle", "clean up"} /\ UNCHANGED <<menu, sent, closed>>
        /\ (pc' = "idle" => kind = "activate")
        /\ (UNCHANGED <<inputs, abandoned>> \/ inputs' = Append(inputs, Input("escape", 1)))
    BY <1>9 DEF SeeMenuFails, SendEscape
  <2>2. pc' = "clean up" /\ sent' = TRUE /\ closed' = FALSE
    BY <2>1 DEF EscapeInv
  <2> QED
    BY <1>0, <2>2 DEF EscapeInv
<1>10. CASE SeeEnd
  <2>1. pc = "await end" /\ pc' = "verify" /\ UNCHANGED <<menu, inputs, abandoned>>
    BY <1>10, Zenon DEF SeeEnd
  <2>2. Escaped' \/ abandoned' = TRUE
    BY <2>1, SameEscapes DEF EscapeInv
  <2> QED
    BY <1>0, <2>1, <2>2 DEF EscapeInv
<1>11. CASE CleanUp
  <2>1. /\ pc = "clean up" /\ pc' = "idle" /\ UNCHANGED menu
        /\ \/ inputs' = Append(inputs, Input("escape", 1))
           \/ abandoned' = TRUE
           \/ ~NotClosed /\ UNCHANGED <<inputs, abandoned>>
    BY <1>11, Zenon DEF CleanUp, SendEscape
  <2>2. ~NotClosed => Escaped \/ abandoned = TRUE
    BY <2>1 DEF EscapeInv, NotClosed
  <2>3. Escaped' \/ abandoned' = TRUE
    BY <2>1, <2>2, SameEscapes, LastEscapes
  <2> QED
    BY <1>0, <2>1, <2>3 DEF EscapeInv
<1>12. CASE Process \/ Reorder
  <2>1. UNCHANGED <<pc, kind, sent, closed, abandoned>>
    BY <1>12, Zenon DEF Process, Reorder
  <2>2. Escaped => Escaped'
    BY <1>12, TakeEscapes, MovedEscapes
  <2> QED
    BY <1>0, <2>1, <2>2 DEF EscapeInv
<1>13. CASE ObeyExpand \/ UNCHANGED vars
  <2>1. UNCHANGED <<pc, sent, closed, abandoned, menu, inputs>>
    BY <1>13, Zenon DEF ObeyExpand, vars
  <2>2. kind' = kind
    BY <1>13, Zenon DEF ObeyExpand, vars
  <2> QED
    BY <1>0, <2>1, <2>2, QuietEscape
<1> QED
  BY <1>1, <1>2, <1>3, <1>4, <1>5, <1>6, <1>7, <1>8, <1>9, <1>10, <1>11, <1>12, <1>13 DEF Next, Adapter, Editor

\* Between requests an ESC is queued behind every right click, unless the click or the
\* ESC raised (the finally clause of inspect_tree_item_menu).
THEOREM EscapesFollow == Spec => []EscapeOnItsWay
<1> DEFINE IInv == TreeActionsTypeOK /\ ItemInv /\ EscapeInv
<1>1. Init => IInv
  BY InitType, InitItem, InitEscape
<1>2. IInv /\ [Next]_vars => IInv'
  BY NextType, NextItem, NextEscape
<1>3. IInv => EscapeOnItsWay
  BY DEF EscapeInv, EscapeOnItsWay
<1> QED
  BY <1>1, <1>2, <1>3, PTL DEF Spec
=============================================================================
