------------------------------- MODULE KvBatch -------------------------------
(***************************************************************************)
(* The scripts that change a KV STUDIO project through its dialogs, one job *)
(* after another, and remember in a file which jobs are done:               *)
(*   import      batch-kvstudio-english-import.py                           *)
(*   comments    import-kvstudio-local-comments.py                          *)
(*   properties  batch-kvstudio-program-properties.py                       *)
(*   rung        batch-kvstudio-rung-comment-replace.py                     *)
(*   voice       apply-final-voice-replacements.py                          *)
(*   communication  replace-final-communication-comments.py                 *)
(*   hmi         replace-final-hmi-strings.py                               *)
(*   spans       apply-all-reviewed-rung-spans.py                           *)
(*   residuals   replace-final-global-text-residuals.py, finish-final-...   *)
(* A script is a list of steps: it waits for a window, then makes inputs in *)
(* it.  A call may fail with or without an effect (HTTP 503); some steps    *)
(* take a 503 for success, since an input that closes its window is         *)
(* answered so.  Only the topmost window takes inputs.                      *)
(***************************************************************************)
EXTENDS Integers, Sequences

CONSTANTS
  Jobs,       \* the jobs in their order
  Kinds,      \* the scripts to run
  MaxRuns,    \* bound: starts of the script
  MaxFaults   \* bound: failed calls, late inputs, wrong results and kills

ASSUME KindsAssumption == 
  Kinds \subseteq {"import", "comments", "properties", "rung", "voice", "communication", "hmi",
                   "spans", "residuals"}
ASSUME JobsAssumption == Len(Jobs) \in Nat /\ DOMAIN Jobs = 1..Len(Jobs)
ASSUME BoundsAssumption == MaxRuns \in Nat /\ MaxFaults \in Nat

VARIABLES
  kind,      \* the script
  top,       \* the topmost window of the editor
  field,     \* the job whose data the fields of the dialogs hold
  shown,     \* the result dialog names the job's number of rows
  clip,      \* what was copied from a result dialog
  pending,   \* inputs the editor has not processed
  applied,   \* how often the editor changed the project for each job
  file,      \* the jobs in the state file; << >> of it once it is torn
  pc, step, job, done,  \* the script
  runs, faults,
  late,      \* history: jobs touched by a late input
  cut,       \* history: how often a run ended inside each job
  wrongAck   \* history: a result was acknowledged that is not the job's

editor == <<top, field, shown, clip, pending, applied>>
script == <<pc, step, job, done>>
vars == <<kind, editor, file, script, runs, faults, late, cut, wrongAck>>

-----------------------------------------------------------------------------
(* The scripts. *)

In(window, inputs, tolerant, waits) ==
  [window |-> window, inputs |-> inputs, tolerant |-> tolerant, waits |-> waits]
Intolerant(window, inputs) == In(window, inputs, FALSE, TRUE)
Tolerant(window, inputs) == In(window, inputs, TRUE, TRUE)

Import ==
  <<Intolerant("main", <<"activate">>), Intolerant("main", <<"file menu">>), Intolerant("menu", <<"mnemonics">>),
    Tolerant("submenu", <<"read">>), Intolerant("open", <<"fill">>), Tolerant("open", <<"open file">>),
    Tolerant("duplicate", <<"acknowledge duplicate">>), Intolerant("name", <<"fill">>),
    Tolerant("name", <<"confirm name">>), Tolerant("type", <<"import">>)>>

Comments ==
  <<Intolerant("main", <<"file menu">>), Tolerant("menu", <<"read comments">>),
    Intolerant("open", <<"fill">>), Tolerant("open", <<"read file">>),
    Intolerant("result", <<"copy result">>), Tolerant("result", <<"close result">>)>>

ProgramProperties ==
  <<Intolerant("main", <<"activate">>), Intolerant("main", <<"file menu">>), Tolerant("menu", <<"property">>),
    Tolerant("property", <<"fill", "set property">>)>>

\* Search and replace in the whole project.
ReplaceInputs == <<"fill", "replace">>

Rung == <<Intolerant("search", ReplaceInputs), Tolerant("result", <<"close result">>)>>
Voice == <<Intolerant("search", ReplaceInputs), Tolerant("result", <<"close result">>)>>
Communication == <<Intolerant("search", ReplaceInputs), Tolerant("result", <<"close result">>)>>
Hmi == <<Intolerant("search", ReplaceInputs), Tolerant("result", <<"close result">>)>>

\* The Search window is looked for once, before the first job.
Spans == <<In("search", ReplaceInputs, TRUE, FALSE), Tolerant("result", <<"close result">>)>>
Residuals == <<In("search", ReplaceInputs, TRUE, FALSE), Tolerant("result", <<"close result">>)>>

Steps ==
  CASE kind = "import" -> Import
    [] kind = "comments" -> Comments
    [] kind = "properties" -> ProgramProperties
    [] kind = "rung" -> Rung
    [] kind = "voice" -> Voice
    [] kind = "communication" -> Communication
    [] kind = "hmi" -> Hmi
    [] kind = "spans" -> Spans
    [] kind = "residuals" -> Residuals

Base == IF kind \in {"import", "comments", "properties"} THEN "main" ELSE "search"
FirstWindowOnly == kind \in {"spans", "residuals"}
WaitsAtEnd == kind \in {"import", "comments", "properties", "rung"}
HasState == kind \notin {"hmi", "residuals"}
Step == Steps[step]

-----------------------------------------------------------------------------
(* The editor. *)

\* The inputs that change the project.
Changing == {"import", "read file", "set property", "replace"}

Names == Changing \cup
  {"activate", "file menu", "mnemonics", "read", "open file", "acknowledge duplicate", "confirm name",
   "read comments", "property", "copy result", "close result", "fill"}

\* The window each input belongs to and the one it opens.
Inputs ==
  [i \in Names |->
     CASE i = "activate" -> <<"main", "main">>
       [] i = "file menu" -> <<"main", "menu">>
       [] i = "mnemonics" -> <<"menu", "submenu">>
       [] i = "read" -> <<"submenu", "open">>
       [] i = "open file" -> <<"open", "duplicate">>
       [] i = "acknowledge duplicate" -> <<"duplicate", "name">>
       [] i = "confirm name" -> <<"name", "type">>
       [] i = "import" -> <<"type", "main">>
       [] i = "read comments" -> <<"menu", "open">>
       [] i = "read file" -> <<"open", "result">>
       [] i = "property" -> <<"menu", "property">>
       [] i = "set property" -> <<"property", "main">>
       [] i = "replace" -> <<"search", "result">>
       [] i = "copy result" -> <<"result", "result">>
       [] i = "close result" -> <<"result", Base>>
       [] i = "fill" -> <<"any", "any">>]

\* An input of a job; pasted late, a field gets what the clipboard held before.
Effect(e, input) ==
  LET name == input.name
      taken == Inputs[name][1] = e.top
      changes == taken /\ name \in Changing
  IN [top |-> IF taken THEN Inputs[name][2] ELSE e.top,
      field |-> IF name # "fill" THEN e.field ELSE IF input.late THEN 0 ELSE input.job,
      shown |-> IF changes THEN input.result ELSE e.shown,
      clip |-> IF taken /\ name = "copy result" THEN e.shown ELSE e.clip,
      applied |-> [j \in DOMAIN Jobs |-> e.applied[j] + IF changes /\ e.field = j THEN 1 ELSE 0]]

Editor == [top |-> top, field |-> field, shown |-> shown, clip |-> clip, applied |-> applied]

\* The editor after inputs it takes in turn.
After(e, inputs) ==
  LET after[n \in 0..Len(inputs)] == IF n = 0 THEN e ELSE Effect(after[n-1], inputs[n])
  IN after[Len(inputs)]

Process(inputs) ==
  LET e == After(Editor, inputs)
  IN /\ top' = e.top /\ field' = e.field /\ shown' = e.shown /\ clip' = e.clip /\ applied' = e.applied

Spend == faults < MaxFaults /\ faults' = faults + 1
Flag == late' = IF job \in DOMAIN Jobs THEN late \cup {job} ELSE late

\* The inputs of this step; the result dialog may report another number.
Sent(result, isLate) ==
  [i \in DOMAIN Step.inputs |-> [name |-> Step.inputs[i], job |-> job, result |-> result, late |-> isLate]]

Land(inputs) ==
  /\ Process(pending \o inputs) /\ pending' = << >>
  /\ IF pending = << >> THEN UNCHANGED late ELSE Flag

\* The worker reports the inputs performed; the editor may process them late.
Performed ==
  /\ top = Step.window
  /\ \/ Land(Sent(TRUE, FALSE)) /\ UNCHANGED faults
     \/ Spend /\ Land(Sent(FALSE, FALSE))
     \/ Spend /\ Flag /\ pending' = pending \o Sent(TRUE, TRUE)
        /\ UNCHANGED <<top, field, shown, clip, applied>>

\* HTTP 503: after some of the inputs, or since the window is disabled or gone.
Refused ==
  \/ top = Step.window /\ Spend /\ \E n \in 0..Len(Step.inputs) : Land(SubSeq(Sent(TRUE, FALSE), 1, n))
  \/ top # Step.window /\ UNCHANGED <<editor, faults, late>>

CatchUp ==
  /\ pending # << >> /\ Land(<< >>)
  /\ UNCHANGED <<kind, file, script, runs, faults, cut, wrongAck>>

-----------------------------------------------------------------------------
(* The script. *)

Init ==
  /\ kind \in Kinds
  /\ top = Base /\ field = 0 /\ shown = TRUE /\ clip = FALSE /\ pending = << >>
  /\ applied = [j \in DOMAIN Jobs |-> 0] /\ file = <<{}>>
  /\ pc = "idle" /\ step = 1 /\ job = 0 /\ done = {}
  /\ runs = 0 /\ faults = 0 /\ late = {} /\ cut = [j \in DOMAIN Jobs |-> 0] /\ wrongAck = FALSE

\* A torn state file cannot be parsed and the script ends at once.
StartRun ==
  /\ pc = "idle" /\ runs < MaxRuns /\ file # << >>
  /\ FirstWindowOnly => top = "search"
  /\ runs' = runs + 1 /\ done' = file[1] /\ job' = 1 /\ step' = 1 /\ pc' = "next"
  /\ UNCHANGED <<kind, editor, file, faults, late, cut, wrongAck>>

SkipDone ==
  /\ pc = "next" /\ job \in DOMAIN Jobs /\ job \in done /\ job' = job + 1
  /\ UNCHANGED <<kind, editor, file, pc, step, done, runs, faults, late, cut, wrongAck>>

BeginJob ==
  /\ pc = "next" /\ job \in DOMAIN Jobs /\ job \notin done /\ pc' = "input" /\ step' = 1
  /\ UNCHANGED <<kind, editor, file, job, done, runs, faults, late, cut, wrongAck>>

\* The run ends in the middle of the job, by an exception or from outside.
Abandon ==
  /\ cut' = [cut EXCEPT ![job] = @ + 1]
  /\ pc' = "idle" /\ step' = 1 /\ job' = 0 /\ done' = {}

\* wait_window finds the window; the call succeeds or its failure is tolerated.
DoStep ==
  /\ pc = "input" /\ step \in DOMAIN Steps /\ (Step.waits => top = Step.window)
  /\ \/ Performed
     \/ Step.tolerant /\ Refused
  /\ wrongAck' = (wrongAck \/ (Step.inputs = <<"close result">> /\ kind = "comments" /\ ~shown))
  /\ step' = step + 1
  /\ pc' = IF Step.inputs = <<"copy result">> THEN "check" ELSE "input"
  /\ UNCHANGED <<kind, file, job, done, runs, cut>>

\* Mutant: the count is not compared.
CheckNothing ==
  /\ pc = "check" /\ pc' = "input"
  /\ UNCHANGED <<kind, editor, file, step, job, done, runs, faults, late, cut, wrongAck>>

\* The text of the result dialog, read from the clipboard, has the expected count.
CheckResult ==
  /\ pc = "check" /\ clip /\ pc' = "input"
  /\ UNCHANGED <<kind, editor, file, step, job, done, runs, faults, late, cut, wrongAck>>

\* A window that does not come, a failure that is not tolerated, a wrong count.
StepFails ==
  /\ \/ /\ pc = "input" /\ step \in DOMAIN Steps /\ Step.waits /\ top # Step.window
        /\ UNCHANGED <<editor, faults, late>>
     \/ pc = "input" /\ step \in DOMAIN Steps /\ ~Step.tolerant /\ Refused
     \/ pc = "check" /\ ~clip /\ UNCHANGED <<editor, faults, late>>
     \/ /\ pc = "input" /\ step \notin DOMAIN Steps /\ WaitsAtEnd /\ top # Base
        /\ UNCHANGED <<editor, faults, late>>
  /\ Abandon
  /\ UNCHANGED <<kind, file, runs, wrongAck>>

\* Mutant: the last wait for the main window is left out.
JobEndsAtOnce ==
  /\ pc = "input" /\ step \notin DOMAIN Steps
  /\ done' = done \cup {job} /\ pc' = "write"
  /\ UNCHANGED <<kind, editor, file, step, job, runs, faults, late, cut, wrongAck>>

\* Some scripts wait until the window they started from is enabled again.
JobEnds ==
  /\ pc = "input" /\ step \notin DOMAIN Steps /\ (WaitsAtEnd => top = Base)
  /\ done' = done \cup {job} /\ pc' = "write"
  /\ UNCHANGED <<kind, editor, file, step, job, runs, faults, late, cut, wrongAck>>

\* Mutant: the state is written at the end of the run only.
WriteLast ==
  /\ pc = "write" /\ file' = (IF job = Len(Jobs) THEN <<done>> ELSE file) /\ job' = job + 1 /\ pc' = "next"
  /\ UNCHANGED <<kind, editor, step, done, runs, faults, late, cut, wrongAck>>

WriteState ==
  /\ pc = "write" /\ file' = (IF HasState THEN <<done>> ELSE file) /\ job' = job + 1 /\ pc' = "next"
  /\ UNCHANGED <<kind, editor, step, done, runs, faults, late, cut, wrongAck>>

Finish ==
  /\ pc = "next" /\ job \notin DOMAIN Jobs /\ pc' = "idle" /\ step' = 1 /\ job' = 0 /\ done' = {}
  /\ UNCHANGED <<kind, editor, file, runs, faults, late, cut, wrongAck>>

\* The state file is not written atomically.
Kill ==
  /\ pc # "idle" /\ job \in DOMAIN Jobs /\ Spend /\ Abandon
  /\ file' \in IF pc = "write" /\ HasState THEN {file, << >>} ELSE {file}
  /\ UNCHANGED <<kind, editor, runs, late, wrongAck>>

\* Between two runs the operator closes what was left open.
OperatorCloses ==
  /\ pc = "idle" /\ pending = << >> /\ top # Base /\ top' = Base
  /\ UNCHANGED <<kind, field, shown, clip, pending, applied, file, script, runs, faults, late, cut, wrongAck>>

Script == SkipDone \/ BeginJob \/ DoStep \/ CheckResult \/ StepFails \/ JobEnds \/ WriteState \/ Finish
Next == StartRun \/ Script \/ CatchUp \/ Kill \/ OperatorCloses

Spec == Init /\ [][Next]_vars

-----------------------------------------------------------------------------
(* Properties. *)

\* A job the state file calls done was carried out by the editor, though
\* failures answered 503 are taken for success on the way, unless an input was
\* processed late (import_module, rename_program, replace_one and their state
\* files).
DoneIsApplied ==
  file # << >> => \A j \in file[1] \ late : applied[j] > 0

\* "never repeat the mutation": after a 503 "verify and close that exact owned
\* dialog"; spans closes the dialog an earlier job left open and calls the next
\* job done.
ResultIsOwn ==
  file # << >> => \A j \in file[1] \ late : applied[j] > 0

\* The editor carries a job out a second time only after a run was interrupted
\* in the middle of that job ("never repeat the mutation").
RepeatedOnlyIfCut ==
  HasState => \A j \in DOMAIN Jobs \ late : applied[j] <= 1 + cut[j]

\* The result of reading comments is acknowledged only when it names the number
\* of rows of the file ("never acknowledge a result whose imported count is not
\* exactly the CSV row count"), unless an input was processed late.
AckIsExact == late = {} => ~wrongAck
=============================================================================
