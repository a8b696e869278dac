-------------------------- MODULE ContentExtraction --------------------------
(***************************************************************************)
(* Capturing the text of every program of the editor through its UI:        *)
(* scripts/extract-kvstudio-full-content.py.  For each program of the       *)
(* project tree the script opens it, tries to copy all of it at once, else  *)
(* copies it block by block through the List Edit popup, and writes what it *)
(* got and a resume state to files.  A killed run is started again.         *)
(*                                                                         *)
(* The editor takes inputs from its queue in order, sometimes late; every   *)
(* call of the worker may fail, with or without an effect (the worker       *)
(* answers 503 to any failure of the desktop).  A program is a sequence of  *)
(* blocks; a captured text is the sequence of blocks it is made of.         *)
(***************************************************************************)
EXTENDS Integers, Sequences, SequencesExt

CONSTANTS
  None,
  Programs,    \* the program nodes in the order of _program_nodes
  Size,        \* blocks of each program
  MaxBlocks,   \* --max-blocks
  MaxRuns,     \* bound: starts of the script
  MaxFaults,   \* bound: failures, late inputs and kills
  Editions     \* the editors and option sets the runs may meet

ASSUME SizeAssumption == Size \in Nat \ {0} /\ MaxBlocks \in Nat \ {0}
ASSUME CapturesAssumption == MaxRuns \in Nat /\ MaxFaults \in Nat

ProgramSet == ToSet(Programs)

\* A block of a program as it stands in a text; shown or copied by the editor.
BlockName == [program : ProgramSet \cup {None}, number : Nat]

ASSUME ProgramsAssumption ==
  Programs \in Seq(ProgramSet) /\ None \notin Nat \cup BlockName

(* ends: what Ctrl+Down does at the last block: it stays there, moves to an  *)
(* empty line without List Edit, or never happens since the last block is    *)
(* ENDH.  copies: what Ctrl+C of a whole program puts on the clipboard.      *)
(* mode: the worker has clipboard snapshots, it has not, or the option       *)
(* --no-binary-fast-path.  known: the popup has one of the exact titles of   *)
(* _dismiss_owned_dialogs.                                                   *)
ASSUME EditionsAssumption ==
  Editions \subseteq [ends: {"stays", "blank", "endh"}, copies: {"binary", "text", "short"},
                      mode: {"snapshot", "plain", "list"}, known: BOOLEAN]

VARIABLES
  edition,    \* the editor met
  app,        \* what is shown: program, line of the cursor, popup; the clipboard
  pending,    \* inputs the editor has not processed
  stateFile,  \* state.json: the record of each program
  blocksFile, \* <stem>.blocks.json
  files,      \* the file of each attempt
  place, position, \* where the script is; the program it is at
  mem, rec,   \* its copy of state.json; the record being made
  prior,      \* the clipboard before copying
  blocks,     \* the blocks copied so far
  block,      \* the text of the block being copied
  frame,      \* the last frame of the editor compared with
  seen,       \* a popup was there before the click
  clicked,    \* history: the worker performed a List Edit click of this round
  failures, exit,
  runs, faults,
  lagged,     \* history: programs captured while an input was late
  unclicked   \* history: programs whose end was taken from failed clicks only

durable == <<stateFile, blocksFile, files>>
capture == <<prior, blocks, block, frame, seen, clicked>>
account == <<edition, runs, exit, unclicked>>
world == <<app, pending, faults, lagged>>
extractionVars == <<world, durable, place, position, mem, rec, capture, failures, account>>

-----------------------------------------------------------------------------
(* The editor. *)

Whole(p) == [i \in 1..Size |-> [program |-> p, number |-> i]]
Short(p) == <<[program |-> p, number |-> 0]>>
EndLine == IF edition.ends = "blank" THEN Size + 1 ELSE Size
Endh(text) == edition.ends = "endh" /\ Len(text) = 1 /\ text[1].number = Size

Copied(p) ==
  CASE edition.copies = "binary" -> [custom |-> Whole(p), text |-> None]
    [] edition.copies = "text"   -> [custom |-> None, text |-> Whole(p)]
    [] edition.copies = "short"  -> [custom |-> None, text |-> Short(p)]

\* An input takes effect; the main window is disabled while the popup is open.
Effect(a, input) ==
  IF a.popup # None
    THEN CASE input.key = "copy block" -> [a EXCEPT !.clip = [custom |-> None, text |-> <<a.popup>>]]
           [] input.key = "escape" -> [a EXCEPT !.popup = None]
           [] OTHER -> a
    ELSE CASE input.key = "activate" -> [a EXCEPT !.shown = input.program, !.line = 1]
           [] input.key = "copy all" -> [a EXCEPT !.clip = Copied(a.shown)]
           [] input.key = "home" -> [a EXCEPT !.line = 1]
           [] input.key = "down" -> [a EXCEPT !.line = IF @ < EndLine THEN @ + 1 ELSE @]
           [] input.key = "list" /\ a.line <= Size ->
                [a EXCEPT !.popup = [program |-> a.shown, number |-> a.line]]
           [] OTHER -> a

\* The editor after a queue of inputs.
After(a, inputs) ==
  LET after[n \in 0..Len(inputs)] == IF n = 0 THEN a ELSE Effect(after[n-1], inputs[n])
  IN after[Len(inputs)]

Key(k) == [key |-> k]
Program == Programs[position]

Flagged == IF position \in DOMAIN Programs THEN lagged \cup {Program} ELSE lagged
Spend == faults < MaxFaults /\ faults' = faults + 1

\* The inputs are processed, after the ones that waited.
Land(inputs) ==
  /\ app' = After(app, pending \o inputs) /\ pending' = << >>
  /\ lagged' = IF pending = << >> THEN lagged ELSE Flagged

\* The worker reports the inputs performed; the editor may be late.
Performed(inputs) ==
  \/ Land(inputs) /\ UNCHANGED faults
  \/ Spend /\ pending' = pending \o inputs /\ lagged' = Flagged /\ UNCHANGED app

\* The worker's call fails after some of the inputs.
Failed(inputs) ==
  Spend /\ \E n \in 0..Len(inputs) : Land(SubSeq(inputs, 1, n))

\* The worker refuses inputs to a disabled window.
Disabled == app.popup # None /\ UNCHANGED world

CatchUp ==
  /\ pending # << >> /\ Land(<< >>)
  /\ UNCHANGED <<durable, place, position, mem, rec, capture, failures, account, faults>>

-----------------------------------------------------------------------------
(* Records. *)

NoRecord == [status |-> "none", attempts |-> << >>, selected |-> 0]
Running == [status |-> "running", attempts |-> << >>, selected |-> 0]
NoCapture ==
  [prior |-> [custom |-> None, text |-> None], blocks |-> << >>, block |-> None,
   frame |-> None, seen |-> FALSE]

Attempted(method, content) ==
  /\ files' = [files EXCEPT ![Program][method] = content]
  /\ rec' = [rec EXCEPT !.attempts = Append(@, [method |-> method, content |-> content])]

\* An attempt that completes the record.
Completed(method, content) ==
  /\ files' = [files EXCEPT ![Program][method] = content]
  /\ rec' = [status |-> "complete", attempts |-> Append(rec.attempts, [method |-> method, content |-> content]),
             selected |-> Len(rec.attempts) + 1]
  /\ place' = "save"

RaiseError == rec' = [rec EXCEPT !.status = "error"] /\ place' = "clean"
RaiseFatal == rec' = [rec EXCEPT !.status = "fatal"] /\ place' = "clean"

CompletedRecordValid(p, r) ==
  r.status = "complete" /\ files[p][r.attempts[r.selected].method] = r.attempts[r.selected].content

ExtractionInit ==
  /\ edition \in Editions
  /\ app = [shown |-> None, line |-> 1, popup |-> None, clip |-> [custom |-> None, text |-> None]]
  /\ pending = << >> /\ faults = 0 /\ lagged = {} /\ unclicked = {}
  /\ stateFile = [p \in ProgramSet |-> NoRecord] /\ mem = stateFile
  /\ blocksFile = [p \in ProgramSet |-> << >>]
  /\ files = [p \in ProgramSet |-> [m \in {"binary", "plain", "list"} |-> None]]
  /\ place = "idle" /\ position = 0 /\ rec = Running /\ failures = 0
  /\ prior = NoCapture.prior /\ blocks = << >> /\ block = None /\ frame = None /\ seen = FALSE /\ clicked = FALSE
  /\ runs = 0 /\ exit = None

-----------------------------------------------------------------------------
(* One program: opening it and copying it as a whole. *)

StartRun ==
  /\ place = "idle" /\ runs < MaxRuns
  /\ runs' = runs + 1 /\ exit' = None /\ mem' = stateFile /\ position' = 1 /\ failures' = 0
  /\ place' = "pick"
  /\ UNCHANGED <<world, durable, rec, capture, edition, unclicked>>

\* A valid record of an earlier run is kept.
Resume ==
  /\ place = "pick" /\ position \in DOMAIN Programs /\ CompletedRecordValid(Program, mem[Program])
  /\ position' = position + 1
  /\ UNCHANGED <<world, durable, place, mem, rec, capture, failures, account>>

\* Mutant: what an earlier run completed is extracted again.
BeginAgain ==
  /\ place = "pick" /\ position \in DOMAIN Programs
  /\ rec' = Running /\ place' = "activate"
  /\ blocks' = << >> /\ block' = None /\ UNCHANGED <<prior, frame, seen, clicked>>
  /\ UNCHANGED <<world, durable, position, mem, failures, account>>

Begin ==
  /\ place = "pick" /\ position \in DOMAIN Programs /\ ~CompletedRecordValid(Program, mem[Program])
  /\ rec' = Running /\ place' = "activate"
  /\ blocks' = << >> /\ block' = None /\ UNCHANGED <<prior, frame, seen, clicked>>
  /\ UNCHANGED <<world, durable, position, mem, failures, account>>

\* Its two attempts are one: a second is a repeat of the same double click.
ActivateProgram ==
  LET double == <<[key |-> "activate", program |-> Program]>>
  IN /\ place = "activate"
     /\ \/ app.popup = None /\ Performed(double) /\ place' = "prior" /\ UNCHANGED rec
        \/ (Failed(double) \/ Disabled) /\ RaiseError
     /\ UNCHANGED <<durable, position, mem, capture, failures, account>>

\* The hashes of the clipboard before the copy; each is optional.
ReadPrior ==
  /\ place = "prior"
  /\ \/ prior' = app.clip /\ UNCHANGED faults
     \/ Spend /\ prior' \in {[app.clip EXCEPT !.custom = None], [app.clip EXCEPT !.text = None]}
  /\ place' = IF edition.mode = "list" THEN "anchor" ELSE "copy all"
  /\ UNCHANGED <<app, pending, lagged, durable, position, mem, rec, blocks, block, frame, seen, clicked, failures, account>>

CopyAll ==
  /\ place = "copy all"
  /\ \/ app.popup = None /\ Performed(<<Key("home"), Key("copy all")>>) /\ place' = "read all"
     \/ (Failed(<<Key("home"), Key("copy all")>>) \/ Disabled) /\ place' = "anchor"
  /\ UNCHANGED <<durable, position, mem, rec, capture, failures, account>>

\* The editor's own clipboard format, if it changed.
BinaryChanged ==
  /\ edition.mode = "snapshot" /\ app.clip.custom # None
  /\ prior.custom # app.clip.custom

ReadBinary ==
  /\ place = "read all" /\ BinaryChanged /\ Completed("binary", app.clip.custom)
  /\ UNCHANGED <<world, stateFile, blocksFile, position, mem, capture, failures, account>>

\* No such format, a stale one, or no snapshot: the text, if it changed.
ReadPlain ==
  /\ place = "read all"
  /\ \/ ~BinaryChanged /\ UNCHANGED faults
     \/ BinaryChanged /\ Spend
  /\ IF app.clip.text = None \/ app.clip.text = prior.text
       THEN place' = "anchor" /\ UNCHANGED <<files, rec>>
       ELSE IF app.clip.text[1].number = 0
              THEN Attempted("plain", app.clip.text) /\ place' = "anchor"
              ELSE Completed("plain", app.clip.text)
  /\ UNCHANGED <<app, pending, lagged, stateFile, blocksFile, position, mem, capture, failures, account>>

-----------------------------------------------------------------------------
(* Copying block by block. *)

Frame(a) == [shown |-> a.shown, line |-> a.line, popup |-> a.popup]

\* Ctrl+Home (two attempts of the same key are one), then a click on the first
\* visible circuit.
Anchor ==
  /\ place = "anchor"
  /\ \/ app.popup = None /\ Performed(<<Key("home")>>) /\ frame' = Frame(app') /\ place' = "load" /\ UNCHANGED rec
     \/ (Failed(<<Key("home")>>) \/ Disabled) /\ RaiseError /\ UNCHANGED frame
  /\ UNCHANGED <<durable, position, mem, prior, blocks, block, seen, clicked, failures, account>>

\* The blocks of an earlier run up to the first one after which it did not see
\* the cursor move.  (Such a block is never ENDH: the branch for it is not met.)
LoadBlocks ==
  /\ place = "load"
  /\ LET saved == blocksFile[Program] IN
       \E n \in 0..Len(saved) :
         /\ \A i \in 1..n : saved[i].moved
         /\ n < Len(saved) => ~saved[n + 1].moved
         /\ blocks' = SubSeq(saved, 1, n)
  /\ place' = IF blocks' = << >> THEN "open" ELSE "walk"
  /\ UNCHANGED <<world, durable, position, mem, rec, prior, block, frame, seen, clicked, failures, account>>

\* Mutant: the cursor is left at the first block.
StayAtTop ==
  /\ place = "walk" /\ place' = "open"
  /\ UNCHANGED <<world, durable, position, mem, rec, capture, failures, account>>

\* Ctrl+Down once for each of them.
WalkDown ==
  LET downs == [i \in 1..Len(blocks) |-> Key("down")]
  IN /\ place = "walk"
     /\ \/ app.popup = None /\ Performed(downs) /\ frame' = Frame(app') /\ place' = "open" /\ UNCHANGED rec
        \/ (Failed(downs) \/ Disabled) /\ RaiseError /\ UNCHANGED frame
     /\ UNCHANGED <<durable, position, mem, prior, blocks, block, seen, clicked, failures, account>>

CapReached ==
  /\ place = "open" /\ Len(blocks) >= MaxBlocks /\ RaiseError
  /\ UNCHANGED <<world, durable, position, mem, capture, failures, account>>

\* The clicks on the Edit menu and its List Edit item; a 503 is no obstacle.
OpenList ==
  /\ place \in {"open", "retry"} /\ Len(blocks) < MaxBlocks
  /\ seen' = (app.popup # None)
  /\ \/ Performed(<<Key("list")>>) /\ clicked' = TRUE
     \/ (Failed(<<Key("list")>>) \/ Disabled) /\ clicked' = (place = "retry" /\ clicked)
  /\ place' = IF place = "open" THEN "wait" ELSE "wait again"
  /\ UNCHANGED <<durable, position, mem, rec, prior, blocks, block, frame, failures, account>>

NewPopup == app.popup # None /\ ~seen

PopupFound ==
  /\ place \in {"wait", "wait again"} /\ NewPopup /\ place' = "copy block"
  /\ UNCHANGED <<world, durable, position, mem, rec, capture, failures, account>>

RetryOpen ==
  /\ place = "wait" /\ ~NewPopup /\ place' = "retry"
  /\ UNCHANGED <<world, durable, position, mem, rec, capture, failures, account>>

\* Mutant: the clicks are repeated until a popup comes.
NoPopupYet ==
  /\ place = "wait again" /\ ~NewPopup /\ place' = "retry"
  /\ UNCHANGED <<world, durable, position, mem, rec, capture, failures, account>>

\* No popup twice: the end, unless nothing was copied or something is in the way.
NoPopup ==
  /\ place = "wait again" /\ ~NewPopup
  /\ IF blocks # << >> /\ app.popup = None
       THEN /\ blocksFile' = [blocksFile EXCEPT ![Program] = blocks] /\ place' = "join"
            /\ unclicked' = IF clicked THEN unclicked ELSE unclicked \cup {Program}
            /\ UNCHANGED rec
       ELSE RaiseError /\ UNCHANGED <<blocksFile, unclicked>>
  /\ UNCHANGED <<world, stateFile, files, position, mem, capture, failures, edition, runs, exit>>

CopyBlock ==
  /\ place = "copy block"
  /\ \/ Performed(<<Key("copy block")>>) /\ place' = "read block"
     \/ Failed(<<Key("copy block")>>) /\ place' = "close"
  /\ block' = None
  /\ UNCHANGED <<durable, position, mem, rec, prior, blocks, frame, seen, clicked, failures, account>>

\* Nothing tells this text from the one before it.
ReadBlock ==
  /\ place = "read block"
  /\ \/ block' = app.clip.text /\ UNCHANGED faults
     \/ block' = None /\ Spend
  /\ place' = "close"
  /\ UNCHANGED <<app, pending, lagged, durable, position, mem, rec, prior, blocks, frame, seen, clicked, failures, account>>

\* The finally clause; an error other than 503 is fatal.
CloseList ==
  /\ place = "close"
  /\ \/ (Performed(<<Key("escape")>>) \/ Failed(<<Key("escape")>>)) /\ place' = "closed" /\ UNCHANGED rec
     \/ Failed(<<Key("escape")>>) /\ RaiseFatal
  /\ UNCHANGED <<durable, position, mem, capture, failures, account>>

Closed ==
  /\ place = "closed"
  /\ CASE app.popup # None -> RaiseFatal /\ UNCHANGED <<blocks, blocksFile>>
       [] app.popup = None /\ block = None -> RaiseError /\ UNCHANGED <<blocks, blocksFile>>
       [] app.popup = None /\ block # None ->
            /\ blocks' = Append(blocks, [text |-> block, moved |-> FALSE])
            /\ IF Endh(block)
                 THEN blocksFile' = [blocksFile EXCEPT ![Program] = blocks'] /\ place' = "join"
                 ELSE place' = "down" /\ UNCHANGED blocksFile
            /\ UNCHANGED rec
  /\ UNCHANGED <<world, stateFile, files, position, mem, prior, block, frame, seen, clicked, failures, account>>

MoveDown ==
  /\ place = "down"
  /\ \/ app.popup = None /\ Performed(<<Key("down")>>) /\ place' = "look" /\ UNCHANGED rec
     \/ (Failed(<<Key("down")>>) \/ Disabled) /\ RaiseError
  /\ UNCHANGED <<durable, position, mem, capture, failures, account>>

\* The same frame before and after is the end; a frame may differ by itself.
LookAfter ==
  /\ place = "look"
  /\ \E noise \in BOOLEAN :
       place' = IF frame = Frame(app) /\ ~noise THEN "join" ELSE "open"
  /\ frame' = Frame(app)
  /\ blocks' = [blocks EXCEPT ![Len(blocks)].moved = TRUE]
  /\ blocksFile' = [blocksFile EXCEPT ![Program] = blocks']
  /\ UNCHANGED <<world, stateFile, files, position, mem, rec, prior, block, seen, clicked, failures, account>>

Joined(parts) ==
  LET joined[n \in 0..Len(parts)] == IF n = 0 THEN << >> ELSE joined[n-1] \o parts[n].text
  IN joined[Len(parts)]

JoinBlocks ==
  /\ place = "join" /\ Completed("list", Joined(blocks))
  /\ UNCHANGED <<world, stateFile, blocksFile, position, mem, capture, failures, account>>

-----------------------------------------------------------------------------
(* After each program, and the end of a run. *)

\* After a failure only popups with a known title are closed.
DismissDialogs ==
  /\ place = "clean" /\ place' = "save"
  /\ IF app.popup # None /\ edition.known
       THEN Performed(<<Key("escape")>>) \/ Failed(<<Key("escape")>>)
       ELSE UNCHANGED world
  /\ UNCHANGED <<durable, position, mem, rec, capture, failures, account>>

\* Mutant: a popup that stayed open is not counted as a failure.
SaveRecordErrorsOnly ==
  /\ place = "save"
  /\ mem' = [mem EXCEPT ![Program] = rec] /\ stateFile' = mem'
  /\ failures' = IF rec.status = "error" THEN failures + 1 ELSE failures
  /\ position' = IF rec.status = "fatal" THEN Len(Programs) + 1 ELSE position + 1
  /\ place' = "pick" /\ rec' = Running
  /\ UNCHANGED <<world, blocksFile, files, capture, account>>

SaveRecord ==
  /\ place = "save"
  /\ mem' = [mem EXCEPT ![Program] = rec] /\ stateFile' = mem'
  /\ failures' = IF rec.status = "complete" THEN failures ELSE failures + 1
  /\ position' = IF rec.status = "fatal" THEN Len(Programs) + 1 ELSE position + 1
  /\ place' = "pick" /\ rec' = Running
  /\ UNCHANGED <<world, blocksFile, files, capture, account>>

Stopped ==
  /\ place' = "idle" /\ position' = 0 /\ rec' = Running /\ failures' = 0
  /\ prior' = NoCapture.prior /\ blocks' = << >> /\ block' = None /\ frame' = None /\ seen' = FALSE /\ clicked' = FALSE

Finish ==
  /\ place = "pick" /\ position \notin DOMAIN Programs
  /\ stateFile' = mem /\ UNCHANGED mem /\ exit' = IF failures = 0 THEN 0 ELSE 2
  /\ Stopped
  /\ UNCHANGED <<world, blocksFile, files, edition, runs, unclicked>>

Kill ==
  /\ place # "idle" /\ Spend /\ Stopped /\ mem' = stateFile
  /\ UNCHANGED <<app, pending, lagged, durable, account>>

Script ==
  \/ Resume \/ Begin \/ ActivateProgram \/ ReadPrior \/ CopyAll \/ ReadBinary \/ ReadPlain
  \/ Anchor \/ LoadBlocks \/ WalkDown \/ CapReached \/ OpenList \/ PopupFound \/ RetryOpen \/ NoPopup
  \/ CopyBlock \/ ReadBlock \/ CloseList \/ Closed \/ MoveDown \/ LookAfter \/ JoinBlocks
  \/ DismissDialogs \/ SaveRecord \/ Finish

ExtractionNext == StartRun \/ Script \/ CatchUp \/ Kill

ExtractionSpec == ExtractionInit /\ [][ExtractionNext]_extractionVars
FairExtraction == ExtractionSpec /\ WF_extractionVars(Script)

-----------------------------------------------------------------------------
(* Properties. *)

Text == Seq(BlockName)
SavedBlock == [text : Text, moved : BOOLEAN]
Clipboard == [custom : Text \cup {None}, text : Text \cup {None}]
FrameType == [shown : ProgramSet \cup {None}, line : Nat, popup : BlockName \cup {None}]
AppType ==
  [shown : ProgramSet \cup {None}, line : Nat, popup : BlockName \cup {None}, clip : Clipboard]
Methods == {"binary", "plain", "list"}
Record ==
  [status : {"none", "running", "complete", "error", "fatal"},
   attempts : Seq([method : Methods, content : Text]), selected : Nat]
InputKeys ==
  [key : {"home", "copy all", "list", "copy block", "escape", "down"}]
    \cup [key : {"activate"}, program : ProgramSet]

\* Every variable has its type, and a program that is worked on is one of Programs.
ExtractionTypeOK ==
  /\ edition \in Editions /\ app \in AppType /\ pending \in Seq(InputKeys)
  /\ stateFile \in [ProgramSet -> Record] /\ mem \in [ProgramSet -> Record] /\ rec \in Record
  /\ blocksFile \in [ProgramSet -> Seq(SavedBlock)] /\ blocks \in Seq(SavedBlock)
  /\ files \in [ProgramSet -> [Methods -> Text \cup {None}]]
  /\ prior \in Clipboard /\ block \in Text \cup {None} /\ frame \in FrameType \cup {None}
  /\ seen \in BOOLEAN /\ clicked \in BOOLEAN
  /\ place \in {"idle", "pick", "activate", "prior", "copy all", "read all", "anchor", "load", "walk",
                "open", "wait", "retry", "wait again", "copy block", "read block", "close", "closed",
                "down", "look", "join", "clean", "save"}
  /\ position \in Nat /\ (place # "idle" => position > 0)
  /\ place \notin {"idle", "pick"} => position \in DOMAIN Programs
  /\ failures \in Nat /\ faults \in Nat /\ runs \in Nat /\ exit \in {None, 0, 2}
  /\ lagged \subseteq ProgramSet /\ unclicked \subseteq ProgramSet

\* The text of the program from its first block to its last, which a resumed or
\* disturbed run may have copied more than once.
Faithful(p, text) ==
  /\ Len(text) >= Size
  /\ \A i \in DOMAIN text : text[i] = [program |-> p, number |-> IF i <= Size THEN i ELSE Size]

CompleteText(p) == files[p][stateFile[p].attempts[stateFile[p].selected].method]

\* A record marked complete names a file with the whole text of its own program,
\* no block missing and none of another program, however often calls failed or
\* the script was killed and resumed, unless an input was processed late or both
\* clicks that should have opened the popup failed (_extract_one and the resume
\* of its blocks).
WholeCapture ==
  \A p \in ProgramSet \ (lagged \cup unclicked) :
    stateFile[p].status = "complete" => Faithful(p, CompleteText(p))

\* Exit code 0 means that every program has a complete record whose file is the
\* captured one, and that no popup of the script was left in the editor (unless
\* an input was processed late).
ExitTruthful ==
  exit = 0 =>
    /\ \A p \in ProgramSet : CompletedRecordValid(p, stateFile[p])
    /\ lagged = {} => app.popup = None

\* What one run completed no later run replaces, whatever fails in it.
CompleteKept ==
  [][\A p \in ProgramSet :
       CompletedRecordValid(p, stateFile[p]) =>
         /\ stateFile'[p] = stateFile[p]
         /\ files'[p][stateFile[p].attempts[stateFile[p].selected].method] = CompleteText(p)]_extractionVars

\* Every run ends: failures, popups that stay and frames that never repeat
\* cannot keep it going (the cap on blocks, the two attempts at each click).
RunEnds == place # "idle" ~> place = "idle"
=============================================================================
