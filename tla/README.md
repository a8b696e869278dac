# AUTOComp in TLA+

AUTOComp translates PLC projects by driving a Windows editor (KEYENCE KV STUDIO,
or any other program) from another machine. A *worker* on the Windows machine
offers a small HTTP interface to its desktop. *Controllers* elsewhere decide what
to click and type, keep a state file, and can be resumed. This directory holds
TLA+ models of that system, TLC configurations that check them on small
instances, and TLAPS proofs for every value of the constants.

Paths below are relative to the repository root; `http.py`, `service.py` and
`adapter.py` stand for the files of that name in `src/autocomp/worker/`, and
`vision-agent` for `scripts/universal-vision-agent.py`.

## 1. Inventory

| Component | State it keeps | Operations | Talks to |
|---|---|---|---|
| HTTP worker (`http.py`) | `worker_lock`, `audit_lock`, the audit file, one thread per request | POST action, GET status, `append_audit` | controllers by HTTP; policy layer by call |
| Worker policy (`service.py`) | none beyond the call; `apply_enabled` | dry run, `_require_apply`, input sequences, rename, probe, inventory | adapters by call |
| Desktop adapter (`src/autocomp/desktop/adapter.py`) | `_CLIPBOARD_LOCK`, the Windows clipboard | windows, snapshot, input, input sequence | Windows |
| KV STUDIO tree adapter (`adapter.py`) | expansion it has to undo, an open label editor | rename, inventory, activate, menu | the editor's tree control |
| Mission controller (`vision-agent`) | state dictionary, state file, frames | one turn: look, decide, act, journal | worker by HTTP, vision model by HTTP |
| Translation service (`src/autocomp/translation/`) | glossary, memory | propose, propose_batch | model client |
| Model client (`client.py`) | candidate models, effective model | translate, translate_batch | LLM endpoint |
| Resumable translation scripts | translations, resume file | batch, repair, write | model client |
| Full content extraction | state file, evidence files | extract, validate, resume | worker by HTTP |
| KV STUDIO batch scripts | list of imported modules | import, rename, replace | worker by HTTP |
| Catalogue builders, verification helpers, CLI, installation scripts, data | none at run time | file to file | - |

What makes the system hard:

* **Concurrency.** `ThreadingHTTPServer` runs every request in its own thread.
  `worker_lock` is taken without blocking (the loser answers 409 and still writes
  an audit record), `audit_lock` with blocking, partly nested in the first.
* **Partial failure.** `os.write` may write less than asked, `fsync` may fail, an
  input may take effect and raise afterwards (it closed its own window), a
  client may hang up while its answer is written, a rollback may fail as well.
* **Crashes.** The worker's threads are daemons; a restart forgets all but the
  audit file. A controller may be killed between any two steps and resumes from
  its state file.
* **Time.** The controller gives up after 30 s, the tree adapter after 2 s. What
  was asked for may still happen later.
* **Stale views.** Window lists, frames and tree positions are read, then used;
  the editor and its operator do not wait.

What each component owes:

* *Worker*: one request acts on the desktop at a time; its intent is durable
  before it acts; only authorised requests act; what the audit file and the
  answer say is true; no failure leaves the worker busy.
* *Mission controller*: the same input on the same pixels is attempted at most
  once over all launches; the journal names every input before it happens and
  never claims more than is known; goals advance in order and nothing is lost; a
  run ends.
* *Tree adapter*: only the pinned item is renamed; what is reported as performed,
  or as rolled back, is so; a failed rename leaves the item alone; a rename ends.
* *Inventory*: only what it expanded itself is collapsed; it never calls itself
  complete or restored when it is not; the extraction takes only complete ones.
* *Desktop adapter*: an input goes to the pinned window where it was looked at, the
  steps of a sequence are accounted for, the clipboard is given back, a frame shows
  what it says.
* *Tree actions*: what is opened or inspected is the item that was named; a menu that
  was asked for is closed again; a complete inspection undid its expansions.
* *Translation*: only fit targets are kept; nothing is asked for twice; a run that is
  killed loses at most the open batch and is accepted again; a model is given up on
  only after it refused; delimiters repair what they can.
* *Extraction and batch scripts*: a complete record holds the whole text of its own
  program; what is recorded as done was carried out, and repeated only after a run
  was cut short; exit codes are truthful; every run ends.

`PROJECT.json` lists every component with its status, and under `hazards` every
place in the code where one of the above can go wrong, with the properties that
would notice. A hazard without a property has a note: most often the code does behave
so, and the property next to it names the case as its exception.

## 2. Modules

| Module | Models | Lines of code |
|---|---|---|
| `DesktopInput` | inputs, sequences, pastes and frames of a pinned window | `src/autocomp/desktop/adapter.py:112-148`, `192-536`, `859-885`, `adapter.py:348-434` |
| `DesktopInput_proofs` | theorems about `DesktopInput` | - |
| `TreeItemActions` | activation and menu inspection of a tree item | `adapter.py:567-602`, `703-967` |
| `ContentExtraction` | capture of every program's text, with its resume files | `scripts/extract-kvstudio-full-content.py` |
| `TreeItems_Extraction_proofs` | theorems about `TreeItemActions` and about `ContentExtraction` | - |
| `KvBatch` | ten scripts that work through a list of jobs in the editor's dialogs | `scripts/batch-kvstudio-*.py`, `import-*`, `apply-*`, `replace-final-*`, `finish-final-cjk-ui.py` |
| `KvBatch_proofs` | theorems about `KvBatch` | - |
| `TranslationLedger` | abstract: translations only grow | - |
| `ResumableTranslation` | the three resumable translation scripts | `scripts/translate-*.py` |
| `TranslationService` | `propose`, `propose_batch`, glossary and memory | `src/autocomp/translation/service.py`, `memory.py` |
| `ModelClient` | discovery and choice of a model | `src/autocomp/translation/client.py:68-230` |
| `TokenProtection` | protection, restoration and separation of tokens | `src/autocomp/translation/protection.py` |
| `TranslationStack` | composition of the four above | `src/autocomp/cli.py:291-310` |
| `TranslationStack_proofs` | theorems about the composition and its parts | - |
| `ActionGate` | abstract: what the worker promises | - |
| `WorkerServer` | HTTP worker and policy layer | `http.py:74-585`, `service.py:87-317`, `564-571` |
| `WorkerServer_proofs` | theorems about `WorkerServer` | - |
| `MissionLedger` | abstract: what a mission promises its operator | - |
| `VisionMission` | mission controller, its file, network, worker, desktop | `vision-agent:177-373`, `702-781`, `897-1112` |
| `VisionMission_proofs` | theorems about `VisionMission` | - |
| `TreeRename` | rename and probe of a tree item | `adapter.py:604-684`, `944-1140`, `service.py:375-454` |
| `TreeRename_proofs` | theorems about `TreeRename` | - |
| `TreeInventory` | inventory of the project tree and the extraction's demands on it | `adapter.py:482-565`, `1142-1376`, `src/autocomp/extraction/project_tree.py:145-192` |
| `TreeInventory_proofs` | theorems about `TreeInventory` | - |
| `MC...` | instances and symmetries for TLC | - |

An operator whose comment begins with "Mutant" is a plausible bug in the
definition that follows it. It is not part of the specification: it exists to
show that a property can fail. `PROJECT.json` says which property each one breaks.

### WorkerServer

A request is a process. `pc[r]` is the place of its handler in
`_execute_worker` (`http.py:419-473`):

```
new -> ready -> intent -> execute -> performing -> outcome -> release -> reply -> done
          \-> rejected (lock taken)      \-> answering (an error, under the lock) -> release
```

`Acquire`/`Busy` are the two results of `worker_lock.acquire(blocking=False)`.
`AuditOpen`, `AuditWrite`, `AuditSync`, `AuditTooLong` and `AuditFail` are
`append_audit` (lines 120-141); they are shared by the three places that call it,
and `PlaceAfter` says where the handler continues. The audit file is a sequence of
chunks: a record is a head and a tail, so a short write is visible; the first
`synced` chunks survive a power failure. `Inspect`, `Deny`, `Begin`, `Perform`,
`Stop` and `PerformThenFail` are `DesktopWorker.execute`: an input sequence puts one
operation after another on the desktop (`ui`, a history variable) and may stop or
fail before or after an effect. `Restart` kills all handlers and may lose any
suffix of the file that no fsync covered.

`Quiet` lets the finite set of requests come to rest. Messages are records of what
the control flow looks at: audited, apply, a valid checkpoint, number of
operations.

### ActionGate and the refinement

`ActionGate` knows the requests that may act at all, durable intents, the one active
request and the inputs so far. A request becomes active only if it is authorised and
its intent is durable, and its inputs come in one go. `WorkerServer` maps onto it with:
authorised = requests `_require_apply` lets through (applying is enabled, the message asks
for it and names what it needs), intents = requests whose intent record lies in the synced
prefix, active = the lock holder if it is performing, inputs = `ui`.
Locks, threads, chunks, errors and restarts disappear. `GateRefinement` is checked
by TLC and proved.

### VisionMission

The controller is one process, `pc` its place in `run` (lines 897-1112): turn,
route, decide, send, await, review. `mem` is the state dictionary, `disk` the state
file; `Save` is `_write_state`, atomic by `os.replace`. The journal is the sequence
`events`. `Attempted` is `_input_attempt_count`, over *all* intents of the journal:
this is what makes an input happen at most once across launches. A signature is
(frame, window, operations); the step is `len(events) + 1` as in the code, so a
step number names one event. `mem.goals[...] = "in_progress"` is set in memory
only and reaches the file with the next event, as in the code.

The model's answer is any decision the validation allows. The worker is reduced to
what the controller can tell (`WorkerStart`, `WorkerAct`, `WorkerRefuse`,
`WorkerCrash`; it is the subject of `WorkerServer`): requests may be delayed, lost,
refused, executed and reported as an error, or never answered. A read request that
finds the worker busy gets 409, which ends the run with an exception
(`CallFails`). `Crash` is a kill or an uncaught exception at any place.
The branch at lines 930-933 (a state file with no goal left but not completed)
cannot be reached: this is `GoalsInOrder`.

`MissionLedger` says what this is for: an input is committed to once, taken by the desktop
at most once and only after that, reported as performed only if it was taken, and the goals
are proven one by one. `VisionMission` maps onto it with: intended and performed = the
signatures of the journalled intents and of those whose outcome says so, taken = the
signatures of `executed`, proven = the goals before the active one. Turns, the file, the
network, kills and launches disappear; `LedgerRefinement` is proved.

### TreeRename

One action per step of `rename_tree_item` and `_commit_tree_item_text`, used twice:
to write the target and, in the except clause, to roll back (`phase`). A probe
renames twice (`leg`). Keys go into the queue of the editor application, which
takes them in order, when it gets to them, and may accept or refuse the text. A
label editor has a window handle, which the adapter pins (`OwnEditor`), and an
item, which it does not look at. `Reorder`, `Delete` and `OperatorEdits` are
interference from the application or its operator; the constant `Meddling` says
which of them a run admits. The siblings of one expanded parent stand for the tree.

### TreeInventory

The recursion of `_crawl_project_node` is a stack of frames (`stack`), frame 1 the
tree control. A visited item goes through `expand`, `wait`, `enumerate` and then
its children (`visit`); `Leave` hands its snapshot to its parent. However the walk
ends (`WalkEnds`, `WalkFails`, `NoRoots`), the finally clause follows: `todo` runs down
`expanded`, two attempts each, and `Resolve` follows a locator through what the tree
shows at that moment. `_expand_state` hides failures as "unknown" (`Readings`).
`Shown` is what an open item shows: of its children those it has `Loaded`, the one of
rank i being at `Place` i. The tree is any in which an item stands in one place
(`TreeAssumption`). The application is free: `Expand` and `Collapse` take effect now, later (`pending`,
`Obey`), in part or never; `Load` adds a child to an open folder whenever it likes;
`Expire` is the deadline. `Accepted` is what `extract_project_tree_inventory` demands.
Two history variables name the code's two blind spots: `missed` (an expansion the wait
did not notice) and `unseen` (children still loading, or a state that could not be
read without `expand_all`). The passing run shows that the report is exact but for
them; that they exist is under *Further disagreements*.

### DesktopInput

One request of a pinned window: `Select`, `Allow`, `Focus`, `Recheck`,
`CheckForeground` and `CheckFocused` are the looks `input` takes before it acts, in
their order; `Act` or `Copy`-`Send`-`Wait`-`Restore` is the delivery; `NextStep` is
`input_sequence`. A frame (`SelectFrame`, `Capture`, `Compare`) and the KV STUDIO
adapter's `visual_input` (`FindAndFocus`, `ReadBounds`, and its own paste without a
wait) share the state. Between any two calls into Windows the user and the
applications move (`Activate`, `OpenDialog`, `Close`, `Disturb`, `CopyElsewhere`), and
the application that was sent a ^v reads the clipboard when it likes (`OpenToRead`,
`TakeText`; the clipboard is closed to everyone else meanwhile). `stale` remembers
which of the two looks, identity and foreground, the desktop has changed since: the
properties promise nothing the code cannot know.

Who receives an input is the desktop's choice, not the request's (`Receivers`): a key goes
to the foreground window, a click, double click or turn of the wheel to a window that can
be topmost at its point (`AtPoint`). Of the stacking order the model knows what Windows
keeps: a window of `Topmost` may lie over anything, an owned window lies over its owner,
the windows that own one another or share an owner (`SameGroup`) may lie over each other in
any other order, and a window of another group may cover the target unless the target's own
group has the foreground (`MayCover`). A window that is minimized or gone leaves its points to
any other. A click may also bring the window it hits to the front. `InputIsPinned` says what
remains of the pinning: a key reaches the window, its owner or, in a sequence, a window it
owns; a click its group or a window that is always on top, and no ordinary window of another
application. That rests on `CheckForeground`, as its mutant shows. `_CLIPBOARD_LOCK` needs no variable: `worker_lock` admits one request at a time
(`OneRequestAtATime`).

### TreeItemActions

The items are the children of one folder. Clicks and keys go through the input queue
of the editor, which finds the clicked item by its row when it gets to them. A request
goes through `Expand`/`SeenExpanded`/`Resolve` (twice for an activation), then
`DoubleClick`, or `KnownMenus`, `RightClick`, `SeeMenu`, `SeeEnd`, `VerifySource`; every
exception of an inspection leads to `CleanUp`, its finally clause. The calls into the editor
may raise before or after their effect (`DoubleClickFails`, `RightClickFails`, `SeeMenuFails`,
`Lost`, and the ESC of `CleanUp`, whose failure is only a warning). A right click that raised
after it took effect leaves `right_click_sent` false, so that no ESC is sent; an ESC that
raised in the finally clause is not repeated. The history variable `abandoned` is true after
either, until an ESC is sent again, and `MenuCloses` promises nothing then. An expansion may
be obeyed late; a collapse is seen within its wait or reported.

### ContentExtraction

`stateFile`, `blocksFile` and `files` are on disk, `mem`, `rec` and `blocks` belong to
the run. `_extract_one` tries three ways: the whole program through a private clipboard
format (`ReadBinary`), through text (`ReadPlain`), and block by block through the List
Edit popup (`OpenList` to `LookAfter`). A text is the sequence of the blocks it holds, so
a gap, a repetition or a foreign block is visible. `Editions` are the editors and
options the script may meet (where Ctrl+Down stops, what Ctrl+C copies). Every call
may fail before or after its effect, inputs may be processed late, and the script may
be killed at any place. `After` is the editor after a queue of inputs, `Joined` what
`_join_block_texts` makes of the blocks; both are functions defined by recursion. Two history variables name its blind spots: `lagged` (late
inputs) and `unclicked` (both clicks on List Edit failed).

### KvBatch

Each script is a list of steps: the window it waits for, its inputs, whether a 503 is
taken for success, whether it waits at all. The editor knows which window an input
belongs to and which it opens (`Inputs`), one input does everything to the editor that
`Effect` says, `After` is a queue of them. `file` is the state file, written in place (a kill can
tear it: `<< >>`), `cut` counts how often a run ended inside a job.

### ResumableTranslation, TranslationService, ModelClient, TokenProtection

`ResumableTranslation` has one action per file operation: `Enrich` and `Load`,
`WriteTemp`/`Replace`/`WriteFails` for `_atomic_write_json`, `NextBatch`, `Answered`,
`Merge`. Targets are classes of texts, told apart by whether they fit the PLC and
whether the deterministic abbreviation makes them fit. `Edit` changes inventory or
glossary at any time, also during a run; the hash is computed anew at each write, as in
the code. `TranslationLedger` is what its file promises: translations are added,
never changed or lost.

`TranslationService` follows `propose` and `propose_batch` through groups, the second
request for what was unfit, and segments. `Open` picks, of the records that need a
target, the first of each text, and `Enqueued` puts those texts into the queue. The history variable
`answered` holds the texts an answer was accepted for, by whatever call and whatever became
of it: `NothingAskedTwice` compares it with what a request asks for (`AskedFor`). `ModelClient` is `_post` with its candidate
list, of which it takes those `Untried`, and its one refresh. `TokenProtection` has no state: that protecting and restoring a
text gives it back (`ProtectionLossless`) and that the separation repairs what it can
(`SeparationRepairs`) is evaluated on all short texts and answers, and proved for all.
`TranslationStack` puts them
together: an exchange of the client answers, or fails, the request of a script or of
the service; a script is a process with a new client at each start.

## 3. Runs

| Run | Question | Result |
|---|---|---|
| `server` | do two racing handlers, any messages, failures and two restarts (one without an audit log) leave a serial trail and truthful outcomes (`SerialTrail`, `OutcomeTruthful`); does every request end (`EveryRequestEnds`); is the gate implemented (`GateRefinement`: authorised, alone, after a durable intent)? | holds |
| `mission` | `AtMostOnce`, `IntentBeforeMutation`, `OutcomeFaithful`, `GoalsInOrder`, `NothingLost` over two launches; does every launch end (`RunEnds`)? | holds |
| `rename_exact` | does an undisturbed rename, probe or rollback do what it reports (`ReportHolds`), to the pinned item only (`OnlyPinnedChanges`)? | holds |
| `rename_ends` | does a rename end, whatever editor and operator do (`RenameEnds`)? | holds |
| `rename_wrong_item` | does only the pinned item change when siblings move? | violated |
| `inventory_exact` | are reports that claim completeness, or that the extraction accepts, exact but for `missed` and `unseen` (`CompletenessHolds`, `RestorationHolds`); are only own expansions undone (`OnlyOwnExpansions`)? | holds |
| `tree_actions` | does an activation or inspection meet the named item (`ActionIsPinned`), undo its expansion (`CompleteRestores`), and close its menu (`MenuCloses`), although every call may raise? | holds |
| `desktop_input` | do inputs, pastes and frames concern the pinned window (`InputIsPinned`, `PasteIsRequested`, `FrameIsPinned`); are steps accounted for (`SequenceAccounted`); is the clipboard given back (`ClipboardGivenBack`)? A tool window that is always on top may take clicks. | holds |
| `extraction_resume` | are complete records whole (`WholeCapture`), kept (`CompleteKept`), and the exit code truthful (`ExitTruthful`) over two starts; does every run end (`RunEnds`)? | holds |
| `batch_confirmed` | are recorded jobs carried out (`DoneIsApplied`), repeated only after an interruption (`RepeatedOnlyIfCut`), and read comments acknowledged by their exact count (`AckIsExact`)? | holds |
| `batch_stale_result` | is the result a script closes that of its own job? | violated |
| `translation` | is the ledger implemented (`LedgerRefinement`), a restart accepted (`RefusedOnlyIfEdited`), the memory fit, and nothing asked for that was answered (`DecisionsFit`, `OnlyProposePoisons`, `NothingAskedTwice`), a model given up truthfully (`NoModelIsTruthful`), every token kept (`TokensRepaired`); does a script complete (`ScriptCompletes`)? | holds |

### Findings

The violated runs are disagreements between the code and what its comments or
documents say.

* *Wrong item* (`rename_wrong_item`). The except clause of `rename_tree_item` finds its
  item by index, without the path check of the first resolution. If siblings changed
  places, it "rolls back" the neighbour.
* *Stale result* (`batch_stale_result`). `apply-all-reviewed-rung-spans.py` and the scripts
  that, like it, look for the Search window only once take a 503 to mean that the
  replacement ran, and close whatever result dialog they find. One left open by job n is
  taken for the result of job n+1, which was refused and is recorded as done.

### Further disagreements

Met while modelling; each can be reproduced by stating the property for the module,
none is kept as a run.

* *Torn intent* (`http.py:133`). `append_audit` does not remove a fragment it has written
  before an error, and the next record continues the same line. An input can then rest
  on an intent that is durable byte by byte (`IntentBeforeInput`), yet is no line a
  reader can parse.
* *Late ENTER* (`adapter.py:1135`). After the 2 s deadline ESC is queued behind ENTER, the
  text still reads as the source, and failure is reported with nothing to roll back.
  Then the editor processes the ENTER.
* *Late expansion* (`adapter.py:1206`). An item that opens after the 0.5 s wait is not on
  the list of items to collapse; `restoration_complete` is computed from that list and
  is true while the item stands open (`docs/project-tree-inventory.md:92`). Such an
  inventory is at least marked truncated.
* *Unread state* (`adapter.py:1210`). Without `expand_all` an item whose state cannot be
  read is not marked truncated. A collapsed folder then counts as complete without its
  content (`docs/project-tree-inventory.md:91`). A folder that is still loading has the
  same effect with `expand_all`.
* *Unclicked end* (`scripts/extract-kvstudio-full-content.py:1213`). When the worker answers
  503 to both List Edit clicks, the program is recorded complete without its later
  blocks, and no later run extracts it again.
* *Token in a word* (`src/autocomp/translation/protection.py:144`). The separation looks for
  a token from the left and may find it inside a word of the prose: for the source
  "模式M启动" the answer "Mode M Start" becomes "M ode M Start".
* *Key for a modal dialog* (`src/autocomp/desktop/adapter.py:210`). A modal dialog disables
  its owner, so the step after the click that opened it ends with "selected window is not
  ready for input", before lines 243-254, which mean to route it to the dialog, are
  reached. `SequenceAccounted` shows that the caller is not misled about the click.
* *Click on another window* (`src/autocomp/desktop/adapter.py:263`). The look before a click
  is at the foreground window, not at the window under the point. A window that is always on
  top, or an owned or owning window that lies over the point, takes the click.
* *Menu left open* (`adapter.py:747`, `801`). When the right click raises after it took effect,
  or sending ESC raises in the finally clause, nothing closes the menu. The inspection is
  reported as incomplete with a warning.
* *Activation leaves ancestors open* (`adapter.py:582`): the list of expanded ancestors is
  thrown away.

### Bounds

* `server`: 2 requests. A serial-trail violation needs a holder and one intruder; a
  request before and one after a restart suffice for recovery. The theorems hold for
  any number. `MaxOps = 2` (the code allows 8): a sequence has a first, a last and a stop
  between them; the loop body does not depend on the number. `MaxBoots = 2`: a restart
  during the records of a restart; `AuditedBoots = {0, 2}` starts the worker without an
  audit log in between. A record is two chunks: enough for "some of it" and "all of it".
* `mission`: `MaxSteps = 2`, `MaxRuns = 2` (the default is 200 steps): the first launch
  selects a window and sends an input, the second meets the same frame and is blocked,
  twice, into review. Two goals so that one is neither first nor last to be completed
  at the same time.
* `rename_*`: three requests with three texts: keys left over from one rename can meet
  the next two. One interference in the others.
* `inventory_exact`: one root, two folders and an entry in each: two expansions nested in
  a third, and a sibling that can load late in front of an expanded one. Three sets of
  limits: none is reached; items run out between two siblings; expansions and depth run
  out. Siblings have different texts: with equal ones the restoration could take one
  for the other, which the locator cannot tell.
* `tree_actions`: two requests, so that a click, key or expansion left over from one can
  meet the next; three items, two of them with the same text; one exchange of places.
* `desktop_input`: a main window, its modal dialog, another application and a tool window
  of it that is always on top; eight plans with every kind of operation first and after a
  step; two moves during the request (a dialog that opens and closes again). A ^v that is still
  unread when the next paste begins occurs within the plan of two pastes; none is left of an
  earlier request (`MaxUnread = 0`, one passes too, in five minutes); the theorems hold for
  any number.
* `extraction_resume`: two programs of two blocks, two starts, three faults: two failed
  attempts of a click and a kill. Four editions that take every branch.
* `batch_confirmed`: two jobs, three starts, three faults: a job cut in each of two runs
  and a wrong result in the third.
* `translation`: three sources in batches of two: a full batch and a rest; two batches per
  run, so that a run may stop by its limit; one edit and one fault at any place. Three
  models of which one does not chat, three listings. Texts of up to four symbols: a
  token at either end, between prose, and two of them.
* History variables (`ui`, `executed`, `pins`, `effects`, `read`) are bounded by these.

Symmetry is used over items and texts in `rename_exact` and `rename_wrong_item` only,
which have no liveness property; the specification treats these values alike.

`CHECK_DEADLOCK FALSE` stands in the rename, tree, desktop, extraction, batch and translation
runs: a bounded number of requests, starts or calls is asked for and then the model may
rest. In `server`, `mission` and `inventory_exact` deadlock is checked.

### Fairness

* `WorkerServer`: weak fairness of `Proceed(r)`, a handler's own steps: threads are
  scheduled, and a desktop call returns or raises. The second is an assumption: a
  call into a hung window that never returns would keep `worker_lock` for good, and
  the code has no deadline for it. No fairness for clients, restarts or the
  too-long record.
* `VisionMission`: weak fairness of `Turn`. Every call of the controller has a
  timeout (15, 30, 45 s or that of the model), so its next step comes. None for the
  worker, the network or the desktop: `RunEnds` holds although no input is ever
  answered.
* `TreeRename`: weak fairness of `Adapter`, whose waits have deadlines. None for
  failing calls, the editor application or the operator.
* `TreeItemActions`: weak fairness of `Adapter`, for the same reason, and of `Editor`: a
  menu can only close when the editor gets to the ESC in its queue.
* `ContentExtraction`: weak fairness of `Script`; every call has a timeout and every wait
  a deadline. None for the editor, late inputs or the operator.
* `TranslationStack`: weak fairness of `Progress`, the steps of the running script or
  service and of its HTTP exchange, including the next start of a script: "started again
  and again" is what `ScriptCompletes` is about, and whoever refuses or fails it for
  good is named in the property. None for edits, kills and failed writes.
* `DesktopInput`, `TreeInventory` and `KvBatch` state safety only.

## 4. Proofs

`WorkerServer_proofs` proves, for any set of requests, any messages and any
bounds, under the named assumptions of `WorkerServer` (`NullAssumption`,
`BoundsAssumption`, `SwitchAssumption`, `MessagesAssumption`: a message that asks
for apply is audited):

* `TypeCorrect`: `Spec => []TypeOK`. `TypeOK` alone is not inductive: `completed`
  could exceed the sequence and a chunk could carry a phase that is none. The
  invariant `TypeInv` adds `Counting` (operations done so far are fewer than the
  sequence has while performing) and `Appenders` (who is inside `append_audit` holds
  `audit_lock` and stands at one of its three call sites).
* `LockHeldExactly`: `Spec => []LockExact`, inductive on top of `TypeInv`. Mutual
  exclusion and "no leak" in one equivalence.
* `IntentFirst`: `Spec => []IntentBeforeInput`. The strengthening says what a
  handler about to fsync has written (`Writers`) and what a handler that may act has
  on disk (`Executors`). Two lemmas carry the crash: the synced prefix never changes
  (`DurablePrefix`), so what is recorded there stays (`RecordedStays`).
* `OneRequestAtATime`: `Spec => []InputUnmixed`, from `LockExact` and `InputOrder`: a
  handler that has acted never goes back before its execution, and while it performs
  the last input is its own.
* `WorkerImplementsGate`: `Spec => GateRefinement`. Each step is a step of the gate or
  a stutter; the invariants above give the gate's guards.
* `TrailIsSerial`: `Spec => []SerialTrail`. The property speaks of chunks that are
  outcomes; `TrailInv` says the same of a handler that may still write one (`Opened`):
  its whole intent lies in the file with nothing of another request behind it, but for
  rejections, which the loser of the lock writes while the winner acts. A restart cuts a
  suffix off, and then nobody is `Opened`.
* `OutcomesTrue`: `Spec => []OutcomeTruthful`. `TruthInv` counts: what the handler has
  completed is what is in `ui` under its name. `ReportInv` carries this from the
  handler's locals to its chunk in the file and its answer to the client, which are there
  long after the handler, and the worker it ran in, are gone.

`VisionMission_proofs` proves, for any windows and owners, frames and operations, any
number of goals, turns and launches, under the assumptions of `VisionMission`:

* `TypeCorrect` and `GoalsStayInOrder`: `TypeOK` and `GoalsInOrder`. Their invariant
  `ControlInv` adds that a run in progress is "running" (so it has an active goal and
  `goals[goal]` is defined), that the dictionary and the file agree on journal and
  goal (so a kill costs neither), that a frame belongs to a selected window, and that
  a turn under way is counted in `left`.
* `IntentFirst`: `Spec => []IntentBeforeMutation`. The strengthening `SendReady` says
  that what is about to be sent is the entry journalled last and was never sent.
* `InputAtMostOnce`: `Spec => []AtMostOnce`. `AtMostOnce` is not inductive. It follows
  from three facts that are: an input is in one place only (`FlightApart`: network,
  worker or desktop, told apart by step), it is the intent of its own step
  (`IntentBeforeMutation`), and no two intents of the journal have the same signature
  (`IntentsDiffer`, from `_input_attempt_count` over the whole journal). Two launches
  with a kill between them cannot break it because `Mirrored` makes the file's journal
  the one that is searched.
* `FileKeepsAll`: `Spec => NothingLost`, from `JournalSteps`: a step appends at most one
  entry.
* `OutcomesTrue`: `Spec => []OutcomeFaithful`. Its invariant `OutcomesInv` says that an
  outcome directly follows the intent of its own step, and that a controller that waits
  for an answer has that intent as its last entry; an answer "performed" is one to an
  input the desktop took.
* `MissionKeepsLedger`: `Spec => LedgerRefinement`. `IntendedGrow` and `PerformedGrow` say
  what one more entry does to the ledger. Journalling a new intent is `Commit`, because
  `_input_attempt_count` found none; `WorkerAct` is `Take`, because what the worker executes
  is an intent nobody executed (`BusyFresh`); the outcome "performed" is `Report`, by
  `OutcomesInv`; a proven goal is `Prove`. Everything else, a kill included, is a stutter.

`TranslationStack_proofs` proves, for any texts, glossaries, batches and group sizes, any
models an endpoint lists, any answers and any number of calls, edits and faults, under the
assumptions of `ResumableTranslation`, `TranslationService`, `ModelClient`, `TokenProtection`
(`SymbolAssumption`: markers differ from each other and from every other symbol, tokens and
letters from delimiters and CJK text) and `TranslationStack` (`TextAssumption`: sources and
prose are sequences of symbols, and no source has more tokens than there are markers), first
of the composition:

* `NoModelSaidTruthfully`: `StackSpec => []NoModelIsTruthful`. `ClientInv`: everything
  tried was refused, but for the model that is being asked.
* `ReturnedTargetsFit`, `BatchNeverPoisons`, `EachTextAskedOnce`: `DecisionsFit`,
  `OnlyProposePoisons` and `NothingAskedTwice`, from `ServiceInv`. None is inductive. Its
  parts say that what was accepted is remembered, whatever raised since (`AnsweredInv`), that the texts which wait, and those of the group that was sent, are
  different texts without a known target (`WaitingInv`), and that every record of a
  batch is either settled or stands for one of them (`CoveredInv`): no record is dropped
  between group, second request and segments. `EnqueuedHolds` and `OpenStands` are the
  facts about the queue this rests on.
* `TokensKept`: `StackSpec => []TokensRepaired`, for texts, answers and prose of any length.
  No step changes a source or its answer; the rest are facts about the functions of
  `TokenProtection`. An answer with the right markers and no token in its prose has exactly
  the tokens of the source, in their order, once restored (`RestoredCarries`; `Carries`),
  so the search from left to right finds each where it is (`SpansAreTokens`). Separation
  puts a delimiter in front of some places and changes nothing else (`SeparatedWidens`:
  `pos` takes the places of the target to those of the result), so tokens and prose keep
  their order (`WidenedMoves`, `OrderMoves`, `ProseStays`), and what stands next to a token
  afterwards stood there before or is a delimiter (`WidenedEdges`). That gives
  `ValidatedSeparated`: the result is valid exactly if nothing between two tokens was left out.
* `ScriptsInStack`: `StackSpec => Spec`: put together with service and client, a script
  still behaves as `ResumableTranslation` says, so what follows holds there as well.

Of the scripts alone:

* `TypeCorrect`, `OnlyMissingAsked`, `SavedFirst`: from one inductive invariant, `IInv`. Its parts say
  that what a run has in memory extends what the file holds (`Grown`), that both are the
  same between two batches (`Written`), and what of the open batch is still missing
  (`Missing`). None of the three properties is inductive without them: `AskedOnlyMissing`
  speaks of `Stored`, which only `Written` ties to the run's own `todo`.
* `ImplementsLedger`: `Spec => LedgerRefinement`. `Replace` is the only step that is not a
  stutter of the ledger; `Grown` makes it an addition.
* `RestartAccepted`: `Spec => []RefusedOnlyIfEdited`. The strengthening `Agreed` says that,
  until an edit, what the file holds agrees with the seeds and the hash of today's inputs.

`DesktopInput_proofs` proves, for any windows and owners, plans, clipboards and number of
moves, under `WindowAssumption`, `PlanAssumption` and `NullAssumption`:

* `TypeCorrect` (`TypeInv` adds that a request in progress has a window and a step),
  `InputsPinned`, `StepsAccounted`, `ClipboardReturned`, `PasteRequested`, `FramesPinned`. The inductive invariant is a conjunction
  of one part for each: `Pinned` (what each look established still holds as long as its
  mark is not in `stale`), `Counted` (effects so far, by place), `Given` (where the user's
  text is while the request has the clipboard), `Reading` (what an application that
  holds the clipboard open can read), `Framed`.

`TreeRename_proofs` proves, for any items, names, texts and number of renames, under
`ItemsAssumption` (finitely many siblings) and `NullAssumption`:

* `TypeCorrect`, whatever interferes.
* `PinnedOnly` (`Spec => OnlyPinnedChanges`) and `ReportsHold` (`Spec => []ReportHolds`), with
  the hypothesis `Meddling = {}`: nobody else moves, deletes or edits items. With it they
  cannot be dropped: `rename_wrong_item` is the counterexample. Neither property is inductive,
  because what can go wrong comes from a key that an earlier rename left in the queue of
  the application. `KeyInv` says in which order keys can stand there (an ENTER only while
  there is an editor, nothing the adapter relies on behind an ESC), `PinInv` what item and
  text the editor and the locals belong to at each place, `ReportInv` that a result which
  claims something left no ENTER behind.

`TreeItems_Extraction_proofs` proves theorems about two modules that share nothing; their
variables and specifications have different names, so that one module can hold both. About
`TreeItemActions`, for any items and texts, any number of requests and of changes of the
tree, under `ItemAssumption`:

* `TypeCorrect`; `ItemInv` (a resolved item has the requested text and a row) makes the types
  inductive, since a click is typed by its row.
* `ActionsPinned` (`Spec => []ActionIsPinned`) from `QueueInv`, what every click still in the
  queue is for, and `MenuInv`, whose menu the open one is by its identity and the baseline.
* `InspectionRestores` (`Spec => []CompleteRestores`) from `RestoreInv`: which states of the
  folder, of `own` and of a pending `expand()` go together at each place of the request.
* `EscapesFollow` (`Spec => []EscapeOnItsWay`), the safety half of `MenuCloses`: between
  requests an ESC stands in the queue behind every right click and for the open menu,
  unless the code gave it up (`abandoned`).

and about `ContentExtraction`, for any programs (a program may even stand twice in the tree),
any number of blocks, editors, runs, failed calls, late inputs and kills, under
`SizeAssumption`, `EditionsAssumption`, `CapturesAssumption` and `ProgramsAssumption` (a
missing value is no number and no block):

* `ExtractionTypeCorrect`.
* `CapturesWhole` (`ExtractionSpec => []WholeCapture`). A record becomes complete at the end of
  a long chain of facts about an editor the script hardly sees. `WorkInv` holds them for the
  program at work while no input to it was late: at each place of `_extract_one`, what line the
  cursor is on, which frame was seen last, which block the popup shows and the clipboard
  holds (`At`); that the n-th text copied is the n-th block, or the last one again (`Own`);
  and that the end is only found where it is. `FilesInv` says the same of the block
  file, which makes a resumed capture go on where the first one stopped. `JoinedOwn`
  carries `Own` to the joined text, `AfterDowns` puts the cursor after a walk.
* `ExitsTruthfully` (`ExtractionSpec => []ExitTruthful`) from `ExitInv` (while there is no
  failure, every program before `position` is complete), `PopupInv` (an open popup belongs to
  a program that is not complete) and `RecordsInv` (a complete record names an attempt whose
  content is in the file).
* `CompletesKept` (`ExtractionSpec => CompleteKept`): by `ProgressInv` the program at work is never
  a complete one, and no other action writes a record or a file.

`TreeInventory_proofs` proves, for any tree, any initial states and limits and any behaviour
of the application, under `TreeAssumption` and `LimitsAssumption`:

* `TypeCorrect`. `TypeInv` gives the stack its shape and the counters their limits: more was
  never expanded than attempted, nor collapsed than expanded.
* `CompletenessTrue`: `Spec => []CompletenessHolds`. `CapturedInv` is about the unfinished
  walk: while nothing was truncated, a frame went through all children before the next one
  (`Through`) and what was captured was captured with all that is below it (`Closed`),
  `unseen` items excepted. It needs `WayInv`, the frames being a way down the tree.
* `RestorationTrue` and `OwnExpansionsOnly`: `RestorationHolds` and `OnlyOwnExpansions`, with
  the hypothesis `SiblingsDiffer`: siblings have different texts. Without it both are
  false: a locator is indices and texts, and when a sibling appeared in front of an expanded
  item with its text the adapter collapses that one (`ResolveLeads` is where the hypothesis
  enters). `ChangedInv` says that whatever differs from the beginning is remembered,
  waited for or `missed`; `OnceInv` that nothing is visited twice, so nothing is expanded
  that the adapter expanded itself; `RestoreInv` that, while no item was given up, those
  done so far are collapsed.

`KvBatch_proofs` proves, for any list of jobs and any number of starts, failed calls, late
inputs, wrong results and kills, under the assumptions of `KvBatch`:

* `DoneTrue`: `"spans" \notin Kinds => (Spec => []DoneIsApplied)`. The one script that is
  excluded is the one `batch_stale_result` refutes; the other that looks for its window once
  has no state file. `DoneInv`: once the step that changes the project lies behind the
  script, the job was carried out, or the window of that step is still open and the next
  wait will fail. That a call answered 503 can be taken for success is safe for this
  reason alone, so the theorem rests on the shape of the scripts (`ScriptShape`): in each
  of them the step after the change waits for another window.
* `SeldomRepeated`: `Spec => []RepeatedOnlyIfCut`, for all scripts. `RepeatedInv` splits jobs into
  those already carried out since the last cut and those that are not (`Fresh`).
* `AcknowledgedExactly`: `Spec => []AckIsExact`.
* All three need `FieldInv` (between filling in and changing, the dialog holds the data of
  the job) and `PendingInv` (inputs still in the queue of the editor change the project
  only for jobs that are in `late`), and lemmas about `After`, since a queue of inputs lands
  in one step (`AfterConcat`, `Landing`).

The proof of `DoneTrue` found an error in an earlier version of the model: two cases of `Effect`
overlapped, which leaves the value of a CASE open, while TLC takes the first that applies.

The step lemmas have one step per action of `Next`, or per group of actions that do the same
to the state the invariant speaks of.

Some properties are only proved, because a run would add nothing to the theorem: `TypeOK` of
`WorkerServer`, `VisionMission`, `ResumableTranslation` and `TreeRename`, `DesktopTypeOK`,
`TreeActionsTypeOK`, `ExtractionTypeOK`; `EscapeOnItsWay` of `TreeItemActions`; `LockExact`, `IntentBeforeInput` and `InputUnmixed`
of `WorkerServer`, which `WorkerImplementsGate` rests on; `LedgerRefinement` of
`VisionMission`, which says of whole behaviours what its invariants say of states;
`AskedOnlyMissing` and `SavedBeforeAsking` of `ResumableTranslation`.

Checked by TLC only:

* All liveness (`EveryRequestEnds`, `RunEnds` of two modules, `RenameEnds`, `MenuCloses`,
  `ScriptCompletes`), which the proof system does not support under fairness.

The induction theorems of the library take an operator and cannot be used. Where a function
is defined by recursion over the naturals (`Resolve`, `After` of two modules, `Joined`,
`Spans`, `Separated`, the queue of the service) the lemma `Induction` does instead: a *set*
that contains 0 and is closed under successor contains every natural, which follows from the
pigeonhole theorem of `FiniteSetTheorems`; `StepwiseFunction` derives from it that such a
function exists and satisfies its equations.

## 5. Not modelled, and why

* HTTP itself, authentication, JSON shapes: `Refuse` stands for every way to be
  turned away before `_execute_worker`; it touches no state.
* The answer `audit_unavailable` is given both before an input (no intent) and after
  it (no outcome). A client cannot tell them apart; no property claims it can.
* Frames, prompts and model output are values; validation is the set of decisions.
* One controller per state file. Nothing in the code enforces this; it is listed as
  a hazard (`vision-agent:909`) that no property covers.
* Repeated attempts of one call: the content extraction tries the double click that opens a
  program, and the Ctrl+Home before a block copy, twice when the worker answers 503
  (`scripts/extract-kvstudio-full-content.py:502`, `955`); the model has one attempt.
* `translate-device-comments-resumable.py` reads the inventory (line 382) and hashes it again
  (385): `Load` sees the same one both times. The hash at each write is taken anew, as in the
  code.
* Fragments of markers in an answer (`src/autocomp/translation/protection.py:63`), which
  `restore_tokens` refuses: the symbols of `TokenProtection` are whole markers.
* A power failure of the controller's machine that undoes `os.replace`.
* Expanding collapsed ancestors during a rename, and collapsing them again (the same
  wait as in `TreeInventory` and `TreeItemActions`). A tree item that collapses only after
  its wait in `TreeItemActions`: it is reported as a failed restoration.
* An input that timed out may reach the desktop after the controller's next frame, and a
  popup may open after the window list was read: no wait rules it out. That an input is
  not sent twice is `AtMostOnce`; that it goes to the pinned window is `InputIsPinned`.
* An attempt counts although the worker refused it, so the same input on the same frame
  needs an operator: the price of at most once, visible as review exits.
* `visual_input` does not look whether `set_focus` succeeded; `InputIsPinned` promises nothing
  about the receiver of its keys. `visual_snapshot`, window lists and clipboard reads
  change no state.
* Request validation (`src/autocomp/worker/models.py`): a field-by-field check of one JSON
  object without state; a model of it would repeat the checks one by one. The classes of
  message that result are the constant `Messages` of `WorkerServer`.
* The bytes of clipboard formats, files and pictures; the wording of prompts and targets;
  the parsing of model answers (their outcome is a choice).
* File conversions, catalogues, verification helpers, installation scripts: no state, no
  concurrency; their tests compare outputs.

## 6. Plan

1. Composition of `VisionMission` with `WorkerServer`.
2. Ancestors in `TreeRename`, shared with `TreeItemActions`.

## 7. Running

```
tlc -workers 2 -config server.cfg            MCWorkerServer.tla
tlc -workers 2 -config mission.cfg           MCVisionMission.tla
tlc -workers 2 -config rename_exact.cfg      MCTreeRename.tla
tlc -workers 2 -config inventory_exact.cfg   MCTreeInventory.tla
tlc -workers 2 -config tree_actions.cfg      MCTreeItemActions.tla
tlc -workers 2 -config desktop_input.cfg     MCDesktopInput.tla
tlc -workers 2 -config extraction_resume.cfg MCContentExtraction.tla
tlc -workers 2 -config batch_confirmed.cfg   MCKvBatch.tla
tlc -workers 2 -config translation.cfg       MCTranslationStack.tla
tlapm WorkerServer_proofs.tla
tlapm VisionMission_proofs.tla
tlapm TranslationStack_proofs.tla
tlapm DesktopInput_proofs.tla
tlapm TreeRename_proofs.tla
tlapm TreeItems_Extraction_proofs.tla
tlapm TreeInventory_proofs.tla
tlapm KvBatch_proofs.tla
```

`server`, `mission` and `translation` take one to three and a half minutes, the others less than two.
