--------------------------- MODULE VisionMission ---------------------------
(***************************************************************************)
(* The mission controller (run in scripts/universal-vision-agent.py) with   *)
(* the state file it resumes from, the worker it drives over HTTP and the   *)
(* desktop the worker looks at.                                             *)
(*                                                                         *)
(* The controller is one process.  Its state dictionary is `mem`; `disk` is *)
(* the state file, replaced atomically by _write_state.  The process may    *)
(* die between any two steps and be launched again.  The worker takes one   *)
(* request at a time (see WorkerServer) and the network may lose or delay   *)
(* a request or its answer.                                                 *)
(***************************************************************************)
EXTENDS Integers, Sequences, FiniteSets

CONSTANTS
  NULL,
  NumGoals,   \* goals of the mission
  Windows,    \* windows of the application under control
  Owner,      \* the window each dialog or menu belongs to, NULL for the others
  Frames,     \* what a screenshot can look like, up to its SHA-256
  Ops,        \* validated operation lists the model may ask for
  MaxSteps,   \* --max-steps
  MaxRuns     \* bound: how often the command is launched

\* How an input can end.
Outcomes == {"performed", "unperformed", "error"}

ASSUME NullAssumption == NULL \notin Windows \cup Frames \cup Ops \cup Outcomes
ASSUME OwnerAssumption == Owner \in [Windows -> Windows \cup {NULL}]
ASSUME BoundsAssumption ==
  NumGoals \in Nat \ {0} /\ MaxSteps \in Nat \ {0} /\ MaxRuns \in Nat

\* _input_signature: frame hash, window identity, operations.
Signatures == [frame: Frames, window: Windows, ops: Ops]
Popups == {w \in Windows : Owner[w] # NULL}
Kinds == {"window", "blocked", "decision", "intent", "outcome"}

\* A journal entry: what happened at which step, the signature of an input's
\* intent, how its outcome went.
Events ==
  [event: Kinds, step: Nat, sig: Signatures \cup {NULL}, how: Outcomes \cup {NULL}]
Statuses == {"running", "paused", "failed", "completed"}
GoalStatuses == {"pending", "in_progress", "failed", "completed"}

\* The state dictionary.
States ==
  [status: Statuses, goal: 1..(NumGoals + 1), goals: [1..NumGoals -> GoalStatuses],
   selected: Windows \cup {NULL}, blocked: Nat, events: Seq(Events)]

VARIABLES
  disk,      \* the state file (a fresh state while there is none)
  mem,       \* the state of the running controller
  pc,        \* its place in run
  left,      \* turns left of max_steps
  view,      \* the window list of this turn
  shot,      \* the frame of this turn, NULL without a selected window
  exit,      \* exit code of the last run, "crash" if it had none
  runs,      \* how often the command was launched
  net,       \* inputs sent and not yet started by the worker
  busy,      \* the input the worker is executing
  answer,    \* the worker's answer to the input awaited, or NULL
  executed,  \* history: inputs that reached the desktop, in order
  open, front, frame  \* the desktop: open windows, foreground window, pixels

controller == <<disk, mem, pc, left, view, shot, exit, runs>>
worker == <<net, busy, answer, executed>>
desktop == <<open, front, frame>>
vars == <<controller, worker, desktop>>

-----------------------------------------------------------------------------
(* The state dictionary and its file. *)

Fresh ==
  [status |-> "running", goal |-> 1, goals |-> [g \in 1..NumGoals |-> "pending"],
   selected |-> NULL, blocked |-> 0, events |-> << >>]

\* Mutant: a completed mission runs again like any other.
LoadStateReopened(s) == [s EXCEPT !.status = "running"]

\* _load_state: a completed mission is returned as it is, any other one runs
\* again.
LoadState(s) == IF s.status = "completed" THEN s ELSE [s EXCEPT !.status = "running"]

Event(kind, step, sig, how) == [event |-> kind, step |-> step, sig |-> sig, how |-> how]

\* step = len(events) + 1 at the head of the turn.
Step(s) == Len(s.events) + 1

\* _append_event: into the dictionary, and the whole dictionary into the file.
Save(s) == mem' = s /\ disk' = s
Journal(s, e) == [s EXCEPT !.events = Append(@, e)]

\* Mutant: only the latest entry is looked at.
AttemptedLast(s, sig) ==
  s.events # << >> /\ LET e == s.events[Len(s.events)] IN e.event = "intent" /\ e.sig = sig

\* _input_attempt_count(state, signature) # 0.
Attempted(s, sig) ==
  \E i \in 1..Len(s.events) : s.events[i].event = "intent" /\ s.events[i].sig = sig

\* Popups are modal: they disable their owner.
Disabled(w) == \E popup \in view.windows : Owner[popup] = w

\* _foreground_route: an enabled popup of the selected window, or an enabled window
\* in the foreground that is a popup or stands before a disabled selection.
Routes(selected) ==
  {w \in view.windows \ {selected} :
     /\ ~Disabled(w)
     /\ Owner[w] = selected \/ (w = view.front /\ (Owner[w] # NULL \/ Disabled(selected)))}

\* No turn has looked at the desktop.
NoView == [windows |-> {}, front |-> NULL]

Init ==
  /\ disk = Fresh /\ mem = Fresh
  /\ pc = "down" /\ left = 0 /\ exit = "none" /\ runs = 0
  /\ view = NoView /\ shot = NULL
  /\ net = {} /\ busy = NULL /\ answer = NULL /\ executed = << >>
  /\ open = Windows \ Popups /\ front = NULL /\ frame \in Frames

-----------------------------------------------------------------------------
(* The controller. *)

Forget == view' = NoView /\ shot' = NULL
Exit(code) == pc' = "down" /\ exit' = code /\ left' = 0 /\ Forget
NextTurn == pc' = "turn" /\ left' = left - 1 /\ Forget /\ UNCHANGED exit

\* The command is started and the handshake succeeds; a new worker build is
\* written to the file.  A completed mission ends at once.
Launch ==
  /\ pc = "down" /\ runs < MaxRuns
  /\ runs' = runs + 1
  /\ mem' = LoadState(disk)
  /\ disk' \in {disk, LoadState(disk)}
  /\ IF disk.status = "completed"
       THEN Exit("completed")
       ELSE pc' = "turn" /\ left' = MaxSteps /\ UNCHANGED <<view, shot, exit>>
  /\ UNCHANGED <<worker, desktop>>

\* Enumerate the windows.  The goal is marked in progress, in memory only.
ListWindows ==
  /\ pc = "turn" /\ left > 0 /\ busy = NULL
  /\ mem' = [mem EXCEPT !.goals[mem.goal] = "in_progress"]
  /\ view' = [windows |-> open, front |-> front]
  /\ shot' = NULL
  /\ pc' = "route"
  /\ UNCHANGED <<disk, left, exit, runs, worker, desktop>>

\* The selected window is gone: fall back to the process's foreground window,
\* or to none, and take a new turn.
Recover ==
  /\ pc = "route" /\ mem.selected # NULL /\ mem.selected \notin view.windows
  /\ Save(Journal([mem EXCEPT !.selected = view.front], Event("window", Step(mem), NULL, NULL)))
  /\ NextTurn
  /\ UNCHANGED <<runs, worker, desktop>>

\* A popup is in front of the selected window: select it and take a new turn.
Route ==
  /\ pc = "route" /\ mem.selected \in view.windows
  /\ \E w \in Routes(mem.selected) :
       Save(Journal([mem EXCEPT !.selected = w], Event("window", Step(mem), NULL, NULL)))
  /\ NextTurn
  /\ UNCHANGED <<runs, worker, desktop>>

\* The worker captures the selected window.
Snapshot ==
  /\ pc = "route" /\ busy = NULL
  /\ mem.selected \in view.windows /\ Routes(mem.selected) = {}
  /\ mem.selected \in open
  /\ shot' = frame
  /\ pc' = "decide"
  /\ UNCHANGED <<disk, mem, left, view, exit, runs, worker, desktop>>

\* Without a selected window the model decides on the window list alone.
NoSnapshot ==
  /\ pc = "route" /\ mem.selected = NULL
  /\ pc' = "decide"
  /\ UNCHANGED <<disk, mem, left, view, shot, exit, runs, worker, desktop>>

\* Mutant: the window list waits for a busy worker.
CallFailsRouting ==
  /\ pc = "route" /\ mem.selected \in view.windows /\ (busy # NULL \/ mem.selected \notin open)
  /\ Exit("crash") /\ mem' = disk
  /\ UNCHANGED <<disk, runs, worker, desktop>>

\* A read request fails - the worker answers busy, or the window is no longer
\* what it was: RuntimeError ends the run.
CallFails ==
  /\ \/ pc = "turn" /\ left > 0 /\ busy # NULL
     \/ pc = "route" /\ mem.selected \in view.windows /\ (busy # NULL \/ mem.selected \notin open)
  /\ Exit("crash") /\ mem' = disk
  /\ UNCHANGED <<disk, runs, worker, desktop>>

SelectWindow ==
  /\ pc = "decide"
  /\ \E w \in view.windows :
       Save(Journal([mem EXCEPT !.selected = w], Event("decision", Step(mem), NULL, NULL)))
  /\ NextTurn
  /\ UNCHANGED <<runs, worker, desktop>>

Wait ==
  /\ pc = "decide"
  /\ Save(Journal(mem, Event("decision", Step(mem), NULL, NULL)))
  /\ NextTurn
  /\ UNCHANGED <<runs, worker, desktop>>

\* Mutant: the mission is completed one goal early.
GoalDoneEarly ==
  [mem EXCEPT !.goals[mem.goal] = "completed", !.goal = @ + 1,
              !.status = IF mem.goal + 1 >= NumGoals THEN "completed" ELSE @]

\* The active goal is proven: the next one becomes active, the last one
\* completes the mission and ends the run.
GoalDone ==
  [mem EXCEPT !.goals[mem.goal] = "completed", !.goal = @ + 1,
              !.status = IF mem.goal = NumGoals THEN "completed" ELSE @]

Done ==
  /\ pc = "decide"
  /\ Save(Journal(GoalDone, Event("decision", Step(mem), NULL, NULL)))
  /\ IF mem.goal = NumGoals THEN Exit("completed") ELSE NextTurn
  /\ UNCHANGED <<runs, worker, desktop>>

Failed ==
  /\ pc = "decide"
  /\ Save(Journal([mem EXCEPT !.goals[mem.goal] = "failed", !.status = "failed"],
                  Event("decision", Step(mem), NULL, NULL)))
  /\ Exit("failed")
  /\ UNCHANGED <<runs, worker, desktop>>

\* The very same input was journalled before: count it and refuse.  At the second
\* one the run pauses (a second write of the file) for an operator.
Block ==
  /\ pc = "decide" /\ shot # NULL
  /\ \E o \in Ops :
       LET sig == [frame |-> shot, window |-> mem.selected, ops |-> o]
       IN /\ Attempted(mem, sig)
          /\ Save(Journal([mem EXCEPT !.blocked = @ + 1], Event("blocked", Step(mem), sig, NULL)))
  /\ IF mem.blocked + 1 >= 2
       THEN pc' = "review" /\ Forget /\ UNCHANGED <<left, exit>>
       ELSE NextTurn
  /\ UNCHANGED <<runs, worker, desktop>>

\* Mutant: the intent goes into the dictionary only.
IntendInMemory ==
  /\ pc = "decide" /\ shot # NULL
  /\ \E o \in Ops :
       LET sig == [frame |-> shot, window |-> mem.selected, ops |-> o]
       IN /\ ~Attempted(mem, sig)
          /\ mem' = Journal([mem EXCEPT !.blocked = 0], Event("intent", Step(mem), sig, NULL))
  /\ pc' = "send" /\ Forget
  /\ UNCHANGED <<disk, left, exit, runs, worker, desktop>>

\* A new input: the intent is made durable.
Intend ==
  /\ pc = "decide" /\ shot # NULL
  /\ \E o \in Ops :
       LET sig == [frame |-> shot, window |-> mem.selected, ops |-> o]
       IN /\ ~Attempted(mem, sig)
          /\ Save(Journal([mem EXCEPT !.blocked = 0], Event("intent", Step(mem), sig, NULL)))
  /\ pc' = "send" /\ Forget
  /\ UNCHANGED <<left, exit, runs, worker, desktop>>

\* The request leaves for the worker; its checkpoint is the step of the intent.
Last(s) == s.events[Len(s.events)]

Send ==
  /\ pc = "send"
  /\ net' = net \cup {[step |-> Last(mem).step, sig |-> Last(mem).sig]}
  /\ answer' = NULL
  /\ pc' = "await"
  /\ UNCHANGED <<disk, mem, left, view, shot, exit, runs, busy, executed, desktop>>

Outcome(how) ==
  /\ pc = "await"
  /\ Save(Journal(mem, Event("outcome", Last(mem).step, NULL, how)))
  /\ answer' = NULL
  /\ NextTurn
  /\ UNCHANGED <<runs, net, busy, executed, desktop>>

\* The worker answered in time.
Answered == answer # NULL /\ Outcome(answer)

\* Mutant: an input without an answer is taken to have worked.
NoAnswerPresumed == Outcome("performed")

\* It did not (30 s), or the request never got through: an error outcome.
NoAnswer == Outcome("error")

\* max_steps is used up, or the operator is to look.
Pause ==
  /\ (pc = "turn" /\ left = 0) \/ pc = "review"
  /\ Save([mem EXCEPT !.status = "paused"])
  /\ Exit(IF pc = "review" THEN "review" ELSE "paused")
  /\ UNCHANGED <<runs, worker, desktop>>

\* The process is killed, or an exception run does not catch ends it: the model
\* or the worker cannot be reached, a connection is reset, a write fails.
Crash ==
  /\ pc # "down"
  /\ Exit("crash") /\ mem' = disk
  /\ UNCHANGED <<disk, runs, worker, desktop>>

-----------------------------------------------------------------------------
(* The worker and the desktop, as far as the controller can tell. *)

\* An answer reaches the controller only while it waits for this very input.
Tell(how) ==
  answer' = IF pc = "await" /\ Last(mem).step = busy.step THEN how ELSE answer

\* The worker begins to execute a request; it may have been on its way long.
WorkerStart ==
  /\ busy = NULL
  /\ \E m \in net : busy' = m /\ net' = net \ {m}
  /\ UNCHANGED <<controller, answer, executed, desktop>>

\* The input reaches the desktop, which may change in any way; the answer is a
\* result, or an error after the fact.
WorkerAct ==
  /\ busy # NULL
  /\ executed' = Append(executed, busy)
  /\ busy' = NULL
  /\ \E how \in Outcomes \ {"unperformed"} : Tell(how)
  /\ open' \in {Windows, Windows \ Popups} /\ front' \in open' \cup {NULL} /\ frame' \in Frames
  /\ UNCHANGED <<controller, net>>

\* The worker refuses the request, or the input does not reach the desktop.
WorkerRefuse ==
  /\ busy # NULL
  /\ busy' = NULL
  /\ \E how \in Outcomes \ {"performed"} : Tell(how)
  /\ UNCHANGED <<controller, net, executed, desktop>>

\* The worker process ends: what it was doing is forgotten, nobody answers.
WorkerCrash ==
  /\ busy # NULL
  /\ busy' = NULL
  /\ UNCHANGED <<controller, net, answer, executed, desktop>>

\* A request or an answer is lost on the way.
Lose ==
  /\ \/ \E m \in net : net' = net \ {m} /\ UNCHANGED answer
     \/ answer # NULL /\ answer' = NULL /\ UNCHANGED net
  /\ UNCHANGED <<controller, busy, executed, desktop>>

\* The application repaints, opens or closes a window, or loses the foreground.
Repaint ==
  /\ open' \in {Windows, Windows \ Popups} /\ front' \in open' \cup {NULL} /\ frame' \in Frames
  /\ UNCHANGED <<controller, worker>>

Turn ==
  \/ ListWindows \/ Recover \/ Route \/ Snapshot \/ NoSnapshot \/ CallFails
  \/ SelectWindow \/ Wait \/ Done \/ Failed \/ Block \/ Intend
  \/ Send \/ Answered \/ NoAnswer \/ Pause
Environment == WorkerStart \/ WorkerAct \/ WorkerRefuse \/ WorkerCrash \/ Lose \/ Repaint

Next == Launch \/ Turn \/ Crash \/ Environment

Spec == Init /\ [][Next]_vars

\* A launched controller keeps running; the model and the worker calls it makes
\* have timeouts, so each of its steps comes.  The worker owes nothing.
FairSpec == Spec /\ WF_vars(Turn)

-----------------------------------------------------------------------------
(* The mission seen by its operator: the signatures of the journalled intents, *)
(* of the inputs the desktop took and of those the journal calls performed,    *)
(* and how many goals the file holds as proven.                                *)

IntendedInputs ==
  {disk.events[i].sig : i \in {j \in 1..Len(disk.events) : disk.events[j].event = "intent"}}
TakenInputs == [k \in 1..Len(executed) |-> executed[k].sig]
PerformedInputs ==
  {disk.events[i].sig :
     i \in {j \in 1..(Len(disk.events) - 1) :
              disk.events[j + 1].event = "outcome" /\ disk.events[j + 1].how = "performed"}}

Ledger == INSTANCE MissionLedger WITH
  Inputs <- Signatures, Goals <- NumGoals,
  intended <- IntendedInputs, taken <- TakenInputs, performed <- PerformedInputs,
  proven <- disk.goal - 1

-----------------------------------------------------------------------------
(* Properties. *)

\* Every behaviour of the mission, with its launches, crashes, losses and
\* restarts, is one the ledger allows (run with _append_event over the state
\* file).
LedgerRefinement == Ledger!LedgerSpec

\* Every variable keeps its type.
TypeOK ==
  /\ disk \in States /\ mem \in States
  /\ pc \in {"down", "turn", "route", "decide", "send", "await", "review"}
  /\ left \in 0..MaxSteps
  /\ view \in [windows: SUBSET Windows, front: Windows \cup {NULL}]
  /\ shot \in Frames \cup {NULL}
  /\ exit \in {"none", "crash", "completed", "failed", "paused", "review"}
  /\ runs \in 0..MaxRuns
  /\ net \subseteq [step: Nat, sig: Signatures]
  /\ busy \in [step: Nat, sig: Signatures] \cup {NULL}
  /\ answer \in Outcomes \cup {NULL}
  /\ executed \in Seq([step: Nat, sig: Signatures])
  /\ open \subseteq Windows /\ front \in open \cup {NULL} /\ frame \in Frames

\* The same operations on the same window and the same pixels reach the desktop
\* at most once, however often the command is launched, whatever is lost, late
\* or killed (_input_attempt_count over the durable journal).
AtMostOnce ==
  \A i, j \in 1..Len(executed) : i # j =>
    executed[i].sig # executed[j].sig /\ executed[i].step # executed[j].step

\* "durably logs intent before mutation": whatever the worker has, does or did
\* is an intent in the state file, under its own step.
IntentBeforeMutation ==
  \A m \in net \cup {executed[i] : i \in 1..Len(executed)} \cup {b \in {busy} : b # NULL} :
    /\ m.step \in 1..Len(disk.events)
    /\ disk.events[m.step] = Event("intent", m.step, m.sig, NULL)

\* An outcome directly follows its intent, and an input it calls performed did
\* reach the desktop.
OutcomeFaithful ==
  \A i \in 1..Len(disk.events) : disk.events[i].event = "outcome" =>
    /\ disk.events[i].step = i - 1
    /\ disk.events[i-1].event = "intent"
    /\ disk.events[i].how = "performed" =>
         \E k \in 1..Len(executed) : executed[k].step = i - 1

\* Goals are completed in order: the active index splits the completed ones from
\* the rest, and the mission is completed exactly when none is left.
GoalsInOrder ==
  \A s \in {disk, mem} :
    /\ \A g \in 1..NumGoals : s.goals[g] = "completed" <=> g < s.goal
    /\ s.status = "completed" <=> s.goal = NumGoals + 1

\* The file never loses what it held: the journal grows at its end, the active
\* goal never goes back and a completed mission is never reopened.
NothingLost ==
  [][/\ Len(disk'.events) >= Len(disk.events)
     /\ \A i \in 1..Len(disk.events) : disk'.events[i] = disk.events[i]
     /\ disk'.goal >= disk.goal
     /\ disk.status = "completed" => disk' = disk]_disk

\* Every launched run ends within its max_steps turns, whether the worker answers
\* or not.
RunEnds == pc # "down" ~> pc = "down"
=============================================================================
