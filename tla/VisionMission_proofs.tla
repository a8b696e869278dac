------------------------ MODULE VisionMission_proofs ------------------------
(***************************************************************************)
(* Theorems about VisionMission, for any windows, frames and operations,    *)
(* any number of goals, turns and launches.                                 *)
(***************************************************************************)
EXTENDS VisionMission, TLAPS

USE NullAssumption, OwnerAssumption, BoundsAssumption

Inputs == [step: Nat, sig: Signatures]

\* The inputs the network has, the worker executes or the desktop took.
InFlight ==
  net \cup {executed[i] : i \in 1..Len(executed)} \cup {b \in {busy} : b # NULL}

\* A run in progress has an active goal.
Running == pc # "down" => mem.status = "running"

\* The dictionary and the file hold the same journal and the same active goal.
Mirrored == mem.events = disk.events /\ mem.goal = disk.goal

\* There is a frame only of a selected window.
ShotPinned == shot # NULL => pc = "decide" /\ mem.selected \in Windows

\* No two intents of the journal have the same signature.
IntentsDiffer ==
  \A i, j \in 1..Len(disk.events) :
    /\ disk.events[i].event = "intent" /\ disk.events[j].event = "intent"
    /\ disk.events[i].sig = disk.events[j].sig
    => i = j

\* An input is in one place: still on its way, with the worker, or executed once.
FlightApart ==
  /\ \A m, n \in net : m.step = n.step => m = n
  /\ \A i, j \in 1..Len(executed) : executed[i].step = executed[j].step => i = j
  /\ \A m \in net : \A i \in 1..Len(executed) : executed[i].step # m.step
  /\ busy # NULL =>
       /\ \A m \in net : m.step # busy.step
       /\ \A i \in 1..Len(executed) : executed[i].step # busy.step

\* What is about to be sent is the intent journalled last, and was never sent.
SendReady ==
  pc = "send" =>
    /\ disk.events # << >>
    /\ Last(disk).sig \in Signatures
    /\ Last(disk) = Event("intent", Len(disk.events), Last(disk).sig, NULL)
    /\ \A m \in InFlight : m.step # Len(disk.events)

AwaitReady == pc = "await" => disk.events # << >>

\* The entry about to be sent carries a signature.
SendTyped ==
  pc = "send" =>
    disk.events # << >> /\ Last(disk).sig \in Signatures /\ Last(disk).step \in Nat

\* The turn that is on is one of the turns left.
TurnCounted == pc \in {"route", "decide", "send", "await"} => left > 0

\* The goals of one state are completed in order.
Ordered(s) ==
  /\ \A g \in 1..NumGoals : s.goals[g] = "completed" <=> g < s.goal
  /\ s.status = "completed" <=> s.goal = NumGoals + 1

\* The types of everything but the dictionary and its file.
RestType ==
  /\ pc \in {"down", "turn", "route", "decide", "send", "await", "review"}
  /\ left \in 0..MaxSteps
  /\ view \in [windows: SUBSET Windows, front: Windows \cup {NULL}]
  /\ shot \in Frames \cup {NULL}
  /\ exit \in {"none", "crash", "completed", "failed", "paused", "review"}
  /\ runs \in 0..MaxRuns
  /\ net \subseteq [step: Nat, sig: Signatures]
  /\ busy \in [step: Nat, sig: Signatures] \cup {NULL}
  /\ answer \in Outcomes \cup {NULL}
  /\ executed \in Seq([step: Nat, sig: Signatures])
  /\ open \subseteq Windows /\ front \in open \cup {NULL} /\ frame \in Frames

\* Everything about the state dictionary, its file and the controller's place.
ControlInv ==
  /\ disk \in States /\ mem \in States /\ RestType
  /\ Ordered(disk) /\ Ordered(mem)
  /\ Running /\ Mirrored /\ ShotPinned /\ AwaitReady /\ TurnCounted /\ SendTyped

\* Everything about the inputs the journal stands for.
InputInv == IntentBeforeMutation /\ IntentsDiffer /\ FlightApart /\ SendReady

MissionInv == ControlInv /\ InputInv

(***************************************************************************)
(* What the invariant says of the properties of VisionMission.              *)
(***************************************************************************)
LEMMA ControlMeans == ControlInv => TypeOK /\ GoalsInOrder
  BY DEF ControlInv, RestType, Ordered, TypeOK, GoalsInOrder

(***************************************************************************)
(* The entry a turn appends is an entry.                                    *)
(***************************************************************************)
LEMMA EventType ==
  ASSUME NEW k \in Kinds, NEW n \in Nat, NEW sig \in Signatures \cup {NULL},
         NEW how \in Outcomes \cup {NULL}
  PROVE  /\ Event(k, n, sig, how) \in Events
         /\ Event(k, n, sig, how).event = k
  BY DEF Event, Events

(***************************************************************************)
(* _append_event adds one entry at the end and touches nothing else.        *)
(***************************************************************************)
LEMMA JournalGrows ==
  ASSUME NEW s \in States, NEW e \in Events
  PROVE  /\ Journal(s, e) \in States
         /\ Journal(s, e).events = Append(s.events, e)
         /\ Journal(s, e).events # << >>
         /\ Journal(s, e).goal = s.goal
         /\ Journal(s, e).goals = s.goals
         /\ Journal(s, e).status = s.status
         /\ Journal(s, e).selected = s.selected
         /\ Journal(s, e).blocked = s.blocked
<1>1. s.events \in Seq(Events)
  BY DEF States
<1>2. Append(s.events, e) \in Seq(Events) /\ Len(Append(s.events, e)) = Len(s.events) + 1
  BY <1>1
<1>3. Append(s.events, e) # << >>
  BY <1>1, <1>2
<1> QED
  BY <1>2, <1>3 DEF Journal, States

(***************************************************************************)
(* A run in progress has an active goal, in the dictionary and in the file. *)
(***************************************************************************)
LEMMA ActiveGoal ==
  ASSUME ControlInv, pc # "down"
  PROVE  /\ mem.goal \in 1..NumGoals /\ mem.status = "running"
         /\ disk.status # "completed"
         /\ Step(mem) \in Nat /\ Step(mem) = Len(disk.events) + 1
  BY DEF ControlInv, Ordered, Running, Mirrored, States, Step

(***************************************************************************)
(* Writing a well-formed state keeps the invariant of dictionary and file.  *)
(***************************************************************************)
LEMMA SaveKeepsControl ==
  ASSUME NEW s \in States, Ordered(s), Save(s), RestType', shot' = NULL,
         pc' # "down" => s.status = "running",
         \/ pc' \in {"turn", "down", "review"}
         \/ pc' = "send" /\ left' > 0 /\ s.events # << >>
            /\ Last(s).sig \in Signatures /\ Last(s).step \in Nat
  PROVE  ControlInv'
  BY DEF ControlInv, Save, Ordered, Running, Mirrored, ShotPinned, AwaitReady, TurnCounted, SendTyped

(***************************************************************************)
(* The first state.                                                         *)
(***************************************************************************)
LEMMA InitControl == Init => ControlInv
<1> SUFFICES ASSUME Init PROVE ControlInv
  OBVIOUS
<1>1. Fresh \in States
  BY DEF Fresh, States, Statuses, GoalStatuses
<1>2. Ordered(Fresh)
  BY DEF Fresh, Ordered
<1>3. RestType
  BY DEF Init, RestType, NoView
<1> QED
  BY <1>1, <1>2, <1>3
  DEF Init, ControlInv, Running, Mirrored, ShotPinned, AwaitReady, TurnCounted, SendTyped

(***************************************************************************)
(* _load_state gives a well-formed state back, with its journal and goal.   *)
(***************************************************************************)
LEMMA LoadKeeps ==
  ASSUME ControlInv
  PROVE  /\ LoadState(disk) \in States /\ Ordered(LoadState(disk))
         /\ LoadState(disk).events = disk.events /\ LoadState(disk).goal = disk.goal
         /\ disk.status = "completed" => LoadState(disk) = disk
         /\ disk.status # "completed" => LoadState(disk).status = "running"
  BY DEF ControlInv, LoadState, States, Statuses, Ordered

(***************************************************************************)
(* The states the turns of a run write.                                     *)
(***************************************************************************)
LEMMA SelectKeeps ==
  ASSUME ControlInv, pc # "down", NEW w \in Windows \cup {NULL},
         NEW k \in {"window", "decision"}
  PROVE  LET s == Journal([mem EXCEPT !.selected = w], Event(k, Step(mem), NULL, NULL))
         IN  s \in States /\ Ordered(s) /\ s.status = "running"
<1> DEFINE t == [mem EXCEPT !.selected = w]
           e == Event(k, Step(mem), NULL, NULL)
<1>1. t \in States /\ t.goal = mem.goal /\ t.goals = mem.goals /\ t.status = mem.status
  BY DEF ControlInv, States
<1>2. e \in Events
  BY EventType, ActiveGoal DEF Kinds
<1> HIDE DEF t, e
<1>3. /\ Journal(t, e) \in States /\ Journal(t, e).goal = mem.goal
      /\ Journal(t, e).goals = mem.goals /\ Journal(t, e).status = mem.status
  BY <1>1, <1>2, JournalGrows
<1>4. Ordered(Journal(t, e)) /\ Journal(t, e).status = "running"
  BY <1>3, ActiveGoal DEF ControlInv, Ordered
<1> QED
  BY <1>3, <1>4 DEF t, e

(***************************************************************************)
(* A turn that only journals and counts refusals writes a well-formed       *)
(* state.                                                                   *)
(***************************************************************************)
LEMMA EntryKeeps ==
  ASSUME ControlInv, pc # "down", NEW e \in Events, NEW b \in Nat
  PROVE  LET s == Journal([mem EXCEPT !.blocked = b], e)
         IN  /\ s \in States /\ Ordered(s) /\ s.status = "running"
             /\ s.events = Append(mem.events, e) /\ s.events # << >>
             /\ s.goal = mem.goal
<1> DEFINE t == [mem EXCEPT !.blocked = b]
<1>1. /\ t \in States /\ t.goal = mem.goal /\ t.goals = mem.goals
      /\ t.status = mem.status /\ t.events = mem.events
  BY DEF ControlInv, States
<1> HIDE DEF t
<1>2. /\ Journal(t, e) \in States /\ Journal(t, e).goal = mem.goal
      /\ Journal(t, e).goals = mem.goals /\ Journal(t, e).status = mem.status
      /\ Journal(t, e).events = Append(mem.events, e) /\ Journal(t, e).events # << >>
  BY <1>1, JournalGrows
<1>3. Ordered(Journal(t, e)) /\ Journal(t, e).status = "running"
  BY <1>2, ActiveGoal DEF ControlInv, Ordered
<1> QED
  BY <1>2, <1>3 DEF t

(***************************************************************************)
(* The two ways a goal ends.                                                *)
(***************************************************************************)
LEMMA GoalDoneKeeps ==
  ASSUME ControlInv, pc # "down"
  PROVE  /\ GoalDone \in States /\ GoalDone.goal = mem.goal + 1
         /\ GoalDone.status = IF mem.goal = NumGoals THEN "completed" ELSE "running"
         /\ \A g \in 1..NumGoals :
              GoalDone.goals[g] = IF g = mem.goal THEN "completed" ELSE mem.goals[g]
         /\ GoalDone.events = mem.events
<1>1. mem.goal \in 1..NumGoals /\ mem.status = "running"
  BY ActiveGoal
<1>2. /\ GoalDone.goals = [mem.goals EXCEPT ![mem.goal] = "completed"]
      /\ GoalDone.goal = mem.goal + 1
      /\ GoalDone.status = IF mem.goal = NumGoals THEN "completed" ELSE mem.status
      /\ GoalDone.events = mem.events
  BY <1>1 DEF GoalDone, ControlInv, States
<1>3. GoalDone = [mem EXCEPT !.goals = GoalDone.goals, !.goal = GoalDone.goal,
                             !.status = GoalDone.status]
  BY <1>2 DEF GoalDone, ControlInv, States
<1>4. PICK gs \in [1..NumGoals -> GoalStatuses], g \in 1..(NumGoals + 1), st \in Statuses :
        gs = GoalDone.goals /\ g = GoalDone.goal /\ st = GoalDone.status
  <2>1. /\ GoalDone.goals \in [1..NumGoals -> GoalStatuses]
        /\ GoalDone.goal \in 1..(NumGoals + 1) /\ GoalDone.status \in Statuses
    BY <1>1, <1>2 DEF ControlInv, States, GoalStatuses, Statuses
  <2> QED
    BY <2>1
<1>5. [mem EXCEPT !.goals = gs, !.goal = g, !.status = st] \in States
  BY DEF ControlInv, States
<1>6. GoalDone \in States
  BY <1>3, <1>4, <1>5
<1>7. \A h \in 1..NumGoals :
        GoalDone.goals[h] = IF h = mem.goal THEN "completed" ELSE mem.goals[h]
  BY <1>1, <1>2 DEF ControlInv, States
<1> QED
  BY <1>1, <1>2, <1>6, <1>7

\* The state Failed journals.
GoalFailed == [mem EXCEPT !.goals[mem.goal] = "failed", !.status = "failed"]

(***************************************************************************)
(* A failed goal stays the active one.                                      *)
(***************************************************************************)
LEMMA GoalFailedKeeps ==
  ASSUME ControlInv, pc # "down"
  PROVE  /\ GoalFailed \in States /\ GoalFailed.goal = mem.goal
         /\ GoalFailed.status = "failed"
         /\ \A g \in 1..NumGoals :
              GoalFailed.goals[g] = IF g = mem.goal THEN "failed" ELSE mem.goals[g]
         /\ GoalFailed.events = mem.events
  BY ActiveGoal DEF GoalFailed, ControlInv, States, GoalStatuses, Statuses

(***************************************************************************)
(* Where a run goes when it takes the next turn or ends.                    *)
(***************************************************************************)
LEMMA Leaving ==
  ASSUME ControlInv, pc # "down",
         \/ NextTurn /\ pc \notin {"turn", "review"}
         \/ \E code \in {"crash", "completed", "failed", "paused", "review"} : Exit(code),
         answer' \in Outcomes \cup {NULL}, UNCHANGED <<runs, net, busy, executed, desktop>>
  PROVE  RestType' /\ shot' = NULL /\ pc' \in {"turn", "down"}
  BY DEF ControlInv, RestType, TurnCounted, NextTurn, Exit, Forget, NoView, desktop

(***************************************************************************)
(* Every step keeps the dictionary, its file and the place well-formed.     *)
(***************************************************************************)
LEMMA NextControl == ControlInv /\ [Next]_vars => ControlInv'
<1> SUFFICES ASSUME ControlInv, [Next]_vars PROVE ControlInv'
  OBVIOUS
<1>a. answer \in Outcomes \cup {NULL}
  BY DEF ControlInv, RestType
<1>1. CASE Launch
  <2>1. /\ LoadState(disk) \in States /\ Ordered(LoadState(disk))
        /\ LoadState(disk).events = disk.events /\ LoadState(disk).goal = disk.goal
        /\ disk.status # "completed" => LoadState(disk).status = "running"
    BY LoadKeeps
  <2>2. /\ mem' \in States /\ disk' \in States
        /\ mem'.events = disk'.events /\ mem'.goal = disk'.goal
    BY <1>1, <2>1 DEF Launch, ControlInv
  <2>3. Ordered(mem)' /\ Ordered(disk)'
    <3>1. \A t : Ordered(t) /\ (mem' = t) => Ordered(mem)'
      BY DEF Ordered
    <3>2. \A t : Ordered(t) /\ (disk' = t) => Ordered(disk)'
      BY DEF Ordered
    <3> QED
      BY <1>1, <2>1, <3>1, <3>2 DEF Launch, ControlInv
  <2>4. RestType'
    BY <1>1 DEF Launch, ControlInv, RestType, Exit, Forget, NoView, worker, desktop
  <2>m. mem' = LoadState(disk)
    BY <1>1 DEF Launch
  <2>n. pc' = "down" \/ (pc' = "turn" /\ disk.status # "completed")
    BY <1>1 DEF Launch, Exit
  <2>5. pc' = "down" \/ (pc' = "turn" /\ mem'.status = "running")
    BY <2>m, <2>n, <2>1
  <2>6. shot' # NULL => pc' = "decide" /\ mem'.selected \in Windows
    BY <1>1 DEF Launch, ControlInv, ShotPinned, Exit, Forget
  <2> QED
    BY <2>2, <2>3, <2>4, <2>5, <2>6
    DEF ControlInv, Running, Mirrored, ShotPinned, AwaitReady, TurnCounted, SendTyped
<1>2. CASE ListWindows
  <2>1. mem.goal \in 1..NumGoals /\ mem.status = "running"
    BY <1>2, ActiveGoal DEF ListWindows
  <2>2. /\ mem' \in States /\ mem'.status = mem.status
        /\ mem'.goal = mem.goal /\ mem'.events = mem.events
        /\ \A g \in 1..NumGoals :
             mem'.goals[g] = IF g = mem.goal THEN "in_progress" ELSE mem.goals[g]
    BY <1>2, <2>1 DEF ListWindows, ControlInv, States, GoalStatuses
  <2>3. Ordered(mem)'
    BY <2>1, <2>2 DEF ControlInv, Ordered
  <2>4. RestType' /\ pc' = "route" /\ left' > 0 /\ shot' = NULL /\ disk' = disk
    BY <1>2 DEF ListWindows, ControlInv, RestType, worker, desktop
  <2> QED
    BY <2>1, <2>2, <2>3, <2>4
    DEF ControlInv, Ordered, Running, Mirrored, ShotPinned, AwaitReady, TurnCounted, SendTyped
<1>3. CASE Recover \/ Route \/ SelectWindow
  <2>1. /\ pc \in {"route", "decide"} /\ NextTurn /\ UNCHANGED <<runs, worker, desktop>>
        /\ \E w \in Windows \cup {NULL}, k \in {"window", "decision"} :
             Save(Journal([mem EXCEPT !.selected = w], Event(k, Step(mem), NULL, NULL)))
    BY <1>3 DEF Recover, Route, Routes, SelectWindow, ControlInv, RestType
  <2>2. RestType' /\ shot' = NULL /\ pc' = "turn"
    BY <1>a, <2>1, Leaving DEF NextTurn, worker
  <2>3. PICK w \in Windows \cup {NULL}, k \in {"window", "decision"} :
          Save(Journal([mem EXCEPT !.selected = w], Event(k, Step(mem), NULL, NULL)))
    BY <2>1
  <2> DEFINE s == Journal([mem EXCEPT !.selected = w], Event(k, Step(mem), NULL, NULL))
  <2>4. s \in States /\ Ordered(s) /\ s.status = "running" /\ Save(s)
    BY <2>1, <2>3, SelectKeeps
  <2> HIDE DEF s
  <2> QED
    BY <2>2, <2>4, SaveKeepsControl
<1>4. CASE Snapshot \/ NoSnapshot
  <2>1. RestType' /\ left' = left /\ pc' = "decide" /\ UNCHANGED <<mem, disk>>
    BY <1>4 DEF Snapshot, NoSnapshot, ControlInv, RestType, worker, desktop
  <2>2. shot' # NULL => mem.selected \in Windows
    BY <1>4 DEF Snapshot, NoSnapshot, ControlInv, RestType, ShotPinned
  <2>3. left > 0 /\ pc # "down"
    BY <1>4 DEF Snapshot, NoSnapshot, ControlInv, TurnCounted
  <2> QED
    BY <2>1, <2>2, <2>3
    DEF ControlInv, Ordered, Running, Mirrored, ShotPinned, AwaitReady, TurnCounted, SendTyped
<1>5. CASE CallFails \/ Crash
  <2>1. pc # "down" /\ Exit("crash") /\ mem' = disk /\ UNCHANGED <<disk, runs, worker, desktop>>
    BY <1>5 DEF CallFails, Crash
  <2>2. RestType' /\ shot' = NULL
    BY <1>a, <2>1, Leaving DEF worker
  <2> QED
    BY <2>1, <2>2
    DEF ControlInv, Exit, Ordered, Running, Mirrored, ShotPinned, AwaitReady, TurnCounted, SendTyped
<1>6. CASE Wait
  <2>1. mem.blocked \in Nat /\ [mem EXCEPT !.blocked = mem.blocked] = mem
    BY DEF ControlInv, States
  <2>2. Event("decision", Step(mem), NULL, NULL) \in Events
    BY <1>6, EventType, ActiveGoal DEF Wait, Kinds
  <2>3. RestType' /\ shot' = NULL /\ pc' = "turn"
    BY <1>6, <1>a, Leaving DEF Wait, NextTurn, worker
  <2> DEFINE s == Journal(mem, Event("decision", Step(mem), NULL, NULL))
  <2>4. s \in States /\ Ordered(s) /\ s.status = "running" /\ Save(s)
    BY <1>6, <2>1, <2>2, EntryKeeps DEF Wait
  <2> HIDE DEF s
  <2> QED
    BY <2>3, <2>4, SaveKeepsControl
<1>7. CASE Done
  <2> DEFINE e == Event("decision", Step(mem), NULL, NULL)
             s == Journal(GoalDone, e)
  <2>1. /\ mem.goal \in 1..NumGoals /\ mem.status = "running" /\ e \in Events
    BY <1>7, EventType, ActiveGoal DEF Done, Kinds
  <2>2. /\ GoalDone \in States /\ GoalDone.goal = mem.goal + 1
        /\ GoalDone.status = IF mem.goal = NumGoals THEN "completed" ELSE "running"
        /\ \A g \in 1..NumGoals :
             GoalDone.goals[g] = IF g = mem.goal THEN "completed" ELSE mem.goals[g]
    BY <1>7, GoalDoneKeeps DEF Done
  <2>3. Save(s)
    BY <1>7 DEF Done
  <2> HIDE DEF e
  <2>4. /\ s \in States /\ s.goal = GoalDone.goal /\ s.goals = GoalDone.goals
        /\ s.status = GoalDone.status
    BY <2>1, <2>2, JournalGrows
  <2>5. Ordered(s)
    BY <2>1, <2>2, <2>4 DEF ControlInv, Ordered
  <2>6. \/ pc' = "down"
        \/ NextTurn /\ mem.goal # NumGoals
    BY <1>7 DEF Done, Exit
  <2>7. RestType' /\ shot' = NULL /\ pc' \in {"turn", "down"}
    <3>1. /\ pc = "decide" /\ UNCHANGED <<runs, worker, desktop>>
          /\ NextTurn \/ Exit("completed")
      BY <1>7 DEF Done
    <3> QED
      BY <1>a, <3>1, Leaving DEF worker
  <2>8. pc' # "down" => s.status = "running"
    BY <2>2, <2>4, <2>6
  <2> HIDE DEF s
  <2> QED
    BY <2>3, <2>4, <2>5, <2>7, <2>8, SaveKeepsControl
<1>8. CASE Failed
  <2> DEFINE e == Event("decision", Step(mem), NULL, NULL)
             s == Journal(GoalFailed, e)
  <2>1. /\ mem.goal \in 1..NumGoals /\ mem.status = "running" /\ e \in Events
    BY <1>8, EventType, ActiveGoal DEF Failed, Kinds
  <2>2. /\ GoalFailed \in States /\ GoalFailed.goal = mem.goal
        /\ GoalFailed.status = "failed"
        /\ \A g \in 1..NumGoals :
             GoalFailed.goals[g] = IF g = mem.goal THEN "failed" ELSE mem.goals[g]
    BY <1>8, GoalFailedKeeps DEF Failed
  <2>3. Save(s)
    BY <1>8 DEF Failed, GoalFailed
  <2> HIDE DEF e
  <2>4. /\ s \in States /\ s.goal = GoalFailed.goal /\ s.goals = GoalFailed.goals
        /\ s.status = GoalFailed.status
    BY <2>1, <2>2, JournalGrows
  <2>5. Ordered(s)
    BY <2>1, <2>2, <2>4 DEF ControlInv, Ordered
  <2>6. RestType' /\ shot' = NULL /\ pc' = "down"
    <3>1. /\ pc = "decide" /\ UNCHANGED <<runs, worker, desktop>> /\ Exit("failed")
      BY <1>8 DEF Failed
    <3> QED
      BY <1>a, <3>1, Leaving DEF worker, Exit
  <2> HIDE DEF s
  <2> QED
    BY <2>3, <2>4, <2>5, <2>6, SaveKeepsControl
<1>9. CASE Block \/ Intend
  <2>1. PICK o \in Ops, k \in {"blocked", "intent"}, b \in {0, mem.blocked + 1} :
          Save(Journal([mem EXCEPT !.blocked = b],
            Event(k, Step(mem), [frame |-> shot, window |-> mem.selected, ops |-> o], NULL)))
    BY <1>9 DEF Block, Intend
  <2> DEFINE sig == [frame |-> shot, window |-> mem.selected, ops |-> o]
             e == Event(k, Step(mem), sig, NULL)
             s == Journal([mem EXCEPT !.blocked = b], e)
  <2>2. pc = "decide" /\ left > 0
    BY <1>9 DEF Block, Intend, ControlInv, TurnCounted
  <2>3. sig \in Signatures
    BY <1>9 DEF Block, Intend, ControlInv, RestType, ShotPinned, Signatures
  <2>4. e \in Events /\ b \in Nat
    <3>1. b \in Nat
      BY DEF ControlInv, States
    <3> QED
      BY <2>2, <2>3, <3>1, EventType, ActiveGoal DEF Kinds
  <2>5. s \in States /\ Ordered(s) /\ s.status = "running" /\ Save(s)
    BY <2>1, <2>2, <2>4, EntryKeeps
  <2>6. RestType' /\ shot' = NULL
        /\ (pc' \in {"turn", "review"} \/ (pc' = "send" /\ left' > 0))
    <3>1. CASE NextTurn /\ Block
      BY <1>a, <2>2, <3>1, Leaving DEF Block, NextTurn, worker
    <3>2. CASE pc' = "review" /\ Block
      BY <3>2 DEF Block, NextTurn, ControlInv, RestType, Forget, NoView, worker, desktop
    <3>3. CASE Intend
      BY <2>2, <3>3 DEF Intend, ControlInv, RestType, Forget, NoView, worker, desktop
    <3> QED
      BY <1>9, <3>1, <3>2, <3>3 DEF Block
  <2>7. s.events # << >> /\ Last(s).sig = sig /\ Last(s).step = Step(mem)
    <3>1. s.events = Append(mem.events, e) /\ mem.events \in Seq(Events) /\ s.events # << >>
      BY <2>2, <2>4, EntryKeeps DEF ControlInv, States
    <3>2. Last(s) = e
      BY <3>1, <2>4 DEF Last
    <3> QED
      BY <3>1, <3>2 DEF Event
  <2> HIDE DEF s, sig
  <2> QED
    BY <2>2, <2>3, <2>5, <2>6, <2>7, ActiveGoal, SaveKeepsControl
<1>10. CASE Send
  <2>1. /\ pc = "send" /\ pc' = "await" /\ answer' = NULL
        /\ UNCHANGED <<disk, mem, left, view, shot, exit, runs, busy, executed, desktop>>
        /\ net' = net \cup {[step |-> Last(mem).step, sig |-> Last(mem).sig]}
    BY <1>10 DEF Send
  <2>2. mem.events # << >> /\ Last(mem).sig \in Signatures /\ Last(mem).step \in Nat
    BY <2>1 DEF ControlInv, SendTyped, Mirrored, Last
  <2>3. RestType'
    BY <2>1, <2>2 DEF ControlInv, RestType, desktop
  <2> QED
    BY <2>1, <2>2, <2>3
    DEF ControlInv, Ordered, Running, Mirrored, ShotPinned, AwaitReady, TurnCounted, SendTyped
<1>11. CASE Answered \/ NoAnswer
  <2>1. PICK how \in Outcomes : Outcome(how)
    BY <1>11 DEF Answered, NoAnswer, Outcomes, ControlInv, RestType
  <2> DEFINE e == Event("outcome", Last(mem).step, NULL, how)
             s == Journal(mem, e)
  <2>2. mem.blocked \in Nat /\ [mem EXCEPT !.blocked = mem.blocked] = mem
    BY DEF ControlInv, States
  <2>3. e \in Events
    <3>1. mem.events # << >> /\ mem.events \in Seq(Events)
      BY <2>1 DEF Outcome, ControlInv, AwaitReady, Mirrored, States
    <3>2. Last(mem) \in Events
      BY <3>1 DEF Last
    <3> QED
      BY <3>2, EventType DEF Events, Kinds
  <2>4. s \in States /\ Ordered(s) /\ s.status = "running" /\ Save(s)
    BY <2>1, <2>2, <2>3, EntryKeeps DEF Outcome
  <2>5. RestType' /\ shot' = NULL /\ pc' = "turn"
    BY <2>1, Leaving DEF Outcome, NextTurn
  <2> HIDE DEF s
  <2> QED
    BY <2>4, <2>5, SaveKeepsControl
<1>12. CASE Pause
  <2> DEFINE s == [mem EXCEPT !.status = "paused"]
  <2>1. pc # "down" /\ Save(s) /\ UNCHANGED <<runs, worker, desktop>>
        /\ \E code \in {"review", "paused"} : Exit(code)
    BY <1>12 DEF Pause
  <2>2. /\ s \in States /\ s.goal = mem.goal /\ s.goals = mem.goals /\ s.status = "paused"
    BY DEF ControlInv, States, Statuses
  <2>3. Ordered(s)
    BY <2>1, <2>2, ActiveGoal DEF ControlInv, Ordered
  <2>4. RestType' /\ shot' = NULL /\ pc' = "down"
    <3>1. PICK code \in {"review", "paused"} : Exit(code)
      BY <2>1
    <3> QED
      BY <1>a, <2>1, <3>1, Leaving DEF worker, Exit
  <2> HIDE DEF s
  <2> QED
    BY <2>1, <2>2, <2>3, <2>4, SaveKeepsControl
<1>13. CASE Environment
  <2>1. UNCHANGED controller
    BY <1>13 DEF Environment, WorkerStart, WorkerAct, WorkerRefuse, WorkerCrash, Lose, Repaint
  <2>2. RestType'
    <3> USE <2>1 DEF ControlInv, RestType, controller, worker, desktop, Outcomes
    <3>1. CASE WorkerStart
      BY <3>1 DEF WorkerStart
    <3>2. CASE WorkerAct
      BY <3>2 DEF WorkerAct, Tell
    <3>3. CASE WorkerRefuse
      BY <3>3 DEF WorkerRefuse, Tell
    <3>4. CASE WorkerCrash \/ Lose
      BY <3>4 DEF WorkerCrash, Lose
    <3>5. CASE Repaint
      BY <3>5 DEF Repaint
    <3> QED
      BY <1>13, <3>1, <3>2, <3>3, <3>4, <3>5 DEF Environment
  <2> QED
    BY <2>1, <2>2
    DEF ControlInv, controller, Ordered, Running, Mirrored, ShotPinned, AwaitReady,
        TurnCounted, SendTyped
<1>14. CASE UNCHANGED vars
  BY <1>14
  DEF vars, controller, worker, desktop, ControlInv, RestType, Ordered, Running, Mirrored,
      ShotPinned, AwaitReady, TurnCounted, SendTyped
<1> QED
  BY <1>1, <1>2, <1>3, <1>4, <1>5, <1>6, <1>7, <1>8, <1>9, <1>10, <1>11, <1>12, <1>13, <1>14
  DEF Next, Turn

(***************************************************************************)
(* A step that leaves the journal and the inputs alone.                     *)
(***************************************************************************)
LEMMA QuietKeepsInputs ==
  ASSUME InputInv, disk'.events = disk.events, UNCHANGED <<net, busy, executed>>,
         pc' = pc \/ pc' # "send"
  PROVE  InputInv'
<1>1. IntentBeforeMutation' /\ IntentsDiffer' /\ FlightApart'
  BY DEF InputInv, IntentBeforeMutation, IntentsDiffer, FlightApart
<1>2. SendReady'
  BY DEF InputInv, SendReady, InFlight, Last
<1> QED
  BY <1>1, <1>2 DEF InputInv

(***************************************************************************)
(* A step that journals anything but an intent.                             *)
(***************************************************************************)
LEMMA EntryKeepsInputs ==
  ASSUME ControlInv, InputInv, UNCHANGED <<net, busy, executed>>, pc' # "send",
         NEW e \in Events, e.event # "intent", disk'.events = Append(disk.events, e)
  PROVE  InputInv'
<1>1. /\ Len(disk'.events) = Len(disk.events) + 1 /\ Len(disk.events) \in Nat
      /\ \A i \in 1..Len(disk.events) : disk'.events[i] = disk.events[i]
      /\ disk'.events[Len(disk.events) + 1] = e
  BY DEF ControlInv, States
<1>2. IntentBeforeMutation'
  BY <1>1 DEF InputInv, IntentBeforeMutation
<1>3. IntentsDiffer'
  BY <1>1 DEF InputInv, IntentsDiffer
<1>4. FlightApart' /\ SendReady'
  BY DEF InputInv, FlightApart, SendReady
<1> QED
  BY <1>2, <1>3, <1>4 DEF InputInv

(***************************************************************************)
(* A new intent, whose signature the journal did not hold, is appended.     *)
(***************************************************************************)
LEMMA IntentAppends ==
  ASSUME ControlInv, Intend
  PROVE  \E sig \in Signatures :
           LET e == Event("intent", Len(disk.events) + 1, sig, NULL)
           IN  /\ e \in Events /\ disk'.events = Append(disk.events, e)
               /\ disk'.goal = disk.goal
               /\ \A i \in 1..Len(disk.events) :
                    ~(disk.events[i].event = "intent" /\ disk.events[i].sig = sig)
<1>1. PICK o \in Ops :
        /\ ~Attempted(mem, [frame |-> shot, window |-> mem.selected, ops |-> o])
        /\ disk' = Journal([mem EXCEPT !.blocked = 0],
             Event("intent", Step(mem), [frame |-> shot, window |-> mem.selected, ops |-> o], NULL))
  BY DEF Intend, Save
<1> DEFINE sig == [frame |-> shot, window |-> mem.selected, ops |-> o]
           e == Event("intent", Step(mem), sig, NULL)
<1>2. pc = "decide" /\ UNCHANGED <<net, busy, executed>>
  BY DEF Intend, worker
<1>3. sig \in Signatures
  BY DEF Intend, ControlInv, RestType, ShotPinned, Signatures
<1>4. /\ disk.events \in Seq(Events) /\ mem.events = disk.events
      /\ Len(disk.events) \in Nat /\ Step(mem) = Len(disk.events) + 1
  BY DEF ControlInv, Mirrored, States, Step
<1>5. e \in Events
  <2>1. Step(mem) \in Nat /\ "intent" \in Kinds
    BY <1>4 DEF Kinds
  <2> HIDE DEF sig
  <2>2. Event("intent", Step(mem), sig, NULL) \in Events
    BY <1>3, <2>1, EventType
  <2> QED
    BY <2>2
<1>6. disk'.events = Append(disk.events, e) /\ disk'.goal = disk.goal
  BY <1>1, <1>2, <1>4, <1>5, EntryKeeps DEF ControlInv, Mirrored
<1>7. e = Event("intent", Len(disk.events) + 1, sig, NULL)
  BY <1>4 DEF Event
<1>8. \A i \in 1..Len(disk.events) :
        ~(disk.events[i].event = "intent" /\ disk.events[i].sig = sig)
  BY <1>1, <1>4 DEF Attempted
<1> HIDE DEF sig
<1> QED
  BY <1>3, <1>5, <1>6, <1>7, <1>8

(***************************************************************************)
(* A step that journals an intent.                                          *)
(***************************************************************************)
LEMMA IntentKeepsInputs ==
  ASSUME ControlInv, InputInv, Intend
  PROVE  InputInv'
<1>1. PICK sig \in Signatures :
        LET e == Event("intent", Len(disk.events) + 1, sig, NULL)
        IN  /\ e \in Events /\ disk'.events = Append(disk.events, e)
            /\ \A i \in 1..Len(disk.events) :
                 ~(disk.events[i].event = "intent" /\ disk.events[i].sig = sig)
  BY IntentAppends
<1> DEFINE e == Event("intent", Len(disk.events) + 1, sig, NULL)
<1>2. UNCHANGED <<net, busy, executed>>
  BY DEF Intend, worker
<1>3. sig \in Signatures
  OBVIOUS
<1>4. disk.events \in Seq(Events) /\ Len(disk.events) \in Nat
  BY DEF ControlInv, States
<1>5. e \in Events
  BY <1>1
<1>6. disk'.events = Append(disk.events, e)
  BY <1>1
<1>7. e.event = "intent" /\ e.sig = sig /\ e = Event("intent", Len(disk.events) + 1, sig, NULL)
  BY DEF Event
<1>8. \A i \in 1..Len(disk.events) :
        ~(disk.events[i].event = "intent" /\ disk.events[i].sig = sig)
  BY <1>1
<1> HIDE DEF e
<1>9. /\ Len(disk'.events) = Len(disk.events) + 1
      /\ \A i \in 1..Len(disk.events) : disk'.events[i] = disk.events[i]
      /\ disk'.events[Len(disk.events) + 1] = e
  BY <1>4, <1>5, <1>6
<1>10. IntentBeforeMutation'
  <2>1. \A m \in InFlight :
          m.step \in 1..Len(disk.events) /\ disk.events[m.step] = Event("intent", m.step, m.sig, NULL)
    BY DEF InputInv, IntentBeforeMutation, InFlight
  <2>2. InFlight' = InFlight
    BY <1>2 DEF InFlight
  <2>3. \A m \in InFlight' :
          /\ m.step \in 1..Len(disk'.events)
          /\ disk'.events[m.step] = Event("intent", m.step, m.sig, NULL)
    BY <1>4, <1>9, <2>1, <2>2
  <2> QED
    BY <2>3 DEF IntentBeforeMutation, InFlight
<1>11. IntentsDiffer'
  <2> SUFFICES ASSUME NEW i \in 1..Len(disk'.events), NEW j \in 1..Len(disk'.events),
                      disk'.events[i].event = "intent", disk'.events[j].event = "intent",
                      disk'.events[i].sig = disk'.events[j].sig
               PROVE  i = j
    BY DEF IntentsDiffer
  <2>1. i \in 1..Len(disk.events) \/ i = Len(disk.events) + 1
    BY <1>4, <1>9
  <2>2. j \in 1..Len(disk.events) \/ j = Len(disk.events) + 1
    BY <1>4, <1>9
  <2>3. CASE i \in 1..Len(disk.events) /\ j \in 1..Len(disk.events)
    BY <1>9, <2>3 DEF InputInv, IntentsDiffer
  <2>4. CASE i \in 1..Len(disk.events) /\ j = Len(disk.events) + 1
    BY <1>7, <1>8, <1>9, <2>4
  <2>5. CASE i = Len(disk.events) + 1 /\ j \in 1..Len(disk.events)
    BY <1>7, <1>8, <1>9, <2>5
  <2> QED
    BY <2>1, <2>2, <2>3, <2>4, <2>5
<1>12. FlightApart'
  BY <1>2 DEF InputInv, FlightApart
<1>13. SendReady'
  <2>1. \A m \in InFlight : m.step \in 1..Len(disk.events)
    BY DEF InputInv, IntentBeforeMutation, InFlight
  <2>2. InFlight' = InFlight
    BY <1>2 DEF InFlight
  <2>3. Last(disk)' = e /\ disk'.events # << >>
    BY <1>4, <1>9 DEF Last
  <2> QED
    BY <1>3, <1>4, <1>7, <1>9, <2>1, <2>2, <2>3 DEF SendReady
<1> QED
  BY <1>10, <1>11, <1>12, <1>13 DEF InputInv

(***************************************************************************)
(* Sending what was journalled last, for the first time.                    *)
(***************************************************************************)
LEMMA SendKeepsInputs ==
  ASSUME ControlInv, InputInv, Send
  PROVE  InputInv'
<1> DEFINE m == [step |-> Last(mem).step, sig |-> Last(mem).sig]
<1>1. /\ pc = "send" /\ pc' = "await" /\ net' = net \cup {m}
      /\ UNCHANGED <<disk, busy, executed>>
  BY DEF Send
<1>2. /\ Last(mem) = Last(disk) /\ disk.events # << >> /\ disk.events \in Seq(Events)
  BY <1>1 DEF ControlInv, Mirrored, Last, InputInv, SendReady, States
<1>3. /\ m.step = Len(disk.events) /\ m.step \in 1..Len(disk.events)
      /\ disk.events[m.step] = Event("intent", m.step, m.sig, NULL)
  BY <1>1, <1>2 DEF InputInv, SendReady, Last, Event
<1>4. \A n \in InFlight : n.step # m.step
  BY <1>1, <1>3 DEF InputInv, SendReady
<1> HIDE DEF m
<1>5. IntentBeforeMutation'
  BY <1>1, <1>3 DEF InputInv, IntentBeforeMutation
<1>6. IntentsDiffer'
  BY <1>1 DEF InputInv, IntentsDiffer
<1>7. FlightApart'
  BY <1>1, <1>4 DEF InputInv, FlightApart, InFlight
<1> QED
  BY <1>1, <1>5, <1>6, <1>7 DEF InputInv, SendReady

(***************************************************************************)
(* What the worker, the network and the desktop do to the inputs.           *)
(***************************************************************************)
LEMMA EnvironmentKeepsInputs ==
  ASSUME ControlInv, InputInv, Environment
  PROVE  InputInv'
<1>1. UNCHANGED <<disk, pc>> /\ executed \in Seq(Inputs)
  BY DEF Environment, WorkerStart, WorkerAct, WorkerRefuse, WorkerCrash, Lose, Repaint,
         controller, ControlInv, RestType, Inputs
<1>2. IntentsDiffer'
  BY <1>1 DEF InputInv, IntentsDiffer
<1>3. ASSUME InFlight' \subseteq InFlight, FlightApart' PROVE InputInv'
  <2>1. IntentBeforeMutation'
    BY <1>1, <1>3 DEF InputInv, IntentBeforeMutation, InFlight
  <2>2. SendReady'
    BY <1>1, <1>3 DEF InputInv, SendReady, Last
  <2> QED
    BY <1>2, <1>3, <2>1, <2>2 DEF InputInv
<1>4. CASE WorkerStart
  BY <1>3, <1>4 DEF WorkerStart, InFlight, InputInv, FlightApart
<1>5. CASE WorkerAct
  <2>1. /\ busy # NULL /\ busy' = NULL /\ net' = net
        /\ executed' = Append(executed, busy) /\ busy \in Inputs
    BY <1>5 DEF WorkerAct, ControlInv, RestType, Inputs
  <2>2. /\ Len(executed') = Len(executed) + 1 /\ Len(executed) \in Nat
        /\ executed'[Len(executed) + 1] = busy
        /\ \A i \in 1..Len(executed) : executed'[i] = executed[i]
    BY <1>1, <2>1
  <2>3. InFlight' \subseteq InFlight
    BY <2>1, <2>2 DEF InFlight
  <2>4. FlightApart'
    BY <2>1, <2>2 DEF InputInv, FlightApart
  <2> QED
    BY <1>3, <2>3, <2>4
<1>6. CASE WorkerRefuse \/ WorkerCrash
  BY <1>3, <1>6 DEF WorkerRefuse, WorkerCrash, InFlight, InputInv, FlightApart
<1>7. CASE Lose
  BY <1>3, <1>7 DEF Lose, InFlight, InputInv, FlightApart
<1>8. CASE Repaint
  BY <1>3, <1>8 DEF Repaint, worker, InFlight, InputInv, FlightApart
<1> QED
  BY <1>4, <1>5, <1>6, <1>7, <1>8 DEF Environment

\* An entry that is no intent is appended to the file, an outcome after a wait only.
Appends ==
  \E e \in Events :
    /\ e.event # "intent" /\ (e.event = "outcome" => Answered \/ NoAnswer)
    /\ disk'.events = Append(disk.events, e)

(***************************************************************************)
(* A turn that writes its state with one entry more appends it to the file. *)
(***************************************************************************)
LEMMA SavedEntry ==
  ASSUME ControlInv, pc # "down", NEW s \in States, s.events = mem.events,
         NEW e \in Events, e.event # "intent", e.event = "outcome" => Answered \/ NoAnswer,
         Save(Journal(s, e))
  PROVE  Appends /\ disk'.goal = s.goal
<1>1. disk' = Journal(s, e) /\ mem.events = disk.events
  BY DEF Save, ControlInv, Mirrored
<1>2. Journal(s, e).events = Append(s.events, e) /\ Journal(s, e).goal = s.goal
  BY JournalGrows
<1>3. disk'.events = Append(disk.events, e) /\ disk'.goal = s.goal
  BY <1>1, <1>2
<1> QED
  BY <1>3 DEF Appends

(***************************************************************************)
(* What a step of the controller does to the journal: it appends at most    *)
(* one entry, and only Intend appends an intent.                            *)
(***************************************************************************)
LEMMA JournalSteps ==
  ASSUME ControlInv, [Next]_vars
  PROVE  \/ Intend \/ Send \/ Environment
         \/ /\ disk'.events = disk.events \/ Appends
            /\ UNCHANGED <<net, busy, executed>>
            /\ (disk'.events = disk.events /\ pc' = pc) \/ pc' # "send"
            /\ disk'.goal = disk.goal \/ (Done /\ disk'.goal = disk.goal + 1)
            /\ disk.status = "completed" => disk' = disk
<1>b. mem \in States /\ mem.blocked \in Nat /\ mem.goal \in 1..(NumGoals + 1)
  BY DEF ControlInv, States
<1>c. /\ disk.goal \in 1..(NumGoals + 1) /\ mem.goal = disk.goal
      /\ pc # "down" => disk.status # "completed"
  BY ActiveGoal DEF ControlInv, Mirrored, States
<1>1. CASE Launch
  BY <1>1, <1>c, LoadKeeps DEF Launch, worker, Exit
<1>2. CASE ListWindows \/ Snapshot \/ NoSnapshot \/ CallFails \/ Crash
  BY <1>2, <1>c DEF ListWindows, Snapshot, NoSnapshot, CallFails, Crash, worker, Exit
<1>3. CASE Recover \/ Route \/ SelectWindow
  <2>1. /\ pc \in {"route", "decide"} /\ NextTurn /\ UNCHANGED worker
        /\ \E w \in Windows \cup {NULL}, k \in {"window", "decision"} :
             Save(Journal([mem EXCEPT !.selected = w], Event(k, Step(mem), NULL, NULL)))
    BY <1>3 DEF Recover, Route, Routes, SelectWindow, ControlInv, RestType
  <2>2. PICK w \in Windows \cup {NULL}, k \in {"window", "decision"} :
          Save(Journal([mem EXCEPT !.selected = w], Event(k, Step(mem), NULL, NULL)))
    BY <2>1
  <2> DEFINE t == [mem EXCEPT !.selected = w]
             e == Event(k, Step(mem), NULL, NULL)
  <2>3. t \in States /\ t.events = mem.events /\ t.goal = mem.goal
    BY <1>b DEF States
  <2>4. e \in Events /\ e.event \notin {"intent", "outcome"}
    BY <2>1, EventType, ActiveGoal DEF Kinds
  <2> HIDE DEF t, e
  <2>5. Appends /\ disk'.goal = mem.goal
    BY <2>1, <2>2, <2>3, <2>4, SavedEntry DEF t, e
  <2> QED
    BY <1>c, <2>1, <2>5 DEF NextTurn, worker
<1>4. CASE Wait \/ Done \/ Failed
  <2> DEFINE e == Event("decision", Step(mem), NULL, NULL)
  <2>1. pc = "decide" /\ UNCHANGED worker /\ pc' # "send"
        /\ \E s \in {mem, GoalDone, GoalFailed} :
             Save(Journal(s, e)) /\ (s \in {mem, GoalFailed} \/ Done)
    BY <1>4 DEF Wait, Done, Failed, GoalFailed, NextTurn, Exit
  <2>2. e \in Events /\ e.event \notin {"intent", "outcome"}
    BY <2>1, EventType, ActiveGoal DEF Kinds
  <2>3. PICK s \in {mem, GoalDone, GoalFailed} :
          Save(Journal(s, e)) /\ (s \in {mem, GoalFailed} \/ Done)
    BY <2>1
  <2>4. /\ s \in States /\ s.events = mem.events
        /\ s.goal = mem.goal \/ (Done /\ s.goal = mem.goal + 1)
    BY <1>b, <1>c, <2>1, <2>3, GoalDoneKeeps, GoalFailedKeeps
  <2> HIDE DEF e
  <2>5. Appends /\ disk'.goal = s.goal
    BY <2>1, <2>2, <2>3, <2>4, SavedEntry
  <2> QED
    BY <1>c, <2>1, <2>4, <2>5 DEF worker
<1>5. CASE Block
  <2>1. PICK o \in Ops :
          Save(Journal([mem EXCEPT !.blocked = mem.blocked + 1],
            Event("blocked", Step(mem), [frame |-> shot, window |-> mem.selected, ops |-> o], NULL)))
    BY <1>5 DEF Block
  <2> DEFINE sig == [frame |-> shot, window |-> mem.selected, ops |-> o]
             t == [mem EXCEPT !.blocked = mem.blocked + 1]
             e == Event("blocked", Step(mem), sig, NULL)
  <2> HIDE DEF sig, e
  <2>2. t \in States /\ t.events = mem.events /\ t.goal = mem.goal
    <3>1. mem.blocked \in Nat
      BY <1>b DEF States
    <3>2. mem.blocked + 1 \in Nat
      BY <3>1
    <3> QED
      BY <1>b, <3>2 DEF States
  <2> USE DEF sig, e
  <2>3. pc = "decide" /\ UNCHANGED worker /\ pc' # "send"
    BY <1>5 DEF Block, NextTurn
  <2>4. sig \in Signatures
    BY <1>5 DEF Block, ControlInv, RestType, ShotPinned, Signatures
  <2>5. e \in Events /\ e.event \notin {"intent", "outcome"}
    BY <2>3, <2>4, EventType, ActiveGoal DEF Kinds
  <2> HIDE DEF t, e
  <2>6. Appends /\ disk'.goal = mem.goal
    BY <2>1, <2>2, <2>3, <2>5, SavedEntry DEF t, e
  <2> QED
    BY <1>c, <2>3, <2>6 DEF worker
<1>6. CASE Answered \/ NoAnswer
  <2>1. PICK how \in Outcomes : Outcome(how)
    BY <1>6 DEF Answered, NoAnswer, Outcomes, ControlInv, RestType
  <2> DEFINE e == Event("outcome", Last(mem).step, NULL, how)
  <2>2. e \in Events /\ e.event # "intent"
    <3>1. mem.events # << >> /\ mem.events \in Seq(Events)
      BY <2>1 DEF Outcome, ControlInv, AwaitReady, Mirrored, States
    <3>2. Last(mem) \in Events
      BY <3>1 DEF Last
    <3> QED
      BY <3>2, EventType DEF Events, Kinds
  <2>3. pc = "await" /\ Save(Journal(mem, e)) /\ UNCHANGED <<net, busy, executed>> /\ pc' # "send"
    BY <2>1 DEF Outcome, NextTurn
  <2> HIDE DEF e
  <2>4. Appends /\ disk'.goal = mem.goal
    BY <1>6, <1>b, <2>2, <2>3, SavedEntry
  <2> QED
    BY <1>c, <2>3, <2>4
<1>7. CASE Pause
  <2>1. pc # "down" /\ disk' = [mem EXCEPT !.status = "paused"] /\ UNCHANGED worker /\ pc' # "send"
    BY <1>7 DEF Pause, Save, Exit
  <2>2. disk'.events = disk.events /\ disk'.goal = disk.goal
    BY <1>b, <2>1 DEF ControlInv, Mirrored, States
  <2> QED
    BY <1>c, <2>1, <2>2 DEF worker
<1>8. CASE UNCHANGED vars
  BY <1>8, <1>c DEF vars, controller, worker
<1> QED
  BY <1>1, <1>2, <1>3, <1>4, <1>5, <1>6, <1>7, <1>8 DEF Next, Turn

(***************************************************************************)
(* Every step keeps what the journal says of the inputs.                    *)
(***************************************************************************)
LEMMA NextInputs == ControlInv /\ InputInv /\ [Next]_vars => InputInv'
<1> SUFFICES ASSUME ControlInv, InputInv, [Next]_vars PROVE InputInv'
  OBVIOUS
<1>1. CASE Intend
  BY <1>1, IntentKeepsInputs
<1>2. CASE Send
  BY <1>2, SendKeepsInputs
<1>3. CASE Environment
  BY <1>3, EnvironmentKeepsInputs
<1>4. CASE /\ disk'.events = disk.events \/ Appends
           /\ UNCHANGED <<net, busy, executed>>
           /\ (disk'.events = disk.events /\ pc' = pc) \/ pc' # "send"
  <2>1. CASE disk'.events = disk.events
    BY <1>4, <2>1, QuietKeepsInputs
  <2>2. CASE Appends /\ pc' # "send"
    BY <1>4, <2>2, EntryKeepsInputs DEF Appends
  <2> QED
    BY <1>4, <2>1, <2>2
<1> QED
  BY <1>1, <1>2, <1>3, <1>4, JournalSteps

(***************************************************************************)
(* No input exists before the first launch.                                 *)
(***************************************************************************)
LEMMA InitInputs == Init => InputInv
<1> SUFFICES ASSUME Init PROVE InputInv
  OBVIOUS
<1>1. /\ net = {} /\ busy = NULL /\ executed = << >> /\ pc = "down" /\ disk.events = << >>
  BY DEF Init, Fresh
<1> QED
  BY <1>1 DEF InputInv, IntentBeforeMutation, IntentsDiffer, FlightApart, SendReady

(***************************************************************************)
(* The outcomes of the journal.  An outcome is written on leaving the wait *)
(* alone, so it follows the intent waited for; every other step appends no *)
(* outcome or leaves the journal as it is.                                 *)
(***************************************************************************)
\* An outcome entry directly follows the intent of its input, and if it calls it
\* performed the desktop took it.
Faithful(events, i) ==
  /\ i > 1 /\ events[i].step = i - 1 /\ events[i-1].event = "intent"
  /\ events[i].how = "performed" => \E k \in 1..Len(executed) : executed[k].step = i - 1

OutcomesInv ==
  /\ \A i \in 1..Len(disk.events) : disk.events[i].event = "outcome" => Faithful(disk.events, i)
  /\ pc = "await" =>
       /\ Last(disk).event = "intent" /\ Last(disk).step = Len(disk.events)
       /\ answer = "performed" => \E k \in 1..Len(executed) : executed[k].step = Len(disk.events)

LEMMA InitOutcomes == Init => OutcomesInv
<1> SUFFICES ASSUME Init PROVE OutcomesInv
  OBVIOUS
<1>1. pc = "down" /\ disk.events = << >>
  BY DEF Init, Fresh
<1> QED
  BY <1>1 DEF OutcomesInv

\* The desktop only takes more inputs.
LEMMA ExecutedGrows ==
  ASSUME ControlInv, [Next]_vars
  PROVE  /\ executed \in Seq(Inputs) /\ Len(executed) \in Nat
         /\ \A k \in 1..Len(executed) : k \in 1..Len(executed') /\ executed'[k] = executed[k]
<1>1. executed \in Seq(Inputs)
  BY DEF ControlInv, RestType, Inputs
<1>2. CASE WorkerAct
  <2>1. executed' = Append(executed, busy) /\ busy \in Inputs
    BY <1>2 DEF WorkerAct, ControlInv, RestType, Inputs
  <2> QED
    BY <1>1, <2>1
<1>3. CASE executed' = executed
  BY <1>1, <1>3
<1>4. Intend \/ Send \/ Environment => WorkerAct \/ executed' = executed
  BY DEF Intend, Send, Environment, WorkerStart, WorkerRefuse, WorkerCrash, Lose, Repaint, worker
<1> QED
  BY <1>2, <1>3, <1>4, JournalSteps

LEMMA OldOutcomes ==
  ASSUME ControlInv, OutcomesInv, [Next]_vars, NEW i \in 1..Len(disk.events),
         disk.events[i].event = "outcome",
         \A j \in 1..Len(disk.events) : disk'.events[j] = disk.events[j]
  PROVE  Faithful(disk.events, i)'
<1>1. Faithful(disk.events, i)
  BY DEF OutcomesInv
<1>2. Len(disk.events) \in Nat
  BY DEF ControlInv, States
<1>3. i - 1 \in 1..Len(disk.events)
  BY <1>1, <1>2 DEF Faithful
<1>4. disk'.events[i] = disk.events[i] /\ disk'.events[i-1] = disk.events[i-1]
  BY <1>3
<1> QED
  BY <1>1, <1>4, ExecutedGrows DEF Faithful

LEMMA NextOutcomes == ControlInv /\ InputInv /\ OutcomesInv /\ [Next]_vars => OutcomesInv'
<1> SUFFICES ASSUME ControlInv, InputInv, OutcomesInv, [Next]_vars PROVE OutcomesInv'
  OBVIOUS
<1>0. disk.events \in Seq(Events) /\ Len(disk.events) \in Nat
  BY DEF ControlInv, States
<1>1. ASSUME disk'.events = disk.events, pc' # "await" PROVE OutcomesInv'
  BY <1>1, OldOutcomes DEF OutcomesInv
<1>2. ASSUME NEW e \in Events, e.event # "outcome", disk'.events = Append(disk.events, e), pc' # "await"
      PROVE  OutcomesInv'
  <2>1. /\ Len(disk'.events) = Len(disk.events) + 1
        /\ \A j \in 1..Len(disk.events) : disk'.events[j] = disk.events[j]
        /\ disk'.events[Len(disk.events) + 1] = e
    BY <1>0, <1>2
  <2> QED
    BY <1>0, <1>2, <2>1, OldOutcomes DEF OutcomesInv
<1>3. CASE Answered \/ NoAnswer
  <2>1. PICK how \in Outcomes : Outcome(how) /\ (how = answer \/ how = "error")
    BY <1>3 DEF Answered, NoAnswer, Outcomes, ControlInv, RestType
  <2> DEFINE e == Event("outcome", Last(mem).step, NULL, how)
  <2>2. /\ pc = "await" /\ pc' = "turn" /\ mem.events = disk.events /\ disk.events # << >>
        /\ disk' = Journal(mem, e)
    BY <2>1 DEF Outcome, NextTurn, ControlInv, AwaitReady, Mirrored, Save
  <2>3. Last(mem) \in Events /\ Last(mem) = Last(disk)
    BY <1>0, <2>2 DEF Last
  <2>4. e \in Events /\ e.event = "outcome" /\ e.step = Last(disk).step /\ e.how = how
    BY <2>3, EventType DEF Events, Kinds, Event
  <2> HIDE DEF e
  <2>5. disk'.events = Append(disk.events, e)
    BY <2>2, <2>4, JournalGrows DEF ControlInv
  <2>6. /\ Len(disk'.events) = Len(disk.events) + 1 /\ Len(disk.events) > 0
        /\ \A j \in 1..Len(disk.events) : disk'.events[j] = disk.events[j]
        /\ disk'.events[Len(disk.events) + 1] = e
    BY <1>0, <2>2, <2>4, <2>5
  <2>7. /\ Last(disk) = disk.events[Len(disk.events)]
        /\ Last(disk).event = "intent" /\ Last(disk).step = Len(disk.events)
        /\ answer = "performed" => \E k \in 1..Len(executed) : executed[k].step = Len(disk.events)
    BY <2>2 DEF OutcomesInv, Last
  <2>8. executed' = executed
    BY <2>1 DEF Outcome
  <2>9. /\ Len(disk.events) + 1 > 1 /\ disk'.events[Len(disk.events) + 1].step = (Len(disk.events) + 1) - 1
        /\ disk'.events[(Len(disk.events) + 1) - 1].event = "intent"
        /\ disk'.events[Len(disk.events) + 1].how = "performed" =>
             \E k \in 1..Len(executed') : executed'[k].step = (Len(disk.events) + 1) - 1
    BY <1>0, <2>1, <2>4, <2>6, <2>7, <2>8
  <2>10. \A i \in 1..Len(disk'.events) : disk'.events[i].event = "outcome" =>
           i \in 1..Len(disk.events) \/ i = Len(disk.events) + 1
    BY <1>0, <2>6
  <2>11. \A i \in 1..Len(disk'.events) : disk'.events[i].event = "outcome" => Faithful(disk.events, i)'
    <3> SUFFICES ASSUME NEW i \in 1..Len(disk'.events), disk'.events[i].event = "outcome"
                 PROVE  Faithful(disk.events, i)'
      OBVIOUS
    <3>1. CASE i \in 1..Len(disk.events)
      BY <2>6, <3>1, OldOutcomes
    <3>2. CASE i = Len(disk.events) + 1
      BY <2>9, <3>2 DEF Faithful
    <3> QED
      BY <2>10, <3>1, <3>2
  <2> QED
    BY <2>2, <2>11 DEF OutcomesInv
<1>4. CASE Intend
  <2>1. \E e \in Events : e.event # "outcome" /\ disk'.events = Append(disk.events, e)
    BY <1>4, IntentAppends DEF Event
  <2>2. pc' # "await"
    BY <1>4 DEF Intend
  <2> QED
    BY <1>2, <2>1, <2>2
<1>5. CASE Send
  <2>1. disk' = disk /\ pc = "send" /\ answer' = NULL /\ executed' = executed
    BY <1>5 DEF Send
  <2>2. Last(disk).event = "intent" /\ Last(disk).step = Len(disk.events)
    BY <2>1 DEF InputInv, SendReady, Event
  <2>3. answer' # "performed"
    BY <2>1, NullAssumption DEF Outcomes
  <2> QED
    BY <2>1, <2>2, <2>3, OldOutcomes DEF OutcomesInv, Last
<1>6. CASE Environment \/ UNCHANGED vars
  <2>1. UNCHANGED <<disk, pc, mem>>
    BY <1>6 DEF Environment, WorkerStart, WorkerAct, WorkerRefuse, WorkerCrash, Lose, Repaint, controller, vars
  <2>2. CASE WorkerAct /\ pc = "await" /\ Last(mem).step = busy.step
    <3>1. executed' = Append(executed, busy) /\ busy \in Inputs
      BY <2>2 DEF WorkerAct, ControlInv, RestType, Inputs
    <3>2. Len(executed') = Len(executed) + 1 /\ executed'[Len(executed) + 1] = busy
      BY <3>1, ExecutedGrows
    <3>3. Last(mem) = Last(disk)
      BY DEF ControlInv, Mirrored, Last
    <3>4. busy.step = Len(disk.events) /\ Last(disk).event = "intent"
      BY <2>2, <3>3 DEF OutcomesInv
    <3>5. \E k \in 1..Len(executed') : executed'[k].step = Len(disk.events)
      BY <3>2, <3>4, ExecutedGrows
    <3> QED
      BY <2>1, <2>2, <3>4, <3>5, OldOutcomes DEF OutcomesInv, Last
  <2>3. CASE pc # "await" \/ answer' = answer \/ answer' # "performed"
    BY <2>1, <2>3, OldOutcomes, ExecutedGrows DEF OutcomesInv, Last
  <2>4. WorkerAct /\ pc = "await" => answer' = answer \/ Last(mem).step = busy.step
    BY DEF WorkerAct, Tell
  <2>5. answer' = answer \/ answer' # "performed" \/ WorkerAct
    BY <1>6 DEF Environment, WorkerStart, WorkerRefuse, WorkerCrash, Lose, Repaint, worker, vars, Tell, Outcomes
  <2> QED
    BY <2>2, <2>3, <2>4, <2>5
<1>7. Send \/ Environment \/ (UNCHANGED vars) \/ pc' # "await"
  BY DEF Next, Turn, Launch, ListWindows, Recover, Route, Snapshot, NoSnapshot, CallFails, SelectWindow, Wait, Done,
     Failed, Block, Intend, Answered, NoAnswer, Outcome, Pause, Crash, Exit, NextTurn
<1> QED
  BY <1>1, <1>2, <1>3, <1>4, <1>5, <1>6, <1>7, JournalSteps DEF Appends

(***************************************************************************)
(* The invariant holds in every state.                                      *)
(***************************************************************************)
LEMMA MissionInvariant == Spec => []MissionInv
<1>1. Init => MissionInv
  BY InitControl, InitInputs DEF MissionInv
<1>2. MissionInv /\ [Next]_vars => MissionInv'
  BY NextControl, NextInputs DEF MissionInv
<1> QED
  BY <1>1, <1>2, PTL DEF Spec

(***************************************************************************)
(* Every variable keeps its type.                                           *)
(***************************************************************************)
THEOREM TypeCorrect == Spec => []TypeOK
<1>1. MissionInv => TypeOK
  BY ControlMeans DEF MissionInv
<1> QED
  BY <1>1, MissionInvariant, PTL

(***************************************************************************)
(* Goals are completed in order and the mission is completed exactly when   *)
(* none is left, in the dictionary and in the file, whatever the controller *)
(* decides and wherever it dies (run's use of active_goal_index).           *)
(***************************************************************************)
THEOREM GoalsStayInOrder == Spec => []GoalsInOrder
<1>1. MissionInv => GoalsInOrder
  BY ControlMeans DEF MissionInv
<1> QED
  BY <1>1, MissionInvariant, PTL

(***************************************************************************)
(* "durably logs intent before mutation": every input the network, the      *)
(* worker or the desktop ever holds is an intent of the state file.         *)
(***************************************************************************)
THEOREM IntentFirst == Spec => []IntentBeforeMutation
<1>1. MissionInv => IntentBeforeMutation
  BY DEF MissionInv, InputInv
<1> QED
  BY <1>1, MissionInvariant, PTL

(***************************************************************************)
(* The same operations on the same window and the same pixels reach the     *)
(* desktop at most once over all launches of the command (the check of      *)
(* _input_attempt_count before an input is journalled and sent).            *)
(***************************************************************************)
THEOREM InputAtMostOnce == Spec => []AtMostOnce
<1>1. MissionInv => AtMostOnce
  <2> SUFFICES ASSUME MissionInv, NEW i \in 1..Len(executed), NEW j \in 1..Len(executed), i # j
               PROVE  executed[i].sig # executed[j].sig /\ executed[i].step # executed[j].step
    BY DEF AtMostOnce
  <2>1. executed[i].step # executed[j].step
    BY DEF MissionInv, InputInv, FlightApart
  <2>2. \A m \in InFlight :
          m.step \in 1..Len(disk.events) /\ disk.events[m.step] = Event("intent", m.step, m.sig, NULL)
    BY DEF MissionInv, InputInv, IntentBeforeMutation, InFlight
  <2>3. \A k \in 1..Len(executed) :
          /\ executed[k].step \in 1..Len(disk.events)
          /\ disk.events[executed[k].step].event = "intent"
          /\ disk.events[executed[k].step].sig = executed[k].sig
    <3> SUFFICES ASSUME NEW k \in 1..Len(executed)
                 PROVE  /\ executed[k].step \in 1..Len(disk.events)
                        /\ disk.events[executed[k].step].event = "intent"
                        /\ disk.events[executed[k].step].sig = executed[k].sig
      OBVIOUS
    <3>1. executed[k] \in InFlight
      BY DEF InFlight
    <3> DEFINE m == executed[k]
    <3>2. m \in InFlight
      BY <3>1
    <3> HIDE DEF m
    <3>3. m.step \in 1..Len(disk.events) /\ disk.events[m.step] = Event("intent", m.step, m.sig, NULL)
      BY <2>2, <3>2
    <3>4. disk.events[m.step].event = "intent" /\ disk.events[m.step].sig = m.sig
      BY <3>3 DEF Event
    <3> QED
      BY <3>3, <3>4 DEF m
  <2>4. executed[i].sig # executed[j].sig
    BY <2>1, <2>3 DEF MissionInv, InputInv, IntentsDiffer
  <2> QED
    BY <2>1, <2>4
<1> QED
  BY <1>1, MissionInvariant, PTL

(***************************************************************************)
(* The state file never loses what it held: the journal grows at its end,   *)
(* the active goal never goes back, a completed mission stays as it is      *)
(* (_append_event, _write_state, _load_state).                              *)
(***************************************************************************)
THEOREM FileKeepsAll == Spec => NothingLost
<1> DEFINE Kept ==
      /\ Len(disk'.events) >= Len(disk.events)
      /\ \A i \in 1..Len(disk.events) : disk'.events[i] = disk.events[i]
      /\ disk'.goal >= disk.goal
      /\ disk.status = "completed" => disk' = disk
<1>1. MissionInv /\ [Next]_vars => [Kept]_disk
  <2> SUFFICES ASSUME ControlInv, [Next]_vars PROVE Kept
    BY DEF MissionInv
  <2>1. disk.events \in Seq(Events) /\ disk.goal \in Nat
    BY DEF ControlInv, States
  <2>2. ASSUME NEW e \in Events, disk'.events = Append(disk.events, e),
               disk'.goal >= disk.goal, disk.status = "completed" => disk' = disk
        PROVE  Kept
    BY <2>1, <2>2
  <2>3. CASE Intend
    <3>1. disk.status # "completed"
      BY <2>3, ActiveGoal DEF Intend
    <3>2. \E e \in Events : disk'.events = Append(disk.events, e) /\ disk'.goal = disk.goal
      BY <2>3, IntentAppends
    <3> QED
      BY <2>1, <2>2, <3>1, <3>2
  <2>4. CASE Send \/ Environment
    <3>1. disk' = disk
      BY <2>4 DEF Send, Environment, WorkerStart, WorkerAct, WorkerRefuse, WorkerCrash, Lose,
                  Repaint, controller
    <3> QED
      BY <2>1, <3>1
  <2>5. CASE /\ disk'.events = disk.events \/ Appends
             /\ disk'.goal = disk.goal \/ (Done /\ disk'.goal = disk.goal + 1)
             /\ disk.status = "completed" => disk' = disk
    <3>1. disk'.goal >= disk.goal
      BY <2>1, <2>5
    <3>2. CASE disk'.events = disk.events
      BY <2>1, <2>5, <3>1, <3>2
    <3>3. CASE Appends
      BY <2>2, <2>5, <3>1, <3>3 DEF Appends
    <3> QED
      BY <2>5, <3>2, <3>3
  <2> QED
    BY <2>3, <2>4, <2>5, JournalSteps
<1> QED
  BY <1>1, MissionInvariant, PTL DEF Spec, NothingLost

(***************************************************************************)
(* The journal's outcomes are faithful: each follows its own intent, and    *)
(* "performed" is written only of an input the desktop took, whatever is    *)
(* lost, late or killed (run's append of the worker's answer).              *)
(***************************************************************************)
THEOREM OutcomesTrue == Spec => []OutcomeFaithful
<1>1. Init => OutcomesInv
  BY InitOutcomes
<1>2. MissionInv /\ OutcomesInv /\ [Next]_vars => OutcomesInv'
  BY NextOutcomes DEF MissionInv
<1>3. OutcomesInv => OutcomeFaithful
  BY DEF OutcomesInv, OutcomeFaithful, Faithful
<1> QED
  BY <1>1, <1>2, <1>3, MissionInvariant, PTL DEF Spec
(***************************************************************************)
(* The refinement.  The ledger's inputs are read off the journal, so an     *)
(* entry more changes them as its kind says and nothing else does.          *)
(***************************************************************************)
LEMMA IntendedGrow ==
  ASSUME ControlInv, NEW e \in Events, disk'.events = Append(disk.events, e)
  PROVE  IntendedInputs' =
           IF e.event = "intent" THEN IntendedInputs \cup {e.sig} ELSE IntendedInputs
<1>1. disk.events \in Seq(Events) /\ Len(disk.events) \in Nat
  BY DEF ControlInv, States
<1>2. /\ Len(disk'.events) = Len(disk.events) + 1
      /\ \A i \in 1..Len(disk.events) : disk'.events[i] = disk.events[i]
      /\ disk'.events[Len(disk.events) + 1] = e
  BY <1>1
<1>3. 1..Len(disk'.events) = 1..Len(disk.events) \cup {Len(disk.events) + 1}
  BY <1>1, <1>2
<1> DEFINE old == {j \in 1..Len(disk.events) : disk.events[j].event = "intent"}
           new == {j \in 1..Len(disk'.events) : disk'.events[j].event = "intent"}
<1>4. /\ \A i \in old : disk'.events[i] = disk.events[i]
      /\ new = IF e.event = "intent" THEN old \cup {Len(disk.events) + 1} ELSE old
  BY <1>2, <1>3
<1>5. IntendedInputs = {disk.events[i].sig : i \in old}
      /\ IntendedInputs' = {disk'.events[i].sig : i \in new}
  BY DEF IntendedInputs
<1> HIDE DEF old, new
<1>6. {disk'.events[i].sig : i \in old} = {disk.events[i].sig : i \in old}
  BY <1>4
<1>7. CASE e.event = "intent"
  <2>1. new = old \cup {Len(disk.events) + 1}
    BY <1>4, <1>7
  <2>2. {disk'.events[i].sig : i \in new} =
          {disk'.events[i].sig : i \in old} \cup {disk'.events[Len(disk.events) + 1].sig}
    BY <2>1
  <2>3. disk'.events[Len(disk.events) + 1].sig = e.sig
    BY <1>2
  <2> QED
    BY <1>5, <1>6, <1>7, <2>2, <2>3
<1>8. CASE e.event # "intent"
  <2>1. new = old
    BY <1>4, <1>8
  <2> QED
    BY <1>5, <1>6, <1>8, <2>1
<1> QED
  BY <1>7, <1>8

LEMMA PerformedGrow ==
  ASSUME ControlInv, NEW e \in Events, disk'.events = Append(disk.events, e),
         disk.events # << >>
  PROVE  PerformedInputs' =
           IF e.event = "outcome" /\ e.how = "performed"
             THEN PerformedInputs \cup {Last(disk).sig} ELSE PerformedInputs
<1>1. disk.events \in Seq(Events) /\ Len(disk.events) \in Nat /\ Len(disk.events) > 0
  BY DEF ControlInv, States
<1>2. /\ Len(disk'.events) = Len(disk.events) + 1
      /\ \A i \in 1..Len(disk.events) : disk'.events[i] = disk.events[i]
      /\ disk'.events[Len(disk.events) + 1] = e
  BY <1>1
<1>3. 1..(Len(disk'.events) - 1) = 1..(Len(disk.events) - 1) \cup {Len(disk.events)}
  BY <1>1, <1>2
<1> DEFINE old == {j \in 1..(Len(disk.events) - 1) :
              disk.events[j + 1].event = "outcome" /\ disk.events[j + 1].how = "performed"}
           new == {j \in 1..(Len(disk'.events) - 1) :
              disk'.events[j + 1].event = "outcome" /\ disk'.events[j + 1].how = "performed"}
<1>4. \A j \in 1..(Len(disk.events) - 1) :
        /\ j \in 1..Len(disk.events) /\ j + 1 \in 1..Len(disk.events)
        /\ disk'.events[j + 1] = disk.events[j + 1]
  BY <1>1, <1>2
<1>5. /\ \A i \in old : disk'.events[i] = disk.events[i]
      /\ new = IF e.event = "outcome" /\ e.how = "performed"
                 THEN old \cup {Len(disk.events)} ELSE old
  BY <1>1, <1>2, <1>3, <1>4
<1>6. PerformedInputs = {disk.events[i].sig : i \in old}
      /\ PerformedInputs' = {disk'.events[i].sig : i \in new}
  BY DEF PerformedInputs
<1>7. disk'.events[Len(disk.events)].sig = Last(disk).sig
  BY <1>1, <1>2 DEF Last
<1> HIDE DEF old, new
<1>8. {disk'.events[i].sig : i \in old} = {disk.events[i].sig : i \in old}
  BY <1>5
<1>9. CASE e.event = "outcome" /\ e.how = "performed"
  <2>1. new = old \cup {Len(disk.events)}
    BY <1>5, <1>9
  <2>2. {disk'.events[i].sig : i \in new} =
          {disk'.events[i].sig : i \in old} \cup {disk'.events[Len(disk.events)].sig}
    BY <2>1
  <2> QED
    BY <1>6, <1>7, <1>9, <1>8, <2>2
<1>10. CASE ~(e.event = "outcome" /\ e.how = "performed")
  <2>1. new = old
    BY <1>5, <1>10
  <2> QED
    BY <1>6, <1>10, <1>8, <2>1
<1> QED
  BY <1>9, <1>10

\* The first entry is no outcome.
LEMMA PerformedStart ==
  ASSUME ControlInv, NEW e \in Events, disk'.events = Append(disk.events, e),
         disk.events = << >>
  PROVE  PerformedInputs' = PerformedInputs
<1>1. Len(disk.events) = 0 /\ Len(disk'.events) = 1
  BY DEF ControlInv, States
<1> QED
  BY <1>1 DEF PerformedInputs

\* An entry that reports nothing performed.
LEMMA PerformedStays ==
  ASSUME ControlInv, NEW e \in Events, disk'.events = Append(disk.events, e),
         ~(e.event = "outcome" /\ e.how = "performed")
  PROVE  PerformedInputs' = PerformedInputs
  BY PerformedGrow, PerformedStart

\* The inputs of the desktop and of the journal, one by one.
LEMMA TakenAre ==
  ASSUME ControlInv, InputInv
  PROVE  /\ TakenInputs \in Seq(Signatures) /\ Len(TakenInputs) = Len(executed)
         /\ \A k \in 1..Len(executed) :
              /\ TakenInputs[k] = executed[k].sig /\ executed[k].step \in 1..Len(disk.events)
              /\ disk.events[executed[k].step].event = "intent"
              /\ disk.events[executed[k].step].sig = executed[k].sig
<1>1. executed \in Seq(Inputs) /\ Len(executed) \in Nat
  BY DEF ControlInv, RestType, Inputs
<1>2. \A k \in 1..Len(executed) : executed[k].sig \in Signatures
  <2>1. \A k \in 1..Len(executed) : executed[k] \in Inputs
    BY <1>1
  <2>2. \A m \in Inputs : m.sig \in Signatures
    BY DEF Inputs
  <2> QED
    BY <2>1, <2>2
<1>3. TakenInputs \in Seq(Signatures) /\ Len(TakenInputs) = Len(executed)
      /\ \A k \in 1..Len(executed) : TakenInputs[k] = executed[k].sig
  BY <1>1, <1>2 DEF TakenInputs
<1>4. \A m \in InFlight :
        m.step \in 1..Len(disk.events) /\ disk.events[m.step] = Event("intent", m.step, m.sig, NULL)
  BY DEF InputInv, IntentBeforeMutation, InFlight
<1>5. \A m \in InFlight :
        /\ m.step \in 1..Len(disk.events)
        /\ disk.events[m.step].event = "intent" /\ disk.events[m.step].sig = m.sig
  <2> SUFFICES ASSUME NEW m \in InFlight
               PROVE  /\ m.step \in 1..Len(disk.events)
                      /\ disk.events[m.step].event = "intent"
                      /\ disk.events[m.step].sig = m.sig
    OBVIOUS
  <2>1. /\ m.step \in 1..Len(disk.events)
        /\ disk.events[m.step] = Event("intent", m.step, m.sig, NULL)
    BY <1>4
  <2> QED
    BY <2>1 DEF Event
<1>6. \A k \in 1..Len(executed) : executed[k] \in InFlight
  BY DEF InFlight
<1> QED
  BY <1>3, <1>5, <1>6

\* What the worker executes is intended and not taken yet.
LEMMA BusyFresh ==
  ASSUME ControlInv, InputInv, busy # NULL
  PROVE  /\ busy.sig \in Signatures /\ busy.sig \in IntendedInputs
         /\ \A k \in 1..Len(executed) : executed[k].sig # busy.sig
<1>1. busy \in InFlight
  BY DEF InFlight
<1>2. /\ busy.step \in 1..Len(disk.events)
      /\ disk.events[busy.step] = Event("intent", busy.step, busy.sig, NULL)
  BY <1>1 DEF InputInv, IntentBeforeMutation, InFlight
<1>3. disk.events[busy.step].event = "intent" /\ disk.events[busy.step].sig = busy.sig
  BY <1>2 DEF Event
<1>4. busy.sig \in Signatures
  BY DEF ControlInv, RestType
<1>5. busy.sig \in IntendedInputs
  BY <1>2, <1>3 DEF IntendedInputs
<1>6. \A k \in 1..Len(executed) : executed[k].step # busy.step
  BY DEF InputInv, FlightApart
<1>7. \A k \in 1..Len(executed) : executed[k].sig # busy.sig
  BY <1>2, <1>3, <1>6, TakenAre DEF InputInv, IntentsDiffer
<1> QED
  BY <1>4, <1>5, <1>7

LEMMA InitLedger == Init => Ledger!LedgerInit
<1> SUFFICES ASSUME Init PROVE Ledger!LedgerInit
  OBVIOUS
<1>1. disk.events = << >> /\ disk.goal = 1 /\ executed = << >>
  BY DEF Init, Fresh
<1>2. IntendedInputs = {} /\ PerformedInputs = {} /\ TakenInputs = << >> /\ disk.goal - 1 = 0
  BY <1>1 DEF IntendedInputs, PerformedInputs, TakenInputs
<1> QED
  BY <1>2 DEF Ledger!LedgerInit

\* Every step is a step of the ledger, or leaves it as it is.
LEMMA NextLedger ==
  MissionInv /\ OutcomesInv /\ [Next]_vars => [Ledger!LedgerNext]_Ledger!ledgerVars
<1> SUFFICES ASSUME ControlInv, InputInv, OutcomesInv, [Next]_vars
             PROVE  [Ledger!LedgerNext]_Ledger!ledgerVars
  BY DEF MissionInv
<1>1. CASE Intend
  <2>1. PICK sig \in Signatures :
          LET e == Event("intent", Len(disk.events) + 1, sig, NULL)
          IN  /\ e \in Events /\ disk'.events = Append(disk.events, e)
              /\ disk'.goal = disk.goal
              /\ \A i \in 1..Len(disk.events) :
                   ~(disk.events[i].event = "intent" /\ disk.events[i].sig = sig)
    BY <1>1, IntentAppends
  <2> DEFINE e == Event("intent", Len(disk.events) + 1, sig, NULL)
  <2>2. e \in Events /\ disk'.events = Append(disk.events, e) /\ e.event = "intent" /\ e.sig = sig
    BY <2>1 DEF Event
  <2> HIDE DEF e
  <2>3. IntendedInputs' = IntendedInputs \cup {sig} /\ PerformedInputs' = PerformedInputs
    BY <2>2, IntendedGrow, PerformedStays
  <2>4. sig \notin IntendedInputs
    BY <2>1 DEF IntendedInputs
  <2>5. TakenInputs' = TakenInputs /\ disk'.goal - 1 = disk.goal - 1
    BY <1>1, <2>1 DEF Intend, worker, TakenInputs
  <2>6. Ledger!Commit(sig)
    BY <2>3, <2>4, <2>5 DEF Ledger!Commit
  <2> QED
    BY <2>6 DEF Ledger!LedgerNext
<1>2. CASE WorkerAct
  <2>1. /\ busy # NULL /\ executed' = Append(executed, busy) /\ disk' = disk
        /\ busy \in Inputs /\ executed \in Seq(Inputs)
    BY <1>2 DEF WorkerAct, controller, ControlInv, RestType, Inputs
  <2>2. TakenInputs' = Append(TakenInputs, busy.sig)
    BY <2>1 DEF TakenInputs, Inputs
  <2>3. UNCHANGED <<IntendedInputs, PerformedInputs, disk.goal - 1>>
    BY <2>1 DEF IntendedInputs, PerformedInputs
  <2>4. ~Ledger!TakenAlready(busy.sig)
    BY <2>1, BusyFresh, TakenAre DEF Ledger!TakenAlready
  <2>5. Ledger!Take(busy.sig) /\ busy.sig \in Signatures
    BY <2>1, <2>2, <2>3, <2>4, BusyFresh DEF Ledger!Take
  <2> QED
    BY <2>5 DEF Ledger!LedgerNext
<1>3. CASE Send \/ (Environment /\ ~WorkerAct)
  <2>1. UNCHANGED <<disk, executed>>
    BY <1>3 DEF Send, Environment, WorkerStart, WorkerRefuse, WorkerCrash, Lose, Repaint,
                controller, worker
  <2> QED
    BY <2>1 DEF Ledger!ledgerVars, IntendedInputs, TakenInputs, PerformedInputs
<1>4. CASE /\ disk'.events = disk.events \/ Appends
           /\ UNCHANGED executed
           /\ disk'.goal = disk.goal \/ (Done /\ disk'.goal = disk.goal + 1)
  <2>1. UNCHANGED TakenInputs
    BY <1>4 DEF TakenInputs
  <2>2. CASE UNCHANGED <<IntendedInputs, PerformedInputs>>
    <3>1. CASE disk'.goal = disk.goal
      BY <2>1, <2>2, <3>1 DEF Ledger!ledgerVars
    <3>2. CASE Done /\ disk'.goal = disk.goal + 1
      <4>1. disk.goal \in 1..NumGoals
        BY <3>2, ActiveGoal DEF Done, ControlInv, Mirrored
      <4>2. disk.goal - 1 < NumGoals /\ disk'.goal - 1 = (disk.goal - 1) + 1
        BY <3>2, <4>1
      <4>3. Ledger!Prove
        BY <2>1, <2>2, <4>2 DEF Ledger!Prove
      <4> QED
        BY <4>3 DEF Ledger!LedgerNext
    <3> QED
      BY <1>4, <3>1, <3>2
  <2>3. CASE disk'.events = disk.events
    BY <2>2, <2>3 DEF IntendedInputs, PerformedInputs
  <2>4. CASE Appends
    <3>1. PICK e \in Events :
            /\ e.event # "intent" /\ (e.event = "outcome" => Answered \/ NoAnswer)
            /\ disk'.events = Append(disk.events, e)
      BY <2>4 DEF Appends
    <3>2. UNCHANGED IntendedInputs
      BY <3>1, IntendedGrow
    <3>3. CASE ~(e.event = "outcome" /\ e.how = "performed")
      BY <2>2, <3>1, <3>2, <3>3, PerformedStays
    <3>4. CASE e.event = "outcome" /\ e.how = "performed"
      <4>1. PICK how \in Outcomes : Outcome(how) /\ (how = answer \/ how = "error")
        BY <3>1, <3>4 DEF Answered, NoAnswer, Outcomes, ControlInv, RestType
      <4>2. /\ pc = "await" /\ disk.events # << >> /\ Len(disk.events) \in Nat /\ ~Done
            /\ disk'.events = Append(disk.events, Event("outcome", Last(mem).step, NULL, how))
        BY <4>1 DEF Outcome, Done, Save, Journal, ControlInv, AwaitReady, Mirrored, States
      <4>3. how = "performed"
        <5> DEFINE f == Event("outcome", Last(mem).step, NULL, how)
        <5>1. f.how = how
          BY DEF Event
        <5>2. f \in Events
          <6>1. Last(mem) \in Events
            BY <4>2 DEF ControlInv, Mirrored, States, Last
          <6> QED
            BY <6>1, EventType DEF Events, Kinds
        <5> HIDE DEF f
        <5>3. disk'.events = Append(disk.events, e) /\ disk'.events = Append(disk.events, f)
          BY <3>1, <4>2 DEF f
        <5>4. e = f
          <6>1. disk.events \in Seq(Events)
            BY DEF ControlInv, States
          <6>2. /\ Append(disk.events, e)[Len(disk.events) + 1] = e
                /\ Append(disk.events, f)[Len(disk.events) + 1] = f
            BY <5>2, <6>1
          <6> QED
            BY <5>3, <6>2
        <5> QED
          BY <3>4, <5>1, <5>4
      <4>4. \E k \in 1..Len(executed) : executed[k].step = Len(disk.events)
        BY <4>1, <4>2, <4>3 DEF OutcomesInv
      <4>5. PICK k \in 1..Len(executed) : executed[k].step = Len(disk.events)
        BY <4>4
      <4>6. executed[k].sig = Last(disk).sig /\ Last(disk).sig \in Signatures
        BY <4>5, TakenAre DEF Last, ControlInv, RestType
      <4>7. Ledger!TakenAlready(Last(disk).sig)
        BY <4>5, <4>6, TakenAre DEF Ledger!TakenAlready
      <4>8. PerformedInputs' = PerformedInputs \cup {Last(disk).sig}
        BY <3>1, <3>4, <4>2, PerformedGrow
      <4>9. Ledger!Report(Last(disk).sig)
        BY <1>4, <2>1, <3>2, <4>2, <4>7, <4>8 DEF Ledger!Report
      <4> QED
        BY <4>6, <4>9 DEF Ledger!LedgerNext
    <3> QED
      BY <3>3, <3>4
  <2> QED
    BY <1>4, <2>3, <2>4
<1> QED
  BY <1>1, <1>2, <1>3, <1>4, JournalSteps

(***************************************************************************)
(* Every behaviour of the mission is one of the ledger's: over all launches *)
(* an input is committed to once, taken once and after that, reported as    *)
(* performed only when it was taken, and the goals are proven one by one.   *)
(***************************************************************************)
THEOREM MissionKeepsLedger == Spec => LedgerRefinement
<1>1. Init => MissionInv /\ OutcomesInv
  BY InitControl, InitInputs, InitOutcomes DEF MissionInv
<1>2. MissionInv /\ OutcomesInv /\ [Next]_vars => MissionInv' /\ OutcomesInv'
  BY NextControl, NextInputs, NextOutcomes DEF MissionInv
<1> QED
  BY <1>1, <1>2, InitLedger, NextLedger, PTL DEF Spec, LedgerRefinement, Ledger!LedgerSpec
=============================================================================
