---------------------------- MODULE DesktopInput ----------------------------
(***************************************************************************)
(* Inputs and frames of one pinned window: input, input_sequence, snapshot   *)
(* of the desktop adapter and visual_input of the KV STUDIO adapter.           *)
(* Every call into Windows is a step of its own; between two of them the user *)
(* and the applications move windows, change the foreground, copy text and      *)
(* read the clipboard for a ^v they were sent. Which texts are typed is left    *)
(* out: the text of step i is "typed".                                          *)
(***************************************************************************)
EXTENDS Integers, Sequences, SequencesExt, FiniteSets

CONSTANTS
  Windows,        \* native window handles
  Process,        \* Process[w], the process of a window
  Owner,          \* Owner[w], the GW_OWNER window, or NULL
  Modal,          \* the dialogs that disable their owner while they are open
  Topmost,        \* the windows that are always on top
  Plans,          \* the sequences of operations that are sent
  Clips,          \* what the clipboard holds at first
  MaxMoves,       \* bound on what user and applications do during one request
  MaxUnread,      \* bound on the ^v of earlier requests no application has read yet
  NULL

ASSUME WindowAssumption ==
  /\ NULL \notin Windows /\ Modal \subseteq Windows /\ Topmost \subseteq Windows
  /\ Owner \in [Windows -> Windows \cup {NULL}]
  /\ \A w \in Windows : Owner[w] # NULL => Process[w] = Process[Owner[w]]
  /\ MaxMoves \in Nat /\ MaxUnread \in Nat

\* "outside" is a pointer operation with coordinates outside the frame.
Pointers == {"click", "outside"}
Keys == {"key", "escape", "paste"}
Operations == Pointers \cup Keys
Texts == {"user", "newer", "typed"}
Clip == Texts \cup {"empty", "files"}
ASSUME PlanAssumption == Plans \subseteq Seq(Operations) \ {<< >>} /\ Clips \subseteq Clip
ASSUME NullAssumption == NULL \notin Clip

States == {"open", "minimized", "retitled", "gone"}

VARIABLES
  shown, place, front,     \* the windows, where they are, the foreground window
  clip, held, queue,       \* the clipboard, whether an application holds it open, ^v not read yet
  pc, kind, target, plan, step, bounds, allowed, saved, failing, result,
  moves,
  effects, stale, before, copied, faulty, read, frame    \* history of the request

desktop == <<shown, place, front>>
clipboard == <<clip, held, queue>>
request == <<kind, target, plan, step, bounds, allowed, saved, failing>>
history == <<effects, stale, before, copied, faulty, read, frame>>
vars == <<desktop, clipboard, pc, request, result, moves, history>>

Away == 9     \* where Windows puts a minimized window
Bounds(w) == IF shown[w] = "minimized" THEN Away ELSE place[w]
IsEnabled(w) == ~\E d \in Modal : Owner[d] = w /\ shown[d] # "gone"

\* A window and its owners, at most eight levels up; no window is among its own owners.
WithOwners(ws) == ws \cup {Owner[w] : w \in ws \ {NULL}}
Chain(w) ==
  LET Four(ws) == WithOwners(WithOwners(WithOwners(WithOwners(ws)))) IN Four(Four({w})) \ {NULL}
OwnedBy(w, owner) == owner # w /\ owner \in Chain(w)
OwnerOrSelf(w) == {w, Owner[w]} \ {NULL}

\* Windows that own one another, directly or not, or have an owner in common.
SameGroup(v, w) == Chain(v) \cap Chain(w) # {}

\* Windows keeps the group of the foreground window above all but the windows that
\* are always on top, and an owned window above its owner; any other order can be.
OnScreen(w) == shown[w] \in {"open", "retitled"}
MayCover(v, w) ==
  /\ v # w /\ OnScreen(v) /\ ~OwnedBy(w, v)
  /\ v \in Topmost \/ SameGroup(v, w) \/ ~SameGroup(front, w)

\* The windows that may be topmost at a point of w, or where w no longer is.
Anywhere == {v \in Windows : OnScreen(v)} \cup {NULL}
AtPoint(w) == IF OnScreen(w) THEN {w} \cup {v \in Windows : MayCover(v, w)} ELSE Anywhere
InSequence == step > 1
Operation == plan[step]

NoFrame == [of |-> NULL, printed |-> FALSE]

Init ==
  /\ shown \in [Windows -> {"open", "gone"}]
  /\ \A w \in Windows : Owner[w] = NULL => shown[w] = "open"
  /\ place = [w \in Windows |-> 0] /\ front \in {w \in Windows : shown[w] = "open" /\ IsEnabled(w)}
  /\ clip \in Clips /\ held = FALSE /\ queue \in {[m \in 1..n |-> 0] : n \in 0..MaxUnread}
  /\ pc = "idle" /\ kind = "input" /\ target = NULL /\ plan = << >> /\ step = 1 /\ bounds = 0
  /\ allowed = {} /\ saved = NULL /\ failing = FALSE /\ result = "none" /\ moves = 0
  /\ effects = << >> /\ stale = {} /\ before = clip /\ copied = FALSE /\ faulty = FALSE
  /\ read = {} /\ frame = NoFrame

-----------------------------------------------------------------------------
(* The user and the applications. *)

Moved(parts) ==
  /\ moves < MaxMoves /\ moves' = moves + 1 /\ stale' = stale \cup parts
  /\ UNCHANGED <<clipboard, pc, request, result, effects, before, copied, faulty, read, frame>>

\* The user, or an application, brings an enabled window to the front.
Activate(w) ==
  /\ pc # "idle" /\ shown[w] = "open" /\ IsEnabled(w) /\ front # w
  /\ front' = w /\ UNCHANGED <<shown, place>> /\ Moved({"foreground"})

\* An application opens a dialog, which comes to the front.
OpenDialog(d) ==
  /\ pc # "idle" /\ Owner[d] # NULL /\ shown[d] = "gone" /\ shown[Owner[d]] = "open"
  /\ shown' = [shown EXCEPT ![d] = "open"] /\ front' = d /\ UNCHANGED place
  /\ Moved({"foreground"})

\* A window goes, with the windows it owns; its owner comes to the front.
Close(w) ==
  /\ pc # "idle" /\ shown[w] # "gone" /\ IsEnabled(w)
  /\ shown' = [v \in Windows |-> IF v = w \/ OwnedBy(v, w) THEN "gone" ELSE shown[v]]
  /\ front' = IF front # NULL /\ shown'[front] = "gone" THEN Owner[w] ELSE front
  /\ UNCHANGED place /\ Moved({"foreground", "identity"})

\* The pinned window gets another title, place or is minimized.
Disturb ==
  /\ pc # "idle" /\ shown[target] = "open"
  /\ \/ shown' = [shown EXCEPT ![target] = "retitled"] /\ UNCHANGED <<place, front>>
     \/ shown' = [shown EXCEPT ![target] = "minimized"] /\ front' = NULL /\ UNCHANGED place
     \/ place' = [place EXCEPT ![target] = 1 - @] /\ UNCHANGED <<shown, front>>
  /\ Moved({"identity", "foreground"})

\* Someone copies a text while nobody holds the clipboard open.
CopyElsewhere ==
  /\ pc # "idle" /\ ~held /\ moves < MaxMoves /\ moves' = moves + 1
  /\ clip' = "newer" /\ copied' = TRUE
  /\ UNCHANGED <<desktop, held, queue, pc, request, result, effects, stale, before, faulty, read, frame>>

\* The application that was sent a ^v opens the clipboard, and reads and closes it.
\* It is late when the text of its own step is no longer due to be there.
OpenToRead ==
  /\ queue # << >> /\ ~held /\ held' = TRUE
  /\ UNCHANGED <<desktop, clip, queue, pc, request, result, moves, history>>

Due == pc \in {"send", "wait", "restore"} /\ Len(queue) = 1 /\ Operation = "paste"
TakeText ==
  /\ held /\ held' = FALSE /\ queue' = Tail(queue)
  /\ read' = read \cup {[text |-> clip, late |-> ~(Head(queue) = step /\ Due), copied |-> copied]}
  /\ UNCHANGED <<desktop, clip, pc, request, result, moves, effects, stale, before, copied, faulty, frame>>

Environment ==
  \/ \E w \in Windows : Activate(w) \/ OpenDialog(w) \/ Close(w)
  \/ Disturb \/ CopyElsewhere \/ OpenToRead \/ TakeText

-----------------------------------------------------------------------------
(* Requests. *)

\* One request, from any desktop and with any ^v left over from earlier ones.
Request(k, w, p) ==
  /\ pc = "idle" /\ result = "none"
  /\ kind' = k /\ target' = w /\ plan' = (IF k = "frame" THEN << >> ELSE p) /\ step' = 1
  /\ (k = "visual" => Owner[w] = NULL /\ Len(p) = 1)
  /\ pc' = IF k = "visual" THEN "find" ELSE "select"
  /\ UNCHANGED <<desktop, clipboard, result, moves, bounds, allowed, saved, failing, history>>

Answer(r) == pc' = "idle" /\ result' = r
Goto(label) == pc' = label /\ UNCHANGED result

\* _select_window: the window exists and has the pinned title.
Selectable == shown[target] \in {"open", "minimized"}

\* The window is selected, ready, and the coordinates are inside its frame.
Select ==
  /\ pc = "select" /\ kind = "input"
  /\ bounds' = Bounds(target) /\ stale' = {}
  /\ IF ~Selectable THEN Answer("gone")
     ELSE IF shown[target] = "minimized" \/ ~IsEnabled(target) THEN Answer("not ready")
     ELSE IF Operation = "outside" THEN Answer("outside")
     ELSE Goto("allow")
  /\ UNCHANGED <<desktop, clipboard, kind, target, plan, step, allowed, saved, failing, moves,
                 effects, before, copied, faulty, read, frame>>

\* In a sequence, a foreground window of the owner chain may get the input too.
Allow ==
  /\ pc = "allow"
  /\ allowed' = OwnerOrSelf(target) \cup {w \in {front} \ {NULL} : InSequence /\ OwnedBy(w, target)}
  /\ Goto(IF InSequence THEN "recheck" ELSE "focus")
  /\ UNCHANGED <<desktop, clipboard, kind, target, plan, step, bounds, saved, failing, moves, history>>

\* set_focus, unless the foreground is allowed; Windows may refuse it.
Focus ==
  /\ pc = "focus" /\ front' \in {front} \cup {w \in {target} : front \notin allowed /\ shown[w] = "open" /\ IsEnabled(w)}
  /\ Goto("recheck")
  /\ UNCHANGED <<shown, place, clipboard, request, moves, history>>

Recheck ==
  /\ pc = "recheck" /\ stale' = stale \ {"identity"}
  /\ IF ~Selectable THEN Answer("gone")
     ELSE IF Bounds(target) # bounds THEN Answer("moved")
     ELSE Goto("foreground")
  /\ UNCHANGED <<desktop, clipboard, request, moves, effects, before, copied, faulty, read, frame>>

Deliver == IF Operation = "paste" THEN "copy" ELSE "act"

\* Mutant: a click, having coordinates of its own, does not look at the foreground.
CheckForegroundOfKeys ==
  /\ pc = "foreground" /\ stale' = stale \ {"foreground"}
  /\ IF Operation \in Keys /\ front \notin allowed THEN Answer("not in front")
     ELSE Goto(IF InSequence /\ Operation \in Keys THEN "focused" ELSE Deliver)
  /\ UNCHANGED <<desktop, clipboard, request, moves, effects, before, copied, faulty, read, frame>>

CheckForeground ==
  /\ pc = "foreground" /\ stale' = stale \ {"foreground"}
  /\ IF front \notin allowed THEN Answer("not in front")
     ELSE Goto(IF InSequence /\ Operation \in Keys THEN "focused" ELSE Deliver)
  /\ UNCHANGED <<desktop, clipboard, request, moves, effects, before, copied, faulty, read, frame>>

\* The keyboard focus belongs to the foreground window, if to any.
CheckFocused ==
  /\ pc = "focused"
  /\ \/ front # NULL /\ Process[front] = Process[target] /\ Goto(Deliver)
     \/ Answer("focus left")
  /\ UNCHANGED <<desktop, clipboard, request, moves, history>>

-----------------------------------------------------------------------------
(* Delivery: pointer and keys. *)

\* Keys go to the foreground window; a click goes to the topmost window at its point
\* of the screen, which is looked up by nobody.
Receivers == IF Operation \in Pointers THEN AtPoint(target) ELSE {front}
Effect(to) ==
  [step |-> step, to |-> to, stale |-> stale, pointer |-> Operation \in Pointers,
   pinned |-> shown[target] = "open" /\ Bounds(target) = bounds]

\* A click, other than a turn of the wheel, brings the enabled window it hits to the front.
Act ==
  /\ pc = "act"
  /\ \E to \in Receivers :
       /\ effects' = Append(effects, Effect(to))
       /\ front' \in {front} \cup
            {w \in {to} \ {NULL} : Operation = "click" /\ OnScreen(w) /\ IsEnabled(w)}
  /\ Goto(IF kind = "visual" THEN "next" ELSE "verify")
  /\ UNCHANGED <<shown, place, clipboard, request, moves, stale, before, copied, faulty, read, frame>>

\* Mutant: the exception is swallowed and the step counted.
ActFailsSilently ==
  /\ pc = "act" /\ Goto("verify")
  /\ UNCHANGED <<desktop, clipboard, request, moves, history>>

\* pywinauto raises, with the input not sent.
ActFails ==
  /\ pc = "act" /\ Answer("failed")
  /\ UNCHANGED <<desktop, clipboard, request, moves, history>>

\* An escape that closed the window is not looked at any more.
Verify ==
  /\ pc = "verify"
  /\ IF (Operation = "escape" /\ shown[target] = "gone") \/ Selectable THEN Goto("next") ELSE Answer("gone")
  /\ UNCHANGED <<desktop, clipboard, request, moves, history>>

NextStep ==
  /\ pc = "next"
  /\ IF step < Len(plan) THEN step' = step + 1 /\ Goto("select") ELSE Answer("done") /\ UNCHANGED step
  /\ UNCHANGED <<desktop, clipboard, kind, target, plan, bounds, allowed, saved, failing, moves, history>>

-----------------------------------------------------------------------------
(* Delivery: a text through the clipboard. *)

Kept == IF clip \in Texts THEN clip ELSE NULL
Restored == IF saved = NULL THEN "empty" ELSE saved

\* Mutant: a failure to set the text is suppressed.
CopySuppressing ==
  /\ pc = "copy" /\ ~held /\ saved' = Kept /\ before' = clip /\ copied' = FALSE
  /\ clip' \in {"typed", "empty"} /\ failing' = FALSE /\ Goto("send")
  /\ UNCHANGED <<desktop, held, queue, kind, target, plan, step, bounds, allowed, moves,
                 effects, stale, faulty, read, frame>>

\* The clipboard is opened, read, emptied, set and closed in one go.
Copy ==
  /\ pc = "copy" /\ ~held /\ saved' = Kept /\ before' = clip /\ copied' = FALSE
  /\ clip' = "typed" /\ failing' = FALSE /\ Goto("send")
  /\ UNCHANGED <<desktop, held, queue, kind, target, plan, step, bounds, allowed, moves,
                 effects, stale, faulty, read, frame>>

\* The clipboard stayed open elsewhere, or the text could not be set.
CopyFails ==
  /\ pc = "copy" /\ Answer("clipboard")
  /\ \/ UNCHANGED <<clip, faulty>>
     \/ ~held /\ clip' = "empty" /\ faulty' = TRUE
  /\ UNCHANGED <<desktop, held, queue, request, moves, effects, stale, before, copied, read, frame>>

Send ==
  /\ pc = "send" /\ effects' = Append(effects, Effect(front)) /\ queue' = Append(queue, step)
  /\ Goto(IF kind = "visual" THEN "restore" ELSE "wait")
  /\ UNCHANGED <<desktop, clip, held, request, moves, stale, before, copied, faulty, read, frame>>

\* Mutant: the text is given back without a finally.
SendFailsOutright ==
  /\ pc = "send" /\ failing' = TRUE /\ Answer("failed")
  /\ UNCHANGED <<desktop, clipboard, kind, target, plan, step, bounds, allowed, saved, moves, history>>

SendFails ==
  /\ pc = "send" /\ failing' = TRUE /\ Goto("restore")
  /\ UNCHANGED <<desktop, clipboard, kind, target, plan, step, bounds, allowed, saved, moves, history>>

\* 50 ms for the application to read; visual_input does not wait.
Wait == pc = "wait" /\ Goto("restore") /\ UNCHANGED <<desktop, clipboard, request, moves, history>>

Restore ==
  /\ pc = "restore" /\ ~held /\ clip' = Restored
  /\ IF failing THEN Answer("failed") ELSE Goto(IF kind = "visual" THEN "next" ELSE "verify")
  /\ UNCHANGED <<desktop, held, queue, request, moves, history>>

RestoreFails ==
  /\ pc = "restore" /\ Answer("clipboard") /\ faulty' = TRUE
  /\ (held /\ UNCHANGED clip) \/ (~held /\ saved # NULL /\ clip' = "empty")
  /\ UNCHANGED <<desktop, held, queue, request, moves, effects, stale, before, copied, read, frame>>

-----------------------------------------------------------------------------
(* visual_input: the unique editor window. *)

\* A minimized window is restored; set_focus is not checked afterwards.
FindAndFocus ==
  /\ pc = "find" /\ stale' = {}
  /\ IF ~Selectable THEN Answer("gone") /\ UNCHANGED desktop
     ELSE /\ shown' = [shown EXCEPT ![target] = "open"] /\ UNCHANGED place
          /\ front' \in {front} \cup {w \in {target} : IsEnabled(w)}
          /\ Goto("bounds")
  /\ UNCHANGED <<clipboard, request, moves, effects, before, copied, faulty, read, frame>>

ReadBounds ==
  /\ pc = "bounds" /\ bounds' = Bounds(target)
  /\ IF shown[target] = "gone" THEN Answer("gone")
     ELSE IF Operation = "outside" THEN Answer("outside") ELSE Goto(Deliver)
  /\ UNCHANGED <<desktop, clipboard, kind, target, plan, step, allowed, saved, failing, moves, history>>

-----------------------------------------------------------------------------
(* snapshot: a frame of the pinned window. *)

SelectFrame ==
  /\ pc = "select" /\ kind = "frame" /\ bounds' = Bounds(target) /\ stale' = {}
  /\ IF Selectable /\ shown[target] # "minimized" THEN Goto("capture") ELSE Answer("gone")
  /\ UNCHANGED <<desktop, clipboard, kind, target, plan, step, allowed, saved, failing, moves,
                 effects, before, copied, faulty, read, frame>>

\* What the screen shows at the bounds: the window or one that covers it, if it is there.
Grabbed == IF Bounds(target) = bounds THEN AtPoint(target) ELSE Anywhere

\* PrintWindow, or a grab of the screen when it fails or renders nothing.
Capture ==
  /\ pc = "capture"
  /\ \/ shown[target] \notin {"gone", "minimized"} /\ frame' = [of |-> target, printed |-> TRUE]
     \/ \E w \in Grabbed : frame' = [of |-> w, printed |-> FALSE]
  /\ Goto("compare")
  /\ UNCHANGED <<desktop, clipboard, request, moves, effects, stale, before, copied, faulty, read>>

\* Mutant: the bounds are not compared.
CompareTitleOnly ==
  /\ pc = "compare" /\ Answer(IF Selectable THEN "done" ELSE "gone")
  /\ UNCHANGED <<desktop, clipboard, request, moves, history>>

Compare ==
  /\ pc = "compare"
  /\ Answer(IF ~Selectable THEN "gone" ELSE IF Bounds(target) # bounds THEN "moved" ELSE "done")
  /\ UNCHANGED <<desktop, clipboard, request, moves, history>>

Adapter ==
  \/ Select \/ Allow \/ Focus \/ Recheck \/ CheckForeground \/ CheckFocused
  \/ Act \/ ActFails \/ Verify \/ NextStep
  \/ Copy \/ CopyFails \/ Send \/ SendFails \/ Wait \/ Restore \/ RestoreFails
  \/ FindAndFocus \/ ReadBounds \/ SelectFrame \/ Capture \/ Compare

Requests ==
  \E k \in {"input", "visual", "frame"}, w \in Windows, p \in Plans : Request(k, w, p)

Next == Requests \/ Adapter \/ Environment
Spec == Init /\ [][Next]_vars

-----------------------------------------------------------------------------
(* Properties. *)

\* Every variable has its type, and windows that own others outlive them.
DesktopTypeOK ==
  /\ shown \in [Windows -> States] /\ place \in [Windows -> {0, 1}] /\ front \in Windows \cup {NULL}
  /\ clip \in Clip /\ held \in BOOLEAN /\ queue \in Seq(Nat) /\ (held => queue # << >>)
  /\ pc \in {"idle", "select", "allow", "focus", "recheck", "foreground", "focused", "act", "verify", "next",
            "copy", "send", "wait", "restore", "find", "bounds", "capture", "compare"}
  /\ kind \in {"input", "visual", "frame"} /\ target \in Windows \cup {NULL} /\ step \in Nat
  /\ bounds \in {0, 1, Away} /\ allowed \subseteq Windows /\ saved \in Texts \cup {NULL}
  /\ failing \in BOOLEAN /\ moves \in 0..MaxMoves /\ stale \subseteq {"identity", "foreground"}
  /\ result \in {"none", "done", "gone", "not ready", "outside", "moved", "not in front", "focus left", "failed", "clipboard"}

\* An input is sent while the pinned window has its title and the place it was
\* selected at. A key is received by that window or its owner or, inside a sequence,
\* by a window it owns; a click by a window of the same group or one that is always on
\* top, and never by an ordinary window of another application - unless the desktop
\* changed after the last look at it (input, lines 250-288; visual_input looks at the
\* foreground not at all).
Pins(e) ==
  /\ "identity" \in e.stale \/ e.pinned
  /\ kind = "input" /\ ~e.pointer /\ "foreground" \notin e.stale =>
       e.to \in OwnerOrSelf(target) \/ (e.step > 1 /\ OwnedBy(e.to, target))
  /\ kind = "input" /\ e.pointer /\ e.stale = {} => e.to \in Topmost \/ SameGroup(e.to, target)
InputIsPinned == \A n \in DOMAIN effects : Pins(effects[n])

\* Steps take effect in order, each once; all of them when the sequence is done,
\* and when it fails at a step, those before it and at most that one.
SequenceAccounted ==
  /\ \A n \in DOMAIN effects : effects[n].step = n
  /\ pc = "idle" /\ kind # "frame" =>
       IF result = "done" THEN Len(effects) = Len(plan) ELSE Len(effects) \in {step - 1, step}

\* Whatever becomes of a request, the text the user had copied is on the
\* clipboard again, unless Windows refused to open or set it or someone copied
\* another text meanwhile (_paste_unicode, _paste_unicode_text).
ClipboardGivenBack ==
  pc = "idle" /\ before \in Texts /\ ~faulty /\ ~copied => clip = before

\* An application that reads the clipboard before the text is due to go, and
\* with no other copy in between, gets the requested text and never the user's.
PasteIsRequested == \A r \in read : r.late \/ r.copied \/ r.text = "typed"

\* A frame that is returned has the bounds the window still has, and shows that
\* window - or was grabbed from a screen on which the window it shows may lie over it,
\* or that changed meanwhile.
FrameIsPinned ==
  pc = "idle" /\ kind = "frame" /\ result = "done" =>
    /\ shown[target] \in {"open", "minimized"} /\ Bounds(target) = bounds
    /\ frame.of = target \/ (~frame.printed /\ (stale # {} \/ MayCover(frame.of, target)))
=============================================================================
