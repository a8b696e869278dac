------------------------ MODULE DesktopInput_proofs ------------------------
(***************************************************************************)
(* Proofs about the inputs and frames of a pinned window for any windows,     *)
(* owners and plans, and any number of moves of the user and applications.      *)
(***************************************************************************)
EXTENDS DesktopInput, TLAPS

Parts == {"identity", "foreground"}
EffectSet == [step : Nat, to : Windows \cup {NULL}, stale : SUBSET Parts, pointer : BOOLEAN, pinned : BOOLEAN]

\* The parts of the type invariant: the windows, the clipboard, ...
WindowsType ==
  shown \in [Windows -> States] /\ place \in [Windows -> {0, 1}] /\ front \in Windows \cup {NULL}

ClipboardType ==
  /\ clip \in Clip /\ saved \in Texts \cup {NULL} /\ before \in Clip
  /\ held \in BOOLEAN /\ copied \in BOOLEAN /\ faulty \in BOOLEAN

QueueType == queue \in Seq(Nat) /\ (held => queue # << >>)

\* ... the place of the request: its window is known and its step exists, ...
ControlType ==
  /\ pc \in {"idle", "select", "allow", "focus", "recheck", "foreground", "focused", "act", "verify", "next",
            "copy", "send", "wait", "restore", "find", "bounds", "capture", "compare"}
  /\ kind \in {"input", "visual", "frame"} /\ target \in Windows \cup {NULL}
  /\ pc # "idle" => target \in Windows /\ result = "none"
  /\ pc \notin {"idle", "select", "capture", "compare"} => kind # "frame"
  /\ pc \in {"capture", "compare"} => kind = "frame"
  /\ pc \in {"find", "bounds"} => kind = "visual"
  /\ result \in {"none", "done", "gone", "not ready", "outside", "moved", "not in front", "focus left", "failed", "clipboard"}

StepType ==
  /\ plan \in Seq(Operations) /\ step \in Nat /\ step >= 1
  /\ pc # "idle" /\ kind # "frame" => step <= Len(plan)

\* ... and what the adapter and the history remember of it.
LocalType ==
  /\ bounds \in {0, 1, Away} /\ allowed \subseteq Windows /\ failing \in BOOLEAN
  /\ moves \in 0..MaxMoves /\ stale \subseteq Parts

TypeInv ==
  WindowsType /\ ClipboardType /\ QueueType /\ ControlType /\ StepType /\ LocalType
    /\ effects \in Seq(EffectSet)

LEMMA TypeMeaning == TypeInv => DesktopTypeOK
  BY DEF TypeInv, WindowsType, ClipboardType, QueueType, ControlType, StepType, LocalType, DesktopTypeOK, Parts

\* Each part of the type invariant is preserved by every step, one action at a time.
LEMMA TypeInit == Init => TypeInv
<1> SUFFICES ASSUME Init PROVE TypeInv
  OBVIOUS
<1>1. queue \in Seq(Nat)
  <2>1. PICK n \in 0..MaxUnread : queue = [m \in 1..n |-> 0]
    BY DEF Init
  <2> QED
    BY <2>1, WindowAssumption
<1>2. WindowsType /\ ClipboardType /\ QueueType
  BY <1>1, PlanAssumption DEF Init, WindowsType, ClipboardType, QueueType, States
<1>3. ControlType /\ StepType
  BY DEF Init, ControlType, StepType
<1>4. LocalType /\ effects \in Seq(EffectSet)
  <2>1. effects \in Seq(EffectSet)
    BY DEF Init
  <2>2. bounds = 0 /\ allowed = {} /\ failing = FALSE /\ moves = 0 /\ stale = {}
    BY DEF Init
  <2>3. moves \in 0..MaxMoves
    BY <2>2, WindowAssumption
  <2> QED
    BY <2>1, <2>2, <2>3, Zenon DEF LocalType
<1> QED
  BY <1>2, <1>3, <1>4 DEF TypeInv

\* The receiver of an effect is a window, or nobody.
LEMMA ReceiverType ==
  ASSUME TypeInv, pc # "idle", NEW to, to \in Receivers \/ to = front
  PROVE  to \in Windows \cup {NULL}
  BY DEF TypeInv, WindowsType, ControlType, Receivers, AtPoint, Anywhere

LEMMA WindowsStep == TypeInv /\ [Next]_vars => WindowsType'
<1> SUFFICES ASSUME TypeInv, [Next]_vars PROVE WindowsType'
  OBVIOUS
<1> USE DEF TypeInv, WindowsType, ControlType, States
<1>1. CASE UNCHANGED vars
  BY <1>1 DEF vars, desktop, clipboard, request, history
<1>2. CASE Requests
  BY <1>2, PlanAssumption DEF Requests, Request, desktop, clipboard, history
<1>3. ASSUME NEW w \in Windows, Activate(w) PROVE WindowsType'
  BY <1>3 DEF Activate, Moved, desktop, clipboard, request, history
<1>4. ASSUME NEW w \in Windows, OpenDialog(w) PROVE WindowsType'
  BY <1>4 DEF OpenDialog, Moved, desktop, clipboard, request, history
<1>5. ASSUME NEW w \in Windows, Close(w) PROVE WindowsType'
  BY <1>5, WindowAssumption DEF Close, Moved, desktop, clipboard, request, history
<1>6. CASE Disturb
  BY <1>6 DEF Disturb, Moved, desktop, clipboard, request, history
<1>7. CASE CopyElsewhere
  BY <1>7 DEF CopyElsewhere, Moved, desktop, clipboard, request, history
<1>8. CASE OpenToRead
  BY <1>8 DEF OpenToRead, Moved, desktop, clipboard, request, history
<1>9. CASE TakeText
  BY <1>9 DEF TakeText, Moved, desktop, clipboard, request, history
<1>10. CASE Select
  BY <1>10 DEF Select, desktop, clipboard, request, history
<1>11. CASE Allow
  BY <1>11 DEF Allow, desktop, clipboard, request, history
<1>12. CASE Focus
  BY <1>12 DEF Focus, desktop, clipboard, request, history
<1>13. CASE Recheck
  BY <1>13 DEF Recheck, desktop, clipboard, request, history
<1>14. CASE CheckForeground
  BY <1>14 DEF CheckForeground, desktop, clipboard, request, history
<1>15. CASE CheckFocused
  BY <1>15 DEF CheckFocused, desktop, clipboard, request, history
<1>16. CASE Act
  <2>1. \A to \in Receivers : to \in Windows \cup {NULL}
    BY <1>16, ReceiverType DEF Act
  <2>2. UNCHANGED <<shown, place>> /\ front' \in {front} \cup Receivers
    BY <1>16 DEF Act
  <2> HIDE DEF Receivers
  <2> QED
    BY <2>1, <2>2
<1>17. CASE ActFails
  BY <1>17 DEF ActFails, desktop, clipboard, request, history
<1>18. CASE Verify
  BY <1>18 DEF Verify, desktop, clipboard, request, history
<1>19. CASE NextStep
  BY <1>19 DEF NextStep, desktop, clipboard, request, history
<1>20. CASE Copy
  BY <1>20 DEF Copy, desktop, clipboard, request, history
<1>21. CASE CopyFails
  BY <1>21 DEF CopyFails, desktop, clipboard, request, history
<1>22. CASE Send
  BY <1>22 DEF Send, desktop, clipboard, request, history
<1>23. CASE SendFails
  BY <1>23 DEF SendFails, desktop, clipboard, request, history
<1>24. CASE Wait
  BY <1>24 DEF Wait, desktop, clipboard, request, history
<1>25. CASE Restore
  BY <1>25 DEF Restore, desktop, clipboard, request, history
<1>26. CASE RestoreFails
  BY <1>26 DEF RestoreFails, desktop, clipboard, request, history
<1>27. CASE FindAndFocus
  BY <1>27 DEF FindAndFocus, desktop, clipboard, request, history
<1>28. CASE ReadBounds
  BY <1>28 DEF ReadBounds, desktop, clipboard, request, history
<1>29. CASE SelectFrame
  BY <1>29 DEF SelectFrame, desktop, clipboard, request, history
<1>30. CASE Capture
  BY <1>30 DEF Capture, desktop, clipboard, request, history
<1>31. CASE Compare
  BY <1>31 DEF Compare, desktop, clipboard, request, history
<1> QED
  BY <1>1, <1>2, <1>3, <1>4, <1>5, <1>6, <1>7, <1>8, <1>9, <1>10, <1>11, <1>12, <1>13, <1>14, <1>15, <1>16, <1>17, <1>18, <1>19, <1>20, <1>21, <1>22, <1>23, <1>24, <1>25, <1>26, <1>27, <1>28, <1>29, <1>30, <1>31 DEF Next, Adapter, Environment

LEMMA ClipboardStep == TypeInv /\ [Next]_vars => ClipboardType'
<1> SUFFICES ASSUME TypeInv, [Next]_vars PROVE ClipboardType'
  OBVIOUS
<1> USE DEF TypeInv, ClipboardType, Clip, Texts
<1>1. CASE UNCHANGED vars
  BY <1>1 DEF vars, desktop, clipboard, request, history
<1>2. CASE Requests
  BY <1>2, PlanAssumption DEF Requests, Request, desktop, clipboard, history
<1>3. ASSUME NEW w \in Windows, Activate(w) PROVE ClipboardType'
  BY <1>3 DEF Activate, Moved, desktop, clipboard, request, history
<1>4. ASSUME NEW w \in Windows, OpenDialog(w) PROVE ClipboardType'
  BY <1>4 DEF OpenDialog, Moved, desktop, clipboard, request, history
<1>5. ASSUME NEW w \in Windows, Close(w) PROVE ClipboardType'
  BY <1>5 DEF Close, Moved, desktop, clipboard, request, history
<1>6. CASE Disturb
  BY <1>6 DEF Disturb, Moved, desktop, clipboard, request, history
<1>7. CASE CopyElsewhere
  BY <1>7 DEF CopyElsewhere, Moved, desktop, clipboard, request, history
<1>8. CASE OpenToRead
  BY <1>8 DEF OpenToRead, Moved, desktop, clipboard, request, history
<1>9. CASE TakeText
  BY <1>9 DEF TakeText, Moved, desktop, clipboard, request, history
<1>10. CASE Select
  BY <1>10 DEF Select, desktop, clipboard, request, history
<1>11. CASE Allow
  BY <1>11 DEF Allow, desktop, clipboard, request, history
<1>12. CASE Focus
  BY <1>12 DEF Focus, desktop, clipboard, request, history
<1>13. CASE Recheck
  BY <1>13 DEF Recheck, desktop, clipboard, request, history
<1>14. CASE CheckForeground
  BY <1>14 DEF CheckForeground, desktop, clipboard, request, history
<1>15. CASE CheckFocused
  BY <1>15 DEF CheckFocused, desktop, clipboard, request, history
<1>16. CASE Act
  BY <1>16 DEF Act, desktop, clipboard, request, history
<1>17. CASE ActFails
  BY <1>17 DEF ActFails, desktop, clipboard, request, history
<1>18. CASE Verify
  BY <1>18 DEF Verify, desktop, clipboard, request, history
<1>19. CASE NextStep
  BY <1>19 DEF NextStep, desktop, clipboard, request, history
<1>20. CASE Copy
  BY <1>20 DEF Copy, Kept, desktop, clipboard, request, history
<1>21. CASE CopyFails
  BY <1>21 DEF CopyFails, desktop, clipboard, request, history
<1>22. CASE Send
  BY <1>22 DEF Send, desktop, clipboard, request, history
<1>23. CASE SendFails
  BY <1>23 DEF SendFails, desktop, clipboard, request, history
<1>24. CASE Wait
  BY <1>24 DEF Wait, desktop, clipboard, request, history
<1>25. CASE Restore
  BY <1>25 DEF Restore, Restored, desktop, clipboard, request, history
<1>26. CASE RestoreFails
  BY <1>26 DEF RestoreFails, desktop, clipboard, request, history
<1>27. CASE FindAndFocus
  BY <1>27 DEF FindAndFocus, desktop, clipboard, request, history
<1>28. CASE ReadBounds
  BY <1>28 DEF ReadBounds, desktop, clipboard, request, history
<1>29. CASE SelectFrame
  BY <1>29 DEF SelectFrame, desktop, clipboard, request, history
<1>30. CASE Capture
  BY <1>30 DEF Capture, desktop, clipboard, request, history
<1>31. CASE Compare
  BY <1>31 DEF Compare, desktop, clipboard, request, history
<1> QED
  BY <1>1, <1>2, <1>3, <1>4, <1>5, <1>6, <1>7, <1>8, <1>9, <1>10, <1>11, <1>12, <1>13, <1>14, <1>15, <1>16, <1>17, <1>18, <1>19, <1>20, <1>21, <1>22, <1>23, <1>24, <1>25, <1>26, <1>27, <1>28, <1>29, <1>30, <1>31 DEF Next, Adapter, Environment

LEMMA QueueStep == TypeInv /\ [Next]_vars => QueueType'
<1> SUFFICES ASSUME TypeInv, [Next]_vars PROVE QueueType'
  OBVIOUS
<1> USE DEF TypeInv, QueueType, StepType
<1>1. CASE UNCHANGED vars
  BY <1>1 DEF vars, desktop, clipboard, request, history
<1>2. CASE Requests
  BY <1>2, PlanAssumption DEF Requests, Request, desktop, clipboard, history
<1>3. ASSUME NEW w \in Windows, Activate(w) PROVE QueueType'
  BY <1>3 DEF Activate, Moved, desktop, clipboard, request, history
<1>4. ASSUME NEW w \in Windows, OpenDialog(w) PROVE QueueType'
  BY <1>4 DEF OpenDialog, Moved, desktop, clipboard, request, history
<1>5. ASSUME NEW w \in Windows, Close(w) PROVE QueueType'
  BY <1>5 DEF Close, Moved, desktop, clipboard, request, history
<1>6. CASE Disturb
  BY <1>6 DEF Disturb, Moved, desktop, clipboard, request, history
<1>7. CASE CopyElsewhere
  BY <1>7 DEF CopyElsewhere, Moved, desktop, clipboard, request, history
<1>8. CASE OpenToRead
  BY <1>8 DEF OpenToRead, Moved, desktop, clipboard, request, history
<1>9. CASE TakeText
  BY <1>9 DEF TakeText, Moved, desktop, clipboard, request, history
<1>10. CASE Select
  BY <1>10 DEF Select, desktop, clipboard, request, history
<1>11. CASE Allow
  BY <1>11 DEF Allow, desktop, clipboard, request, history
<1>12. CASE Focus
  BY <1>12 DEF Focus, desktop, clipboard, request, history
<1>13. CASE Recheck
  BY <1>13 DEF Recheck, desktop, clipboard, request, history
<1>14. CASE CheckForeground
  BY <1>14 DEF CheckForeground, desktop, clipboard, request, history
<1>15. CASE CheckFocused
  BY <1>15 DEF CheckFocused, desktop, clipboard, request, history
<1>16. CASE Act
  BY <1>16 DEF Act, desktop, clipboard, request, history
<1>17. CASE ActFails
  BY <1>17 DEF ActFails, desktop, clipboard, request, history
<1>18. CASE Verify
  BY <1>18 DEF Verify, desktop, clipboard, request, history
<1>19. CASE NextStep
  BY <1>19 DEF NextStep, desktop, clipboard, request, history
<1>20. CASE Copy
  BY <1>20 DEF Copy, desktop, clipboard, request, history
<1>21. CASE CopyFails
  BY <1>21 DEF CopyFails, desktop, clipboard, request, history
<1>22. CASE Send
  BY <1>22 DEF Send, desktop, clipboard, request, history
<1>23. CASE SendFails
  BY <1>23 DEF SendFails, desktop, clipboard, request, history
<1>24. CASE Wait
  BY <1>24 DEF Wait, desktop, clipboard, request, history
<1>25. CASE Restore
  BY <1>25 DEF Restore, desktop, clipboard, request, history
<1>26. CASE RestoreFails
  BY <1>26 DEF RestoreFails, desktop, clipboard, request, history
<1>27. CASE FindAndFocus
  BY <1>27 DEF FindAndFocus, desktop, clipboard, request, history
<1>28. CASE ReadBounds
  BY <1>28 DEF ReadBounds, desktop, clipboard, request, history
<1>29. CASE SelectFrame
  BY <1>29 DEF SelectFrame, desktop, clipboard, request, history
<1>30. CASE Capture
  BY <1>30 DEF Capture, desktop, clipboard, request, history
<1>31. CASE Compare
  BY <1>31 DEF Compare, desktop, clipboard, request, history
<1> QED
  BY <1>1, <1>2, <1>3, <1>4, <1>5, <1>6, <1>7, <1>8, <1>9, <1>10, <1>11, <1>12, <1>13, <1>14, <1>15, <1>16, <1>17, <1>18, <1>19, <1>20, <1>21, <1>22, <1>23, <1>24, <1>25, <1>26, <1>27, <1>28, <1>29, <1>30, <1>31 DEF Next, Adapter, Environment

LEMMA ControlStep == TypeInv /\ [Next]_vars => ControlType'
<1> SUFFICES ASSUME TypeInv, [Next]_vars PROVE ControlType'
  OBVIOUS
<1> USE DEF TypeInv, ControlType, Goto, Answer
<1>1. CASE UNCHANGED vars
  BY <1>1 DEF vars, desktop, clipboard, request, history
<1>2. CASE Requests
  BY <1>2, PlanAssumption DEF Requests, Request, desktop, clipboard, history
<1>3. ASSUME NEW w \in Windows, Activate(w) PROVE ControlType'
  BY <1>3 DEF Activate, Moved, desktop, clipboard, request, history
<1>4. ASSUME NEW w \in Windows, OpenDialog(w) PROVE ControlType'
  BY <1>4 DEF OpenDialog, Moved, desktop, clipboard, request, history
<1>5. ASSUME NEW w \in Windows, Close(w) PROVE ControlType'
  BY <1>5 DEF Close, Moved, desktop, clipboard, request, history
<1>6. CASE Disturb
  BY <1>6 DEF Disturb, Moved, desktop, clipboard, request, history
<1>7. CASE CopyElsewhere
  BY <1>7 DEF CopyElsewhere, Moved, desktop, clipboard, request, history
<1>8. CASE OpenToRead
  BY <1>8 DEF OpenToRead, Moved, desktop, clipboard, request, history
<1>9. CASE TakeText
  BY <1>9 DEF TakeText, Moved, desktop, clipboard, request, history
<1>10. CASE Select
  BY <1>10 DEF Select, desktop, clipboard, request, history
<1>11. CASE Allow
  BY <1>11 DEF Allow, desktop, clipboard, request, history
<1>12. CASE Focus
  BY <1>12 DEF Focus, desktop, clipboard, request, history
<1>13. CASE Recheck
  BY <1>13 DEF Recheck, desktop, clipboard, request, history
<1>14. CASE CheckForeground
  BY <1>14 DEF CheckForeground, Deliver, desktop, clipboard, request, history
<1>15. CASE CheckFocused
  BY <1>15 DEF CheckFocused, Deliver, desktop, clipboard, request, history
<1>16. CASE Act
  BY <1>16 DEF Act, desktop, clipboard, request, history
<1>17. CASE ActFails
  BY <1>17 DEF ActFails, desktop, clipboard, request, history
<1>18. CASE Verify
  BY <1>18 DEF Verify, desktop, clipboard, request, history
<1>19. CASE NextStep
  BY <1>19 DEF NextStep, desktop, clipboard, request, history
<1>20. CASE Copy
  BY <1>20 DEF Copy, desktop, clipboard, request, history
<1>21. CASE CopyFails
  BY <1>21 DEF CopyFails, desktop, clipboard, request, history
<1>22. CASE Send
  BY <1>22 DEF Send, desktop, clipboard, request, history
<1>23. CASE SendFails
  BY <1>23 DEF SendFails, desktop, clipboard, request, history
<1>24. CASE Wait
  BY <1>24 DEF Wait, desktop, clipboard, request, history
<1>25. CASE Restore
  BY <1>25 DEF Restore, desktop, clipboard, request, history
<1>26. CASE RestoreFails
  BY <1>26 DEF RestoreFails, desktop, clipboard, request, history
<1>27. CASE FindAndFocus
  BY <1>27 DEF FindAndFocus, desktop, clipboard, request, history
<1>28. CASE ReadBounds
  BY <1>28 DEF ReadBounds, Deliver, desktop, clipboard, request, history
<1>29. CASE SelectFrame
  BY <1>29 DEF SelectFrame, desktop, clipboard, request, history
<1>30. CASE Capture
  BY <1>30 DEF Capture, desktop, clipboard, request, history
<1>31. CASE Compare
  BY <1>31 DEF Compare, desktop, clipboard, request, history
<1> QED
  BY <1>1, <1>2, <1>3, <1>4, <1>5, <1>6, <1>7, <1>8, <1>9, <1>10, <1>11, <1>12, <1>13, <1>14, <1>15, <1>16, <1>17, <1>18, <1>19, <1>20, <1>21, <1>22, <1>23, <1>24, <1>25, <1>26, <1>27, <1>28, <1>29, <1>30, <1>31 DEF Next, Adapter, Environment

LEMMA StepStep == TypeInv /\ [Next]_vars => StepType'
<1> SUFFICES ASSUME TypeInv, [Next]_vars PROVE StepType'
  OBVIOUS
<1> USE DEF TypeInv, StepType, ControlType, Goto, Answer
<1>1. CASE UNCHANGED vars
  BY <1>1 DEF vars, desktop, clipboard, request, history
<1>2. CASE Requests
  BY <1>2, PlanAssumption DEF Requests, Request, desktop, clipboard, history
<1>3. ASSUME NEW w \in Windows, Activate(w) PROVE StepType'
  BY <1>3 DEF Activate, Moved, desktop, clipboard, request, history
<1>4. ASSUME NEW w \in Windows, OpenDialog(w) PROVE StepType'
  BY <1>4 DEF OpenDialog, Moved, desktop, clipboard, request, history
<1>5. ASSUME NEW w \in Windows, Close(w) PROVE StepType'
  BY <1>5 DEF Close, Moved, desktop, clipboard, request, history
<1>6. CASE Disturb
  BY <1>6 DEF Disturb, Moved, desktop, clipboard, request, history
<1>7. CASE CopyElsewhere
  BY <1>7 DEF CopyElsewhere, Moved, desktop, clipboard, request, history
<1>8. CASE OpenToRead
  BY <1>8 DEF OpenToRead, Moved, desktop, clipboard, request, history
<1>9. CASE TakeText
  BY <1>9 DEF TakeText, Moved, desktop, clipboard, request, history
<1>10. CASE Select
  BY <1>10 DEF Select, desktop, clipboard, request, history
<1>11. CASE Allow
  BY <1>11 DEF Allow, desktop, clipboard, request, history
<1>12. CASE Focus
  BY <1>12 DEF Focus, desktop, clipboard, request, history
<1>13. CASE Recheck
  BY <1>13 DEF Recheck, desktop, clipboard, request, history
<1>14. CASE CheckForeground
  BY <1>14 DEF CheckForeground, desktop, clipboard, request, history
<1>15. CASE CheckFocused
  BY <1>15 DEF CheckFocused, desktop, clipboard, request, history
<1>16. CASE Act
  BY <1>16 DEF Act, desktop, clipboard, request, history
<1>17. CASE ActFails
  BY <1>17 DEF ActFails, desktop, clipboard, request, history
<1>18. CASE Verify
  BY <1>18 DEF Verify, desktop, clipboard, request, history
<1>19. CASE NextStep
  BY <1>19 DEF NextStep, desktop, clipboard, request, history
<1>20. CASE Copy
  BY <1>20 DEF Copy, desktop, clipboard, request, history
<1>21. CASE CopyFails
  BY <1>21 DEF CopyFails, desktop, clipboard, request, history
<1>22. CASE Send
  BY <1>22 DEF Send, desktop, clipboard, request, history
<1>23. CASE SendFails
  BY <1>23 DEF SendFails, desktop, clipboard, request, history
<1>24. CASE Wait
  BY <1>24 DEF Wait, desktop, clipboard, request, history
<1>25. CASE Restore
  BY <1>25 DEF Restore, desktop, clipboard, request, history
<1>26. CASE RestoreFails
  BY <1>26 DEF RestoreFails, desktop, clipboard, request, history
<1>27. CASE FindAndFocus
  BY <1>27 DEF FindAndFocus, desktop, clipboard, request, history
<1>28. CASE ReadBounds
  BY <1>28 DEF ReadBounds, desktop, clipboard, request, history
<1>29. CASE SelectFrame
  BY <1>29 DEF SelectFrame, desktop, clipboard, request, history
<1>30. CASE Capture
  BY <1>30 DEF Capture, desktop, clipboard, request, history
<1>31. CASE Compare
  BY <1>31 DEF Compare, desktop, clipboard, request, history
<1> QED
  BY <1>1, <1>2, <1>3, <1>4, <1>5, <1>6, <1>7, <1>8, <1>9, <1>10, <1>11, <1>12, <1>13, <1>14, <1>15, <1>16, <1>17, <1>18, <1>19, <1>20, <1>21, <1>22, <1>23, <1>24, <1>25, <1>26, <1>27, <1>28, <1>29, <1>30, <1>31 DEF Next, Adapter, Environment

LEMMA LocalStep == TypeInv /\ [Next]_vars => LocalType'
<1> SUFFICES ASSUME TypeInv, [Next]_vars PROVE LocalType'
  OBVIOUS
<1> USE DEF TypeInv, LocalType, WindowsType, ControlType, Parts
<1>1. CASE UNCHANGED vars
  BY <1>1 DEF vars, desktop, clipboard, request, history
<1>2. CASE Requests
  BY <1>2, PlanAssumption DEF Requests, Request, desktop, clipboard, history
<1>3. ASSUME NEW w \in Windows, Activate(w) PROVE LocalType'
  BY <1>3, WindowAssumption DEF Activate, Moved, desktop, clipboard, request, history
<1>4. ASSUME NEW w \in Windows, OpenDialog(w) PROVE LocalType'
  BY <1>4, WindowAssumption DEF OpenDialog, Moved, desktop, clipboard, request, history
<1>5. ASSUME NEW w \in Windows, Close(w) PROVE LocalType'
  BY <1>5, WindowAssumption DEF Close, Moved, desktop, clipboard, request, history
<1>6. CASE Disturb
  BY <1>6, WindowAssumption DEF Disturb, Moved, desktop, clipboard, request, history
<1>7. CASE CopyElsewhere
  BY <1>7, WindowAssumption DEF CopyElsewhere, Moved, desktop, clipboard, request, history
<1>8. CASE OpenToRead
  BY <1>8 DEF OpenToRead, Moved, desktop, clipboard, request, history
<1>9. CASE TakeText
  BY <1>9 DEF TakeText, Moved, desktop, clipboard, request, history
<1>10. CASE Select
  BY <1>10 DEF Select, Bounds, Away, desktop, clipboard, request, history
<1>11. CASE Allow
  BY <1>11, WindowAssumption DEF Allow, OwnerOrSelf, desktop, clipboard, request, history
<1>12. CASE Focus
  BY <1>12 DEF Focus, desktop, clipboard, request, history
<1>13. CASE Recheck
  BY <1>13 DEF Recheck, desktop, clipboard, request, history
<1>14. CASE CheckForeground
  BY <1>14 DEF CheckForeground, desktop, clipboard, request, history
<1>15. CASE CheckFocused
  BY <1>15 DEF CheckFocused, desktop, clipboard, request, history
<1>16. CASE Act
  BY <1>16 DEF Act, desktop, clipboard, request, history
<1>17. CASE ActFails
  BY <1>17 DEF ActFails, desktop, clipboard, request, history
<1>18. CASE Verify
  BY <1>18 DEF Verify, desktop, clipboard, request, history
<1>19. CASE NextStep
  BY <1>19 DEF NextStep, desktop, clipboard, request, history
<1>20. CASE Copy
  BY <1>20 DEF Copy, desktop, clipboard, request, history
<1>21. CASE CopyFails
  BY <1>21 DEF CopyFails, desktop, clipboard, request, history
<1>22. CASE Send
  BY <1>22 DEF Send, desktop, clipboard, request, history
<1>23. CASE SendFails
  BY <1>23 DEF SendFails, desktop, clipboard, request, history
<1>24. CASE Wait
  BY <1>24 DEF Wait, desktop, clipboard, request, history
<1>25. CASE Restore
  BY <1>25 DEF Restore, desktop, clipboard, request, history
<1>26. CASE RestoreFails
  BY <1>26 DEF RestoreFails, desktop, clipboard, request, history
<1>27. CASE FindAndFocus
  BY <1>27 DEF FindAndFocus, desktop, clipboard, request, history
<1>28. CASE ReadBounds
  BY <1>28 DEF ReadBounds, Bounds, Away, desktop, clipboard, request, history
<1>29. CASE SelectFrame
  BY <1>29 DEF SelectFrame, Bounds, Away, desktop, clipboard, request, history
<1>30. CASE Capture
  BY <1>30 DEF Capture, desktop, clipboard, request, history
<1>31. CASE Compare
  BY <1>31 DEF Compare, desktop, clipboard, request, history
<1> QED
  BY <1>1, <1>2, <1>3, <1>4, <1>5, <1>6, <1>7, <1>8, <1>9, <1>10, <1>11, <1>12, <1>13, <1>14, <1>15, <1>16, <1>17, <1>18, <1>19, <1>20, <1>21, <1>22, <1>23, <1>24, <1>25, <1>26, <1>27, <1>28, <1>29, <1>30, <1>31 DEF Next, Adapter, Environment

LEMMA EffectType ==
  ASSUME TypeInv, pc # "idle", NEW to \in Windows \cup {NULL}
  PROVE  Effect(to) \in EffectSet
  BY DEF TypeInv, WindowsType, ControlType, StepType, LocalType, Effect, EffectSet

\* What Act and Send add to the history, and who received it.
LEMMA EffectAdded ==
  ASSUME TypeInv, Act \/ Send
  PROVE  \E to \in Windows \cup {NULL} :
           /\ effects' = Append(effects, Effect(to)) /\ Effect(to) \in EffectSet
           /\ (Act /\ to \in Receivers) \/ (Send /\ to = front)
<1>1. CASE Act
  <2>1. pc # "idle" /\ \E to \in Receivers : effects' = Append(effects, Effect(to))
    BY <1>1 DEF Act
  <2> QED
    BY <1>1, <2>1, ReceiverType, EffectType
<1>2. CASE Send
  <2>1. pc # "idle" /\ effects' = Append(effects, Effect(front))
    BY <1>2 DEF Send
  <2> QED
    BY <1>2, <2>1, ReceiverType, EffectType
<1> QED
  BY <1>1, <1>2

LEMMA EffectsStep == TypeInv /\ [Next]_vars => effects' \in Seq(EffectSet)
<1> SUFFICES ASSUME TypeInv, [Next]_vars PROVE effects' \in Seq(EffectSet)
  OBVIOUS
<1>1. CASE Act \/ Send
  <2>1. PICK to : effects' = Append(effects, Effect(to)) /\ Effect(to) \in EffectSet
    BY <1>1, EffectAdded
  <2>2. effects \in Seq(EffectSet)
    BY DEF TypeInv
  <2> HIDE DEF Effect, EffectSet
  <2> QED
    BY <2>1, <2>2
<1>2. CASE ~(Act \/ Send)
  <2>1. effects' = effects
    BY <1>2 DEF Next, Requests, Request, Environment, Activate, OpenDialog, Close, Disturb, CopyElsewhere,
      OpenToRead, TakeText, Moved, Adapter, Select, Allow, Focus, Recheck, CheckForeground, CheckFocused,
      ActFails, Verify, NextStep, Copy, CopyFails, SendFails, Wait, Restore, RestoreFails, FindAndFocus,
      ReadBounds, SelectFrame, Capture, Compare, vars, history
  <2> QED
    BY <2>1 DEF TypeInv
<1> QED
  BY <1>1, <1>2

LEMMA TypeStep == TypeInv /\ [Next]_vars => TypeInv'
  BY WindowsStep, ClipboardStep, QueueStep, ControlStep, StepStep, LocalStep, EffectsStep DEF TypeInv
-----------------------------------------------------------------------------
(* What the invariants rest on, step by step of a request. *)

Pasting == {"send", "wait", "restore"}
Aimed == {"foreground", "focused", "act", "copy", "send"}

\* A step has no effect before it is delivered and exactly one afterwards.
Counted ==
  /\ \A n \in DOMAIN effects : effects[n].step = n
  /\ kind # "frame" =>
       /\ pc \in {"select", "allow", "focus", "recheck", "foreground", "focused", "act", "copy", "send", "find", "bounds"}
            => Len(effects) = step - 1
       /\ pc \in {"verify", "next", "wait"} => Len(effects) = step
       /\ pc = "restore" => Len(effects) = IF failing THEN step - 1 ELSE step
       /\ pc = "idle" => IF result = "done" THEN Len(effects) = Len(plan) ELSE Len(effects) \in {step - 1, step}
  /\ pc \in {"send", "wait"} => ~failing
  /\ pc = "idle" /\ result = "none" => effects = << >>

\* The text taken from the clipboard is kept until it is put back.
Given ==
  /\ pc \in Pasting /\ before \in Texts => saved = before
  /\ pc \notin Pasting /\ before \in Texts /\ ~faulty /\ ~copied => clip = before

\* Meanwhile the requested text is there.
Reading == (pc \in Pasting /\ ~copied => clip = "typed") /\ PasteIsRequested

\* The window is where it was when it was looked at last, and what may be in
\* front of it was collected for it.
Pinned ==
  /\ InputIsPinned
  /\ pc \in {"allow", "focus", "recheck"} => bounds # Away
  /\ "identity" \notin stale =>
       /\ kind = "visual" /\ pc = "bounds" => shown[target] = "open"
       /\ pc \in Aimed => shown[target] = "open" /\ Bounds(target) = bounds
  /\ kind = "input" /\ pc \in {"focus", "recheck"} \cup Aimed =>
       \A w \in allowed : w \in OwnerOrSelf(target) \/ (step > 1 /\ OwnedBy(w, target))
  /\ kind = "input" /\ pc \in Aimed \ {"foreground"} /\ "foreground" \notin stale => front \in allowed
  /\ pc = "idle" /\ result = "none" => effects = << >>

\* A frame shows the window, or the screen was not the window's alone.
Framed ==
  /\ pc = "capture" /\ stale = {} => shown[target] = "open" /\ Bounds(target) = bounds
  /\ pc = "compare" => frame.of = target \/ (~frame.printed /\ (stale # {} \/ MayCover(frame.of, target)))
  /\ FrameIsPinned

IInv == TypeInv /\ Counted /\ Given /\ Reading /\ Pinned /\ Framed

LEMMA InitInv == Init => IInv
<1> SUFFICES ASSUME Init PROVE IInv
  OBVIOUS
<1>1. TypeInv
  BY TypeInit
<1>2. Counted /\ Given /\ Reading /\ Pinned /\ Framed
  BY DEF Init, Counted, Given, Reading, Pinned, Framed, Pasting, Aimed, PasteIsRequested, InputIsPinned, FrameIsPinned
<1> QED
  BY <1>1, <1>2 DEF IInv

\* Only Act and Send have an effect; each is followed by verify, wait or restore.
LEMMA CountedStep == TypeInv /\ Counted /\ [Next]_vars => Counted'
<1> SUFFICES ASSUME TypeInv, Counted, [Next]_vars PROVE Counted'
  OBVIOUS
<1> USE DEF TypeInv, ControlType, StepType, Counted, Goto, Answer
<1>1. CASE UNCHANGED vars
  BY <1>1 DEF vars, desktop, clipboard, request, history
<1>2. CASE Requests
  BY <1>2, PlanAssumption DEF Requests, Request, desktop, clipboard, history
<1>3. ASSUME NEW w \in Windows, Activate(w) PROVE Counted'
  BY <1>3 DEF Activate, Moved, desktop, clipboard, request, history
<1>4. ASSUME NEW w \in Windows, OpenDialog(w) PROVE Counted'
  BY <1>4 DEF OpenDialog, Moved, desktop, clipboard, request, history
<1>5. ASSUME NEW w \in Windows, Close(w) PROVE Counted'
  BY <1>5 DEF Close, Moved, desktop, clipboard, request, history
<1>6. CASE Disturb
  BY <1>6 DEF Disturb, Moved, desktop, clipboard, request, history
<1>7. CASE CopyElsewhere
  BY <1>7 DEF CopyElsewhere, Moved, desktop, clipboard, request, history
<1>8. CASE OpenToRead
  BY <1>8 DEF OpenToRead, Moved, desktop, clipboard, request, history
<1>9. CASE TakeText
  BY <1>9 DEF TakeText, Moved, desktop, clipboard, request, history
<1>10. CASE Select
  BY <1>10 DEF Select, desktop, clipboard, request, history
<1>11. CASE Allow
  BY <1>11 DEF Allow, desktop, clipboard, request, history
<1>12. CASE Focus
  BY <1>12 DEF Focus, desktop, clipboard, request, history
<1>13. CASE Recheck
  BY <1>13 DEF Recheck, desktop, clipboard, request, history
<1>14. CASE CheckForeground
  BY <1>14 DEF CheckForeground, Deliver, desktop, clipboard, request, history
<1>15. CASE CheckFocused
  BY <1>15 DEF CheckFocused, Deliver, desktop, clipboard, request, history
<1>16. CASE Act
  BY <1>16 DEF Act, Effect, desktop, clipboard, request, history
<1>17. CASE ActFails
  BY <1>17 DEF ActFails, desktop, clipboard, request, history
<1>18. CASE Verify
  BY <1>18 DEF Verify, desktop, clipboard, request, history
<1>19. CASE NextStep
  BY <1>19 DEF NextStep, desktop, clipboard, request, history
<1>20. CASE Copy
  BY <1>20 DEF Copy, desktop, clipboard, request, history
<1>21. CASE CopyFails
  BY <1>21 DEF CopyFails, desktop, clipboard, request, history
<1>22. CASE Send
  BY <1>22 DEF Send, Effect, desktop, clipboard, request, history
<1>23. CASE SendFails
  BY <1>23 DEF SendFails, desktop, clipboard, request, history
<1>24. CASE Wait
  BY <1>24 DEF Wait, desktop, clipboard, request, history
<1>25. CASE Restore
  BY <1>25 DEF Restore, desktop, clipboard, request, history
<1>26. CASE RestoreFails
  BY <1>26 DEF RestoreFails, desktop, clipboard, request, history
<1>27. CASE FindAndFocus
  BY <1>27 DEF FindAndFocus, desktop, clipboard, request, history
<1>28. CASE ReadBounds
  BY <1>28 DEF ReadBounds, Deliver, desktop, clipboard, request, history
<1>29. CASE SelectFrame
  BY <1>29 DEF SelectFrame, desktop, clipboard, request, history
<1>30. CASE Capture
  BY <1>30 DEF Capture, desktop, clipboard, request, history
<1>31. CASE Compare
  BY <1>31 DEF Compare, desktop, clipboard, request, history
<1> QED
  BY <1>1, <1>2, <1>3, <1>4, <1>5, <1>6, <1>7, <1>8, <1>9, <1>10, <1>11, <1>12, <1>13, <1>14, <1>15, <1>16, <1>17, <1>18, <1>19, <1>20, <1>21, <1>22, <1>23, <1>24, <1>25, <1>26, <1>27, <1>28, <1>29, <1>30, <1>31 DEF Next, Adapter, Environment

\* Copy takes the text, Restore puts it back; in between nobody but another copy touches it.
LEMMA GivenStep == TypeInv /\ Given /\ [Next]_vars => Given'
<1> SUFFICES ASSUME TypeInv, Given, [Next]_vars PROVE Given'
  OBVIOUS
<1> USE DEF TypeInv, ControlType, ClipboardType, Given, Goto, Answer, Pasting, Clip, Texts
<1>1. CASE UNCHANGED vars
  BY <1>1 DEF vars, desktop, clipboard, request, history
<1>2. CASE Requests
  BY <1>2, PlanAssumption DEF Requests, Request, desktop, clipboard, history
<1>3. ASSUME NEW w \in Windows, Activate(w) PROVE Given'
  BY <1>3 DEF Activate, Moved, desktop, clipboard, request, history
<1>4. ASSUME NEW w \in Windows, OpenDialog(w) PROVE Given'
  BY <1>4 DEF OpenDialog, Moved, desktop, clipboard, request, history
<1>5. ASSUME NEW w \in Windows, Close(w) PROVE Given'
  BY <1>5 DEF Close, Moved, desktop, clipboard, request, history
<1>6. CASE Disturb
  BY <1>6 DEF Disturb, Moved, desktop, clipboard, request, history
<1>7. CASE CopyElsewhere
  BY <1>7 DEF CopyElsewhere, Moved, desktop, clipboard, request, history
<1>8. CASE OpenToRead
  BY <1>8 DEF OpenToRead, Moved, desktop, clipboard, request, history
<1>9. CASE TakeText
  BY <1>9 DEF TakeText, Moved, desktop, clipboard, request, history
<1>10. CASE Select
  BY <1>10 DEF Select, desktop, clipboard, request, history
<1>11. CASE Allow
  BY <1>11 DEF Allow, desktop, clipboard, request, history
<1>12. CASE Focus
  BY <1>12 DEF Focus, desktop, clipboard, request, history
<1>13. CASE Recheck
  BY <1>13 DEF Recheck, desktop, clipboard, request, history
<1>14. CASE CheckForeground
  BY <1>14 DEF CheckForeground, Deliver, desktop, clipboard, request, history
<1>15. CASE CheckFocused
  BY <1>15 DEF CheckFocused, Deliver, desktop, clipboard, request, history
<1>16. CASE Act
  BY <1>16 DEF Act, desktop, clipboard, request, history
<1>17. CASE ActFails
  BY <1>17 DEF ActFails, desktop, clipboard, request, history
<1>18. CASE Verify
  BY <1>18 DEF Verify, desktop, clipboard, request, history
<1>19. CASE NextStep
  BY <1>19 DEF NextStep, desktop, clipboard, request, history
<1>20. CASE Copy
  BY <1>20, NullAssumption DEF Copy, Kept, desktop, clipboard, request, history
<1>21. CASE CopyFails
  BY <1>21 DEF CopyFails, desktop, clipboard, request, history
<1>22. CASE Send
  BY <1>22 DEF Send, desktop, clipboard, request, history
<1>23. CASE SendFails
  BY <1>23 DEF SendFails, desktop, clipboard, request, history
<1>24. CASE Wait
  BY <1>24 DEF Wait, desktop, clipboard, request, history
<1>25. CASE Restore
  BY <1>25, NullAssumption DEF Restore, Restored, desktop, clipboard, request, history
<1>26. CASE RestoreFails
  BY <1>26 DEF RestoreFails, desktop, clipboard, request, history
<1>27. CASE FindAndFocus
  BY <1>27 DEF FindAndFocus, desktop, clipboard, request, history
<1>28. CASE ReadBounds
  BY <1>28 DEF ReadBounds, Deliver, desktop, clipboard, request, history
<1>29. CASE SelectFrame
  BY <1>29 DEF SelectFrame, desktop, clipboard, request, history
<1>30. CASE Capture
  BY <1>30 DEF Capture, desktop, clipboard, request, history
<1>31. CASE Compare
  BY <1>31 DEF Compare, desktop, clipboard, request, history
<1> QED
  BY <1>1, <1>2, <1>3, <1>4, <1>5, <1>6, <1>7, <1>8, <1>9, <1>10, <1>11, <1>12, <1>13, <1>14, <1>15, <1>16, <1>17, <1>18, <1>19, <1>20, <1>21, <1>22, <1>23, <1>24, <1>25, <1>26, <1>27, <1>28, <1>29, <1>30, <1>31 DEF Next, Adapter, Environment

\* The requested text is on the clipboard from Copy until Restore.
LEMMA ReadingStep == TypeInv /\ Reading /\ [Next]_vars => Reading'
<1> SUFFICES ASSUME TypeInv, Reading, [Next]_vars PROVE Reading'
  OBVIOUS
<1> USE DEF TypeInv, ControlType, ClipboardType, Reading, PasteIsRequested, Goto, Answer, Pasting
<1>1. CASE UNCHANGED vars
  BY <1>1 DEF vars, desktop, clipboard, request, history
<1>2. CASE Requests
  BY <1>2, PlanAssumption DEF Requests, Request, desktop, clipboard, history
<1>3. ASSUME NEW w \in Windows, Activate(w) PROVE Reading'
  BY <1>3 DEF Activate, Moved, desktop, clipboard, request, history
<1>4. ASSUME NEW w \in Windows, OpenDialog(w) PROVE Reading'
  BY <1>4 DEF OpenDialog, Moved, desktop, clipboard, request, history
<1>5. ASSUME NEW w \in Windows, Close(w) PROVE Reading'
  BY <1>5 DEF Close, Moved, desktop, clipboard, request, history
<1>6. CASE Disturb
  BY <1>6 DEF Disturb, Moved, desktop, clipboard, request, history
<1>7. CASE CopyElsewhere
  BY <1>7 DEF CopyElsewhere, Moved, desktop, clipboard, request, history
<1>8. CASE OpenToRead
  BY <1>8 DEF OpenToRead, Moved, desktop, clipboard, request, history
<1>9. CASE TakeText
  <2>1. clip' = clip /\ pc' = pc /\ copied' = copied
    BY <1>9 DEF TakeText
  <2>2. PICK l \in BOOLEAN : /\ (~l => pc \in Pasting)
                            /\ read' = read \cup {[text |-> clip, late |-> l, copied |-> copied]}
    <3>1. ~(~(Head(queue) = step /\ Due)) => pc \in Pasting
      BY DEF Due, Pasting
    <3> QED
      BY <1>9, <3>1 DEF TakeText
  <2> DEFINE r == [text |-> clip, late |-> l, copied |-> copied]
  <2>3. r.late = l /\ r.copied = copied /\ r.text = clip
    OBVIOUS
  <2>4. r.late \/ r.copied \/ r.text = "typed"
    BY <2>2, <2>3
  <2>5. read' = read \cup {r}
    BY <2>2
  <2> HIDE DEF r
  <2> QED
    BY <2>1, <2>4, <2>5
<1>10. CASE Select
  BY <1>10 DEF Select, desktop, clipboard, request, history
<1>11. CASE Allow
  BY <1>11 DEF Allow, desktop, clipboard, request, history
<1>12. CASE Focus
  BY <1>12 DEF Focus, desktop, clipboard, request, history
<1>13. CASE Recheck
  BY <1>13 DEF Recheck, desktop, clipboard, request, history
<1>14. CASE CheckForeground
  BY <1>14 DEF CheckForeground, Deliver, desktop, clipboard, request, history
<1>15. CASE CheckFocused
  BY <1>15 DEF CheckFocused, Deliver, desktop, clipboard, request, history
<1>16. CASE Act
  BY <1>16 DEF Act, desktop, clipboard, request, history
<1>17. CASE ActFails
  BY <1>17 DEF ActFails, desktop, clipboard, request, history
<1>18. CASE Verify
  BY <1>18 DEF Verify, desktop, clipboard, request, history
<1>19. CASE NextStep
  BY <1>19 DEF NextStep, desktop, clipboard, request, history
<1>20. CASE Copy
  BY <1>20 DEF Copy, desktop, clipboard, request, history
<1>21. CASE CopyFails
  BY <1>21 DEF CopyFails, desktop, clipboard, request, history
<1>22. CASE Send
  BY <1>22 DEF Send, desktop, clipboard, request, history
<1>23. CASE SendFails
  BY <1>23 DEF SendFails, desktop, clipboard, request, history
<1>24. CASE Wait
  BY <1>24 DEF Wait, desktop, clipboard, request, history
<1>25. CASE Restore
  BY <1>25 DEF Restore, desktop, clipboard, request, history
<1>26. CASE RestoreFails
  BY <1>26 DEF RestoreFails, desktop, clipboard, request, history
<1>27. CASE FindAndFocus
  BY <1>27 DEF FindAndFocus, desktop, clipboard, request, history
<1>28. CASE ReadBounds
  BY <1>28 DEF ReadBounds, Deliver, desktop, clipboard, request, history
<1>29. CASE SelectFrame
  BY <1>29 DEF SelectFrame, desktop, clipboard, request, history
<1>30. CASE Capture
  BY <1>30 DEF Capture, desktop, clipboard, request, history
<1>31. CASE Compare
  BY <1>31 DEF Compare, desktop, clipboard, request, history
<1> QED
  BY <1>1, <1>2, <1>3, <1>4, <1>5, <1>6, <1>7, <1>8, <1>9, <1>10, <1>11, <1>12, <1>13, <1>14, <1>15, <1>16, <1>17, <1>18, <1>19, <1>20, <1>21, <1>22, <1>23, <1>24, <1>25, <1>26, <1>27, <1>28, <1>29, <1>30, <1>31 DEF Next, Adapter, Environment

LEMMA AppendElement ==
  ASSUME NEW S, NEW s \in Seq(S), NEW x \in S, NEW n \in DOMAIN Append(s, x)
  PROVE  Append(s, x)[n] = x \/ (n \in DOMAIN s /\ Append(s, x)[n] = s[n])
  OBVIOUS

\* The allowed foreground windows, and with them what may cover the window, are its group.
LEMMA WithOwnersGrows ==
  ASSUME NEW ws
  PROVE  /\ ws \subseteq WithOwners(ws)
         /\ \A w \in ws \ {NULL} : Owner[w] \in WithOwners(ws)
  BY DEF WithOwners

LEMMA ChainStarts ==
  ASSUME NEW w \in Windows
  PROVE  OwnerOrSelf(w) \subseteq Chain(w)
<1> DEFINE Up(ws) == WithOwners(ws)
<1> DEFINE seven == Up(Up(Up(Up(Up(Up(Up({w})))))))
<1>1. w \in seven
  <2> HIDE DEF Up
  <2>1. \A ws : ws \subseteq Up(ws)
    BY WithOwnersGrows DEF Up
  <2> QED
    BY <2>1
<1>2. Chain(w) = Up(seven) \ {NULL}
  BY DEF Chain
<1> HIDE DEF seven
<1>3. w \in Up(seven) /\ Owner[w] \in Up(seven)
  BY <1>1, WithOwnersGrows, WindowAssumption
<1> QED
  BY <1>2, <1>3, WindowAssumption DEF OwnerOrSelf

LEMMA AllowedGroup ==
  ASSUME NEW w \in Windows, NEW v \in Windows, v \in OwnerOrSelf(w) \/ OwnedBy(v, w)
  PROVE  SameGroup(v, w)
<1>1. w \in Chain(w) /\ v \in Chain(v) /\ OwnerOrSelf(w) \subseteq Chain(w)
  BY ChainStarts, WindowAssumption DEF OwnerOrSelf
<1> QED
  BY <1>1 DEF OwnedBy, SameGroup

\* A window is of one group with itself, and who can be at its point then, too.
LEMMA PointGroup ==
  ASSUME NEW w \in Windows, OnScreen(w), SameGroup(front, w), NEW to \in AtPoint(w)
  PROVE  to \in Topmost \/ SameGroup(to, w)
<1>1. SameGroup(w, w)
  BY AllowedGroup, WindowAssumption DEF OwnerOrSelf
<1> QED
  BY <1>1 DEF AtPoint, MayCover

LEMMA PinnedEffect ==
  ASSUME TypeInv, Pinned, pc \in {"act", "send"}, NEW to,
         (pc = "act" /\ to \in Receivers) \/ (pc = "send" /\ to = front)
  PROVE  Pins(Effect(to))
<1>1. "identity" \notin stale => shown[target] = "open" /\ Bounds(target) = bounds
  BY DEF Pinned, Aimed
<1>2. kind = "input" /\ "foreground" \notin stale => front \in allowed
  BY DEF Pinned, Aimed
<1>3. kind = "input" =>
        \A w \in allowed : w \in OwnerOrSelf(target) \/ (step > 1 /\ OwnedBy(w, target))
  BY DEF Pinned, Aimed
<1>4. target \in Windows /\ allowed \subseteq Windows
  BY DEF TypeInv, ControlType, LocalType
<1>5. /\ Effect(to).stale = stale /\ Effect(to).step = step /\ Effect(to).to = to
      /\ Effect(to).pointer = (Operation \in Pointers)
      /\ Effect(to).pinned = (shown[target] = "open" /\ Bounds(target) = bounds)
  BY DEF Effect
<1>6. Operation \notin Pointers => to = front
  BY DEF Receivers
<1>7. kind = "input" /\ stale = {} => OnScreen(target) /\ SameGroup(front, target)
  BY <1>1, <1>2, <1>3, <1>4, AllowedGroup DEF OnScreen
<1>8. kind = "input" /\ stale = {} => to \in Topmost \/ SameGroup(to, target)
  BY <1>4, <1>7, PointGroup DEF Receivers
<1> HIDE DEF Effect, Receivers
<1> QED
  BY <1>1, <1>2, <1>3, <1>5, <1>6, <1>8 DEF Pins

\* What held of an effect holds as long as the request is the same.
LEMMA InputStays == InputIsPinned /\ UNCHANGED <<effects, kind, target>> => InputIsPinned'
  BY DEF InputIsPinned, Pins, OwnerOrSelf

LEMMA EffectPinned ==
  ASSUME TypeInv, Pinned, Act \/ Send, UNCHANGED <<kind, target>>
  PROVE  InputIsPinned'
<1>1. PICK to \in Windows \cup {NULL} :
        /\ effects' = Append(effects, Effect(to)) /\ Effect(to) \in EffectSet
        /\ (Act /\ to \in Receivers) \/ (Send /\ to = front)
  BY EffectAdded
<1>2. (pc = "act" /\ to \in Receivers) \/ (pc = "send" /\ to = front)
  BY <1>1 DEF Act, Send
<1>3. Pins(Effect(to))
  BY <1>2, PinnedEffect
<1>4. effects \in Seq(EffectSet) /\ \A n \in DOMAIN effects : Pins(effects[n])
  BY DEF TypeInv, Pinned, InputIsPinned
<1> DEFINE e == Effect(to)
<1> HIDE DEF e, EffectSet, Pins
<1>5. \A n \in DOMAIN effects' : Pins(effects'[n])
  BY <1>1, <1>3, <1>4, AppendElement DEF e
<1> HIDE DEF e
<1> QED
  BY <1>5 DEF InputIsPinned, Pins, OwnerOrSelf

\* Recheck and CheckForeground establish what Act and Send rely on; others only spoil it with a mark in stale.
LEMMA PinnedStep == TypeInv /\ Pinned /\ [Next]_vars => Pinned'
<1> SUFFICES ASSUME TypeInv, Pinned, [Next]_vars PROVE Pinned'
  OBVIOUS
<1> USE InputStays DEF TypeInv, ControlType, WindowsType, LocalType, Pinned, Bounds, Goto, Answer, Aimed, Parts, States
<1>1. CASE UNCHANGED vars
  BY <1>1 DEF vars, desktop, clipboard, request, history
<1>2. CASE Requests
  BY <1>2, PlanAssumption DEF InputIsPinned, Requests, Request, desktop, clipboard, history
<1>3. ASSUME NEW w \in Windows, Activate(w) PROVE Pinned'
  BY <1>3 DEF Activate, Moved, desktop, clipboard, request, history
<1>4. ASSUME NEW w \in Windows, OpenDialog(w) PROVE Pinned'
  BY <1>4 DEF OpenDialog, Moved, desktop, clipboard, request, history
<1>5. ASSUME NEW w \in Windows, Close(w) PROVE Pinned'
  BY <1>5 DEF Close, Moved, desktop, clipboard, request, history
<1>6. CASE Disturb
  BY <1>6 DEF Disturb, Moved, desktop, clipboard, request, history
<1>7. CASE CopyElsewhere
  BY <1>7 DEF CopyElsewhere, Moved, desktop, clipboard, request, history
<1>8. CASE OpenToRead
  BY <1>8 DEF OpenToRead, Moved, desktop, clipboard, request, history
<1>9. CASE TakeText
  BY <1>9 DEF TakeText, Moved, desktop, clipboard, request, history
<1>10. CASE Select
  <2>1. UNCHANGED <<desktop, kind, target, step, effects>> /\ pc' \in {"idle", "allow"} /\ stale' = {}
    BY <1>10 DEF Select
  <2>2. InputIsPinned'
    BY <2>1, InputStays
  <2>3. pc' = "idle" => result' # "none"
    BY <1>10 DEF Select
  <2>4. pc' = "allow" => bounds' # Away
    <3>1. SUFFICES ASSUME pc' = "allow" PROVE bounds' # Away
      OBVIOUS
    <3>2. shown[target] # "minimized" /\ bounds' = Bounds(target)
      BY <1>10, <3>1 DEF Select
    <3>3. bounds' = place[target] /\ place[target] \in {0, 1}
      BY <3>2, <1>10 DEF Select
    <3>4. bounds' \in {0, 1}
      BY <3>3
    <3> HIDE DEF TypeInv, Pinned, InputIsPinned, ControlType, WindowsType, LocalType
    <3> QED
      BY <3>4 DEF Away
  <2> QED
    BY <2>1, <2>2, <2>3, <2>4
<1>11. CASE Allow
  BY <1>11 DEF Allow, OwnerOrSelf, InSequence, desktop, clipboard, request, history
<1>12. CASE Focus
  BY <1>12 DEF Focus, desktop, clipboard, request, history
<1>13. CASE Recheck
  BY <1>13 DEF Recheck, Selectable, desktop, clipboard, request, history
<1>14. CASE CheckForeground
  BY <1>14 DEF CheckForeground, Deliver, desktop, clipboard, request, history
<1>15. CASE CheckFocused
  BY <1>15 DEF CheckFocused, Deliver, desktop, clipboard, request, history
<1>16. CASE Act
  <2>1. /\ pc = "act" /\ UNCHANGED <<kind, target>>
        /\ pc' \notin {"idle", "allow", "focus", "recheck", "bounds"} \cup Aimed
    BY <1>16 DEF Act, request
  <2>2. InputIsPinned'
    BY <1>16, <2>1, EffectPinned
  <2> HIDE DEF Bounds
  <2> QED
    BY <2>1, <2>2
<1>17. CASE ActFails
  BY <1>17 DEF ActFails, desktop, clipboard, request, history
<1>18. CASE Verify
  BY <1>18 DEF Verify, desktop, clipboard, request, history
<1>19. CASE NextStep
  BY <1>19 DEF NextStep, desktop, clipboard, request, history
<1>20. CASE Copy
  BY <1>20 DEF Copy, desktop, clipboard, request, history
<1>21. CASE CopyFails
  BY <1>21 DEF CopyFails, desktop, clipboard, request, history
<1>22. CASE Send
  <2>1. /\ pc = "send" /\ UNCHANGED <<kind, target>>
        /\ pc' \notin {"idle", "allow", "focus", "recheck", "bounds"} \cup Aimed
    BY <1>22 DEF Send, request
  <2>2. InputIsPinned'
    BY <1>22, <2>1, EffectPinned
  <2> HIDE DEF Bounds
  <2> QED
    BY <2>1, <2>2
<1>23. CASE SendFails
  BY <1>23 DEF SendFails, desktop, clipboard, request, history
<1>24. CASE Wait
  BY <1>24 DEF Wait, desktop, clipboard, request, history
<1>25. CASE Restore
  BY <1>25 DEF Restore, desktop, clipboard, request, history
<1>26. CASE RestoreFails
  BY <1>26 DEF RestoreFails, desktop, clipboard, request, history
<1>27. CASE FindAndFocus
  BY <1>27 DEF FindAndFocus, Selectable, desktop, clipboard, request, history
<1>28. CASE ReadBounds
  BY <1>28 DEF ReadBounds, Deliver, desktop, clipboard, request, history
<1>29. CASE SelectFrame
  BY <1>29 DEF SelectFrame, desktop, clipboard, request, history
<1>30. CASE Capture
  BY <1>30 DEF Capture, desktop, clipboard, request, history
<1>31. CASE Compare
  BY <1>31 DEF Compare, desktop, clipboard, request, history
<1> QED
  BY <1>1, <1>2, <1>3, <1>4, <1>5, <1>6, <1>7, <1>8, <1>9, <1>10, <1>11, <1>12, <1>13, <1>14, <1>15, <1>16, <1>17, <1>18, <1>19, <1>20, <1>21, <1>22, <1>23, <1>24, <1>25, <1>26, <1>27, <1>28, <1>29, <1>30, <1>31 DEF Next, Adapter, Environment

\* Whether a window may cover another does not change while the desktop does not.
LEMMA CoverStays ==
  UNCHANGED <<shown, front, target, frame>> => MayCover(frame.of, target)' = MayCover(frame.of, target)
  BY DEF MayCover, OnScreen

\* SelectFrame notes the bounds, Capture and Compare look again.
LEMMA FramedStep == TypeInv /\ Framed /\ [Next]_vars => Framed'
<1> SUFFICES ASSUME TypeInv, Framed, [Next]_vars PROVE Framed'
  OBVIOUS
<1> USE CoverStays DEF TypeInv, ControlType, WindowsType, LocalType, Framed, FrameIsPinned, Bounds, Goto, Answer, Parts, States
<1>1. CASE UNCHANGED vars
  BY <1>1 DEF vars, desktop, clipboard, request, history
<1>2. CASE Requests
  BY <1>2, PlanAssumption DEF Requests, Request, desktop, clipboard, history
<1>3. ASSUME NEW w \in Windows, Activate(w) PROVE Framed'
  BY <1>3 DEF Activate, Moved, desktop, clipboard, request, history
<1>4. ASSUME NEW w \in Windows, OpenDialog(w) PROVE Framed'
  BY <1>4 DEF OpenDialog, Moved, desktop, clipboard, request, history
<1>5. ASSUME NEW w \in Windows, Close(w) PROVE Framed'
  BY <1>5 DEF Close, Moved, desktop, clipboard, request, history
<1>6. CASE Disturb
  BY <1>6 DEF Disturb, Moved, desktop, clipboard, request, history
<1>7. CASE CopyElsewhere
  BY <1>7 DEF CopyElsewhere, Moved, desktop, clipboard, request, history
<1>8. CASE OpenToRead
  BY <1>8 DEF OpenToRead, Moved, desktop, clipboard, request, history
<1>9. CASE TakeText
  BY <1>9 DEF TakeText, Moved, desktop, clipboard, request, history
<1>10. CASE Select
  BY <1>10 DEF Select, desktop, clipboard, request, history
<1>11. CASE Allow
  BY <1>11 DEF Allow, desktop, clipboard, request, history
<1>12. CASE Focus
  BY <1>12 DEF Focus, desktop, clipboard, request, history
<1>13. CASE Recheck
  BY <1>13 DEF Recheck, desktop, clipboard, request, history
<1>14. CASE CheckForeground
  BY <1>14 DEF CheckForeground, Deliver, desktop, clipboard, request, history
<1>15. CASE CheckFocused
  BY <1>15 DEF CheckFocused, Deliver, desktop, clipboard, request, history
<1>16. CASE Act
  BY <1>16 DEF Act, desktop, clipboard, request, history
<1>17. CASE ActFails
  BY <1>17 DEF ActFails, desktop, clipboard, request, history
<1>18. CASE Verify
  BY <1>18 DEF Verify, desktop, clipboard, request, history
<1>19. CASE NextStep
  BY <1>19 DEF NextStep, desktop, clipboard, request, history
<1>20. CASE Copy
  BY <1>20 DEF Copy, desktop, clipboard, request, history
<1>21. CASE CopyFails
  BY <1>21 DEF CopyFails, desktop, clipboard, request, history
<1>22. CASE Send
  BY <1>22 DEF Send, desktop, clipboard, request, history
<1>23. CASE SendFails
  BY <1>23 DEF SendFails, desktop, clipboard, request, history
<1>24. CASE Wait
  BY <1>24 DEF Wait, desktop, clipboard, request, history
<1>25. CASE Restore
  BY <1>25 DEF Restore, desktop, clipboard, request, history
<1>26. CASE RestoreFails
  BY <1>26 DEF RestoreFails, desktop, clipboard, request, history
<1>27. CASE FindAndFocus
  BY <1>27 DEF FindAndFocus, desktop, clipboard, request, history
<1>28. CASE ReadBounds
  BY <1>28 DEF ReadBounds, Deliver, desktop, clipboard, request, history
<1>29. CASE SelectFrame
  BY <1>29 DEF SelectFrame, Selectable, desktop, clipboard, request, history
<1>30. CASE Capture
  <2>1. /\ pc = "capture" /\ pc' = "compare" /\ UNCHANGED <<shown, place, front, target, stale>>
        /\ \/ frame'.of = target
           \/ frame'.of \in Grabbed /\ frame'.printed = FALSE
    BY <1>30 DEF Capture, desktop, request
  <2>2. stale = {} => frame'.of = target \/ MayCover(frame'.of, target)
    <3>1. stale = {} => Grabbed = {target} \cup {v \in Windows : MayCover(v, target)}
      BY <2>1 DEF Grabbed, AtPoint, OnScreen
    <3>2. CASE frame'.of \in Grabbed
      BY <3>1, <3>2
    <3> QED
      BY <2>1, <3>2
  <2>3. MayCover(frame'.of, target) => MayCover(frame.of, target)'
    BY <2>1 DEF MayCover, OnScreen
  <2>4. frame'.of = target' \/ (~frame'.printed /\ (stale' # {} \/ MayCover(frame.of, target)'))
    BY <2>1, <2>2, <2>3
  <2> QED
    BY <2>1, <2>4
<1>31. CASE Compare
  BY <1>31 DEF Compare, Selectable, desktop, clipboard, request, history
<1> QED
  BY <1>1, <1>2, <1>3, <1>4, <1>5, <1>6, <1>7, <1>8, <1>9, <1>10, <1>11, <1>12, <1>13, <1>14, <1>15, <1>16, <1>17, <1>18, <1>19, <1>20, <1>21, <1>22, <1>23, <1>24, <1>25, <1>26, <1>27, <1>28, <1>29, <1>30, <1>31 DEF Next, Adapter, Environment

\* The conjunction is inductive.
LEMMA StepInv == IInv /\ [Next]_vars => IInv'
  BY TypeStep, CountedStep, GivenStep, ReadingStep, PinnedStep, FramedStep DEF IInv

LEMMA Invariance == Spec => []IInv
  BY InitInv, StepInv, PTL DEF Spec

-----------------------------------------------------------------------------
(* Theorems. *)

\* The type invariant, for any windows, plans and number of moves.
THEOREM TypeCorrect == Spec => []DesktopTypeOK
<1>1. IInv => DesktopTypeOK
  BY TypeMeaning DEF IInv
<1> QED
  BY <1>1, Invariance, PTL

\* Inputs are sent while the pinned window is where it was selected; keys reach it, its
\* owner or a window it owns, and a click a window of that group or one that is always on
\* top (input and input_sequence of the desktop adapter).
THEOREM InputsPinned == Spec => []InputIsPinned
<1>1. IInv => InputIsPinned
  BY DEF IInv, Pinned
<1> QED
  BY <1>1, Invariance, PTL

\* The steps of a sequence take effect in order and once, and an error leaves at
\* most the step it was raised at in doubt (input_sequence).
THEOREM StepsAccounted == Spec => []SequenceAccounted
<1>1. IInv => SequenceAccounted
  BY DEF IInv, Counted, SequenceAccounted
<1> QED
  BY <1>1, Invariance, PTL

\* The clipboard's text is given back after every paste (_paste_unicode).
THEOREM ClipboardReturned == Spec => []ClipboardGivenBack
<1>1. IInv => ClipboardGivenBack
  BY DEF IInv, Given, ClipboardGivenBack, Pasting
<1> QED
  BY <1>1, Invariance, PTL

\* What an application reads in time is what was to be typed.
THEOREM PasteRequested == Spec => []PasteIsRequested
<1>1. IInv => PasteIsRequested
  BY DEF IInv, Reading
<1> QED
  BY <1>1, Invariance, PTL

\* A frame that is returned is one of the pinned window, at its bounds (snapshot).
THEOREM FramesPinned == Spec => []FrameIsPinned
<1>1. IInv => FrameIsPinned
  BY DEF IInv, Framed
<1> QED
  BY <1>1, Invariance, PTL
=============================================================================
