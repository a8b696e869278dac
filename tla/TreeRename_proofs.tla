-------------------------- MODULE TreeRename_proofs --------------------------
(***************************************************************************)
(* Proofs about TreeRename: its types, and that a rename touches only what it *)
(* pinned and reports what the tree shows, as long as only the adapter        *)
(* touches the tree, however late the application takes the keys.             *)
(***************************************************************************)
EXTENDS TreeRename, FiniteSetTheorems, TLAPS

-----------------------------------------------------------------------------
(* Types. *)

LEMMA InitType == Init => TypeOK
<1> SUFFICES ASSUME Init PROVE TypeOK
  OBVIOUS
<1>1. Cardinality(Items) \in Nat
  BY ItemsAssumption, FS_CardinalityType
<1>2. order \in Seq(Items)
  BY <1>1 DEF Init
<1>3. asked \in 0..MaxRequests /\ meddled \in 0..MaxMeddling
  BY BoundsAssumption DEF Init
<1> QED
  BY <1>2, <1>3 DEF Init, TypeOK, Resolved

\* What a return leaves behind has its type.
LEMMA ReturnType ==
  ASSUME TypeOK, pc # "idle", NEW r \in Results, Return(r)
  PROVE  /\ pc' \in {"idle", "resolve"} /\ req' = req
         /\ leg' \in {"forward", "reverse"} /\ phase' \in {"forward", "rollback"}
         /\ item' \in Items \cup {NULL} /\ handle' \in {0, handle}
         /\ before' \in Names \cup {NULL} /\ after' \in Names \cup {NULL}
         /\ result' \in Results \cup {NULL} /\ asked' = asked /\ pins' = pins
<1>1. req.source \in Names /\ r.performed \in BOOLEAN /\ r.after \in Names \cup {NULL}
  BY DEF TypeOK, Requests, Results
<1>2. Reported(r) \in Results
  BY <1>1 DEF Reported, Results
<1> QED
  BY <1>1, <1>2 DEF Return, ReturnProbing, TypeOK

\* So does an exception.
LEMMA RaiseType ==
  ASSUME TypeOK, pc # "idle", Raise
  PROVE  /\ pc' \in {"idle", "resolve", "reread"} /\ req' = req
         /\ leg' \in {"forward", "reverse"} /\ phase' \in {"forward", "rollback"}
         /\ item' \in Items \cup {NULL} /\ handle' \in {0, handle}
         /\ before' \in Names \cup {NULL} /\ after' \in Names \cup {NULL}
         /\ result' \in Results \cup {NULL} /\ asked' = asked /\ pins' = pins
<1>1. CASE phase = "forward"
  BY <1>1 DEF Raise, locals, TypeOK
<1>2. CASE phase # "forward"
  <2>1. [performed |-> FALSE, before |-> before, after |-> after,
         attempted |-> TRUE, succeeded |-> FALSE] \in Results
    BY DEF TypeOK, Results
  <2> QED
    BY <1>2, <2>1, ReturnType DEF Raise
<1> QED
  BY <1>1, <1>2

LEMMA PressType ==
  ASSUME TypeOK, NEW key \in {"F2", "ENTER", "ESC"}, Press(key)
  PROVE  keys' \in Seq({"F2", "ENTER", "ESC"})
  BY DEF Press, TypeOK

LEMMA DequeueType ==
  ASSUME TypeOK, NEW key, Dequeue(key)
  PROVE  keys' \in Seq({"F2", "ENTER", "ESC"})
  BY DEF Dequeue, TypeOK

\* A step that returns or raises, and touches no more than the editor's text.
LEMMA LeaveEditing ==
  ASSUME TypeOK, pc # "idle", UNCHANGED <<order, name, selection, handles, meddled>>,
         editor' \in Editors \cup {NULL}, editor' # NULL => editor'.handle <= handles,
         keys' \in Seq({"F2", "ENTER", "ESC"}),
         Raise \/ \E r \in Results : Return(r)
  PROVE  TypeOK'
<1>1. /\ pc' \in {"idle", "resolve", "reread"} /\ req' = req
      /\ leg' \in {"forward", "reverse"} /\ phase' \in {"forward", "rollback"}
      /\ item' \in Items \cup {NULL} /\ handle' \in {0, handle}
      /\ before' \in Names \cup {NULL} /\ after' \in Names \cup {NULL}
      /\ result' \in Results \cup {NULL} /\ asked' = asked /\ pins' = pins
  BY ReturnType, RaiseType
<1> QED
  BY <1>1 DEF TypeOK, app, Resolved

LEMMA LeaveType ==
  ASSUME TypeOK, pc # "idle", UNCHANGED <<app, meddled>>,
         keys' \in Seq({"F2", "ENTER", "ESC"}),
         Raise \/ \E r \in Results : Return(r)
  PROVE  TypeOK'
  BY LeaveEditing DEF app, TypeOK

LEMMA TextThereType ==
  ASSUME TypeOK PROVE TextThere \in Names \cup {NULL}
  BY DEF TextThere, TypeOK

LEMMA TextTypes ==
  ASSUME TypeOK, pc # "idle"
  PROVE  Source \in Names /\ Target \in Names /\ Text \in Names
  BY DEF Source, Target, Text, TypeOK, Requests

LEMMA NextType == TypeOK /\ [Next]_vars => TypeOK'
<1> SUFFICES ASSUME TypeOK, [Next]_vars PROVE TypeOK'
  OBVIOUS
<1>1. ASSUME NEW r \in Requests, Ask(r) PROVE TypeOK'
  BY <1>1, BoundsAssumption DEF Ask, TypeOK, app, Resolved
<1>2. CASE Resolve
  <2>1. item' \in Items
    BY <1>2, TextTypes, NullAssumption DEF Resolve, TextThere, TypeOK
  <2> QED
    BY <1>2, <2>1, TextTypes DEF Resolve, TypeOK, app, Resolved
<1>3. CASE Unresolved
  BY <1>3, LeaveType DEF Unresolved, TypeOK
<1>4. CASE ReadSource
  BY <1>4, TextTypes DEF ReadSource, TypeOK, app, Resolved
<1>5. CASE ReadOther
  <2>1. [performed |-> FALSE, before |-> name[item], after |-> name[item],
         attempted |-> FALSE, succeeded |-> FALSE] \in Results
    BY <1>5 DEF ReadOther, TypeOK, Resolved, Results
  <2> QED
    BY <1>5, <2>1, LeaveType DEF ReadOther, TypeOK
<1>6. CASE CheckEditor
  <2>1. CASE editor = NULL
    BY <1>6, <2>1 DEF CheckEditor, TypeOK, app, locals, Resolved
  <2>2. CASE editor # NULL
    BY <1>6, <2>2, LeaveType DEF CheckEditor, TypeOK
  <2> QED
    BY <2>1, <2>2
<1>7. CASE Select
  BY <1>7, PressType DEF Select, TypeOK, locals, Resolved, Editors
<1>8. CASE FindEditor
  BY <1>8 DEF FindEditor, TypeOK, app, Resolved, Editors
<1>9. CASE FindTimeout
  BY <1>9, LeaveType DEF FindTimeout, TypeOK
<1>10. CASE Type
  BY <1>10, TextTypes DEF Type, OwnEditor, TypeOK, locals, Resolved, Editors
<1>11. CASE TypeFails
  <2>1. keys' \in Seq({"F2", "ENTER", "ESC"})
    BY <1>11, PressType DEF TypeFails, CancelAndRaise, TypeOK
  <2>2. editor' \in Editors \cup {NULL} /\ (editor' # NULL => editor'.handle <= handles)
    BY <1>11 DEF TypeFails, OwnEditor, TypeOK, Editors
  <2> QED
    BY <1>11, <2>1, <2>2, LeaveEditing DEF TypeFails, CancelAndRaise
<1>12. CASE Enter
  BY <1>12, PressType DEF Enter, TypeOK, app, locals, Resolved
<1>13. CASE EnterFails
  BY <1>13, LeaveType DEF EnterFails, TypeOK
<1>14. CASE Closed
  BY <1>14 DEF Closed, TypeOK, app, locals, Resolved
<1>15. CASE CloseTimeout
  <2>1. keys' \in Seq({"F2", "ENTER", "ESC"})
    BY <1>15, PressType DEF CloseTimeout, CancelAndRaise, TypeOK
  <2> QED
    BY <1>15, <2>1, LeaveType DEF CloseTimeout, CancelAndRaise
<1>16. CASE Verify
  <2>1. [performed |-> phase = "forward", before |-> before, after |-> Text,
         attempted |-> phase = "rollback", succeeded |-> phase = "rollback"] \in Results
    BY <1>16, TextTypes DEF Verify, TypeOK, Results
  <2> QED
    BY <1>16, <2>1, LeaveType DEF Verify, TypeOK
<1>17. CASE VerifyTimeout
  BY <1>17, LeaveType DEF VerifyTimeout, TypeOK
<1>18. CASE Reread
  <2>1. CASE before = Source /\ TextThere # Source
    <3>1. req.index \in DOMAIN order
      BY <1>18 DEF Reread, TextThere
    <3>2. item' \in Items /\ after' \in Names \cup {NULL}
      BY <1>18, <2>1, <3>1, TextThereType DEF Reread, TypeOK
    <3> QED
      BY <1>18, <2>1, <3>2 DEF Reread, TypeOK, app, Resolved
  <2>2. CASE ~(before = Source /\ TextThere # Source)
    <3>1. [performed |-> FALSE, before |-> before, after |-> TextThere,
           attempted |-> FALSE, succeeded |-> FALSE] \in Results
      BY TextThereType DEF TypeOK, Results
    <3> QED
      BY <1>18, <2>2, <3>1, LeaveType DEF Reread, TypeOK
  <2> QED
    BY <2>1, <2>2
<1>19. ASSUME NoRollback, pc # "idle", UNCHANGED <<app, keys, meddled>> PROVE TypeOK'
  <2>1. [performed |-> FALSE, before |-> before, after |-> NULL,
         attempted |-> FALSE, succeeded |-> FALSE] \in Results
    BY DEF TypeOK, Results
  <2> QED
    BY <1>19, <2>1, LeaveType DEF NoRollback, TypeOK
<1>20. CASE RereadNothing
  BY <1>19, <1>20 DEF RereadNothing
<1>21. CASE CallFails
  <2>1. pc # "idle" /\ UNCHANGED <<app, meddled>>
    BY <1>21 DEF CallFails
  <2>2. CASE Raise /\ UNCHANGED keys
    BY <2>1, <2>2, LeaveType DEF TypeOK
  <2>3. CASE CancelAndRaise
    <3>1. keys' \in Seq({"F2", "ENTER", "ESC"})
      BY <2>3, PressType DEF CancelAndRaise, TypeOK
    <3> QED
      BY <2>1, <2>3, <3>1, LeaveType DEF CancelAndRaise
  <2> QED
    BY <1>19, <1>21, <2>1, <2>2, <2>3 DEF CallFails
<1>22. CASE ProcessF2
  <2>1. keys' \in Seq({"F2", "ENTER", "ESC"})
    BY <1>22, DequeueType DEF ProcessF2
  <2>2. CASE UNCHANGED <<editor, handles>>
    BY <1>22, <2>1, <2>2 DEF ProcessF2, TypeOK, locals, Resolved
  <2>3. CASE editor = NULL /\ selection # NULL /\ Open(selection)
    BY <1>22, <2>1, <2>3 DEF ProcessF2, Open, TypeOK, locals, Resolved, Editors
  <2> QED
    BY <1>22, <2>2, <2>3 DEF ProcessF2
<1>23. CASE ProcessEnter
  <2>1. keys' \in Seq({"F2", "ENTER", "ESC"})
    BY <1>23, DequeueType DEF ProcessEnter
  <2>2. name' \in [Items -> Names] /\ editor' \in {editor, NULL}
    BY <1>23 DEF ProcessEnter, TypeOK, Editors
  <2> QED
    BY <1>23, <2>1, <2>2 DEF ProcessEnter, TypeOK, locals, Resolved
<1>24. CASE ProcessEsc
  <2>1. keys' \in Seq({"F2", "ENTER", "ESC"})
    BY <1>24, DequeueType DEF ProcessEsc
  <2> QED
    BY <1>24, <2>1 DEF ProcessEsc, TypeOK, locals, Resolved
<1>25. CASE Reorder
  BY <1>25, BoundsAssumption DEF Reorder, Meddle, TypeOK, locals, Resolved
<1>26. CASE Delete
  BY <1>26, BoundsAssumption DEF Delete, Meddle, TypeOK, locals, Resolved
<1>27. CASE OperatorEdits
  BY <1>27, BoundsAssumption DEF OperatorEdits, Meddle, Open, TypeOK, locals, Resolved, Editors
<1>28. CASE UNCHANGED vars
  BY <1>28 DEF vars, app, locals, TypeOK, Resolved
<1>29. ASSUME NEW i \in 1..Cardinality(Items), NEW s \in Names, NEW t \in Names, NEW p \in BOOLEAN,
              s # t, Ask([index |-> i, source |-> s, target |-> t, probe |-> p])
       PROVE TypeOK'
  <2>1. [index |-> i, source |-> s, target |-> t, probe |-> p] \in Requests
    BY <1>29, ItemsAssumption, FS_CardinalityType DEF Requests
  <2> QED
    BY <1>1, <1>29, <2>1
<1> QED
  BY <1>29, <1>2, <1>3, <1>4, <1>5, <1>6, <1>7, <1>8, <1>9, <1>10, <1>11, <1>12, <1>13, <1>14,
     <1>15, <1>16, <1>17, <1>18, <1>20, <1>21, <1>22, <1>23, <1>24, <1>25, <1>26, <1>27, <1>28
  DEF Next, Adapter, Application

\* Every variable has its type, whatever interferes.
THEOREM TypeCorrect == Spec => []TypeOK
  BY InitType, NextType, PTL DEF Spec
-----------------------------------------------------------------------------
(* The keys the application has not taken. *)

Has(s, k) == \E i \in 1..Len(s) : s[i] = k
Precedes(s, k, l) == \E i, j \in 1..Len(s) : i < j /\ s[i] = k /\ s[j] = l

LEMMA AppendKeys ==
  ASSUME NEW S, NEW s \in Seq(S), NEW e \in S, NEW k, NEW l
  PROVE  /\ Has(Append(s, e), k) <=> Has(s, k) \/ k = e
         /\ Precedes(Append(s, e), k, l) <=> Precedes(s, k, l) \/ (Has(s, k) /\ l = e)
<1> DEFINE t == Append(s, e)
<1>1. /\ Len(s) \in Nat /\ Len(t) = Len(s) + 1 /\ t[Len(s) + 1] = e
      /\ \A i \in 1..Len(s) : t[i] = s[i]
  OBVIOUS
<1> HIDE DEF t
<1>2. Has(t, k) <=> Has(s, k) \/ k = e
  <2>1. ASSUME Has(t, k) PROVE Has(s, k) \/ k = e
    <3>1. PICK i \in 1..Len(t) : t[i] = k
      BY <2>1 DEF Has
    <3> QED
      BY <1>1, <3>1 DEF Has
  <2>2. ASSUME Has(s, k) \/ k = e PROVE Has(t, k)
    BY <1>1, <2>2 DEF Has
  <2> QED
    BY <2>1, <2>2
<1>3. ASSUME Precedes(t, k, l) PROVE Precedes(s, k, l) \/ (Has(s, k) /\ l = e)
  <2>1. PICK i, j \in 1..Len(t) : i < j /\ t[i] = k /\ t[j] = l
    BY <1>3 DEF Precedes
  <2>2. i \in 1..Len(s) /\ s[i] = k
    BY <1>1, <2>1
  <2>3. CASE j = Len(s) + 1
    BY <1>1, <2>1, <2>2, <2>3 DEF Has
  <2>4. CASE j # Len(s) + 1
    BY <1>1, <2>1, <2>2, <2>4 DEF Precedes
  <2> QED
    BY <2>3, <2>4
<1>4. ASSUME Precedes(s, k, l) PROVE Precedes(t, k, l)
  <2>1. PICK i, j \in 1..Len(s) : i < j /\ s[i] = k /\ s[j] = l
    BY <1>4 DEF Precedes
  <2> QED
    BY <1>1, <2>1 DEF Precedes
<1>5. ASSUME Has(s, k), l = e PROVE Precedes(t, k, l)
  <2>1. PICK i \in 1..Len(s) : s[i] = k
    BY <1>5 DEF Has
  <2> QED
    BY <1>1, <1>5, <2>1 DEF Precedes
<1> QED
  BY <1>2, <1>3, <1>4, <1>5 DEF t

LEMMA TailKeys ==
  ASSUME NEW S, NEW s \in Seq(S), s # << >>, NEW k, NEW l
  PROVE  /\ Has(s, Head(s))
         /\ Has(Tail(s), k) => Has(s, k) /\ Precedes(s, Head(s), k)
         /\ Precedes(Tail(s), k, l) => Precedes(s, k, l)
<1> DEFINE t == Tail(s)
<1>1. /\ Len(s) \in Nat \ {0} /\ Len(t) = Len(s) - 1 /\ Head(s) = s[1]
      /\ \A i \in 1..Len(t) : t[i] = s[i + 1]
  OBVIOUS
<1> HIDE DEF t
<1>2. Has(s, Head(s))
  BY <1>1 DEF Has
<1>3. ASSUME Has(t, k) PROVE Has(s, k) /\ Precedes(s, Head(s), k)
  <2>1. PICK i \in 1..Len(t) : t[i] = k
    BY <1>3 DEF Has
  <2>2. 1 \in 1..Len(s) /\ i + 1 \in 1..Len(s) /\ 1 < i + 1 /\ s[i + 1] = k
    BY <1>1, <2>1
  <2> QED
    BY <1>1, <2>2 DEF Has, Precedes
<1>4. ASSUME Precedes(t, k, l) PROVE Precedes(s, k, l)
  <2>1. PICK i, j \in 1..Len(t) : i < j /\ t[i] = k /\ t[j] = l
    BY <1>4 DEF Precedes
  <2>2. i + 1 \in 1..Len(s) /\ j + 1 \in 1..Len(s) /\ i + 1 < j + 1 /\ s[i + 1] = k /\ s[j + 1] = l
    BY <1>1, <2>1
  <2> QED
    BY <2>2 DEF Precedes
<1> QED
  BY <1>2, <1>3, <1>4 DEF t

-----------------------------------------------------------------------------
(* Nobody but the adapter touches the tree. *)

\* No key of one rename can surprise the next: an ENTER still to come finds the
\* editor it was meant for, an ESC is not overtaken by an F2.
KeyInv ==
  /\ Has(keys, "ENTER") => editor # NULL
  /\ pc \in {"select", "find", "type", "enter", "verify"} => ~Has(keys, "ENTER")
  /\ pc \in {"type", "enter", "close"} \/ (pc = "find" /\ editor # NULL) => ~Has(keys, "ESC")
  /\ editor = NULL \/ pc \in {"select", "find"} => ~Precedes(keys, "F2", "ESC")
  /\ ~Precedes(keys, "ENTER", "ENTER") /\ ~Precedes(keys, "ESC", "ENTER")
  /\ ~Precedes(keys, "ENTER", "F2") /\ ~Precedes(keys, "ESC", "ESC")

LEMMA PressKeys ==
  ASSUME TypeOK, NEW key \in {"F2", "ENTER", "ESC"}, Press(key), NEW k, NEW l
  PROVE  /\ Has(keys', k) <=> Has(keys, k) \/ k = key
         /\ Precedes(keys', k, l) <=> Precedes(keys, k, l) \/ (Has(keys, k) /\ l = key)
<1>1. keys \in Seq({"F2", "ENTER", "ESC"}) /\ keys' = Append(keys, key)
  BY DEF Press, TypeOK
<1> QED
  BY <1>1, AppendKeys

LEMMA DequeueKeys ==
  ASSUME TypeOK, NEW key, Dequeue(key), NEW k, NEW l
  PROVE  /\ Has(keys, key)
         /\ Has(keys', k) => Has(keys, k) /\ Precedes(keys, key, k)
         /\ Precedes(keys', k, l) => Precedes(keys, k, l)
  BY TailKeys DEF Dequeue, TypeOK

\* Where the adapter may go by returning or raising.
LEMMA RaisePlace ==
  ASSUME Raise PROVE pc' \in {"idle", "resolve", "reread"}
  BY DEF Raise, Return, ReturnProbing

LEMMA LeaveKeys ==
  ASSUME KeyInv, UNCHANGED <<keys, editor>>, pc' \in {"idle", "resolve", "reread", "read", "check"}
  PROVE  KeyInv'
  BY DEF KeyInv

\* An editor that is given up gets its ESC before anything else does, or stays open.
LEMMA CancelKeys ==
  ASSUME TypeOK, KeyInv, pc \in {"type", "enter", "close"}, CancelAndRaise,
         editor # NULL => editor' # NULL, editor = NULL => editor' = NULL
  PROVE  KeyInv'
<1>1. pc' \in {"idle", "resolve", "reread"}
  BY RaisePlace DEF CancelAndRaise
<1>2. CASE OwnEditor /\ Press("ESC")
  <2>1. editor # NULL /\ editor' # NULL /\ Press("ESC") /\ ~Has(keys, "ESC")
    BY <1>2 DEF CancelAndRaise, OwnEditor, KeyInv
  <2> QED
    BY <1>1, <2>1, PressKeys DEF KeyInv
<1>3. CASE UNCHANGED keys
  BY <1>1, <1>3 DEF CancelAndRaise, KeyInv
<1> QED
  BY <1>2, <1>3 DEF CancelAndRaise

LEMMA InitKeys == Init => KeyInv
  BY DEF Init, KeyInv, Has, Precedes

LEMMA NextKeys ==
  ASSUME Meddling = {}, TypeOK, KeyInv, [Next]_vars
  PROVE  KeyInv'
<1>1. ASSUME NEW r, Ask(r) PROVE KeyInv'
  BY <1>1, LeaveKeys DEF Ask, app
<1>2. CASE Resolve \/ Unresolved \/ ReadSource \/ ReadOther \/ Reread \/ RereadNothing
  <2>1. UNCHANGED <<keys, editor>> /\ pc' \in {"idle", "resolve", "reread", "read", "check"}
    BY <1>2, RaisePlace DEF Resolve, Unresolved, ReadSource, ReadOther, Reread, RereadNothing,
       NoRollback, Return, ReturnProbing, app
  <2> QED
    BY <2>1, LeaveKeys
<1>3. CASE CheckEditor
  <2>1. CASE editor = NULL
    BY <1>3, <2>1 DEF CheckEditor, app, KeyInv
  <2>2. CASE editor # NULL
    BY <1>3, <2>2, RaisePlace, LeaveKeys DEF CheckEditor, app
  <2> QED
    BY <2>1, <2>2
<1>4. CASE Select
  <2>1. pc = "select" /\ pc' = "find" /\ editor' = NULL /\ Press("F2")
    BY <1>4 DEF Select
  <2> QED
    BY <2>1, PressKeys DEF KeyInv
<1>5. CASE FindEditor
  BY <1>5 DEF FindEditor, app, KeyInv
<1>6. CASE FindTimeout \/ EnterFails \/ VerifyTimeout
  BY <1>6, RaisePlace, LeaveKeys DEF FindTimeout, EnterFails, VerifyTimeout, app
<1>7. CASE Type
  <2>1. editor # NULL /\ editor' # NULL /\ UNCHANGED keys /\ pc = "type" /\ pc' = "enter"
    BY <1>7, TextTypes, NullAssumption DEF Type, OwnEditor, TypeOK, Editors
  <2> QED
    BY <2>1 DEF KeyInv
<1>8. CASE TypeFails
  <2>1. editor # NULL => editor' # NULL
    BY <1>8, NullAssumption DEF TypeFails, OwnEditor, TypeOK, Editors
  <2>2. editor = NULL => editor' = NULL
    BY <1>8 DEF TypeFails, OwnEditor
  <2> QED
    BY <1>8, <2>1, <2>2, CancelKeys DEF TypeFails
<1>9. CASE Enter
  <2>1. /\ editor # NULL /\ editor' # NULL /\ pc = "enter" /\ pc' = "close" /\ Press("ENTER")
        /\ ~Has(keys, "ENTER") /\ ~Has(keys, "ESC")
    BY <1>9 DEF Enter, OwnEditor, app, KeyInv
  <2> QED
    BY <2>1, PressKeys DEF KeyInv
<1>10. CASE Closed
  BY <1>10 DEF Closed, app, KeyInv
<1>11. CASE CloseTimeout
  BY <1>11, CancelKeys DEF CloseTimeout, app
<1>12. CASE Verify
  <2>1. UNCHANGED <<keys, editor>> /\ pc' \in {"idle", "resolve"}
    BY <1>12 DEF Verify, Return, ReturnProbing, app
  <2> QED
    BY <2>1, LeaveKeys
<1>13. CASE CallFails
  <2>1. CASE UNCHANGED keys /\ (Raise \/ NoRollback)
    <3>1. UNCHANGED <<keys, editor>> /\ pc' \in {"idle", "resolve", "reread"}
      BY <1>13, <2>1, RaisePlace DEF CallFails, NoRollback, Return, ReturnProbing, app
    <3> QED
      BY <3>1, LeaveKeys
  <2>2. CASE pc \in {"enter", "close"} /\ CancelAndRaise
    BY <1>13, <2>2, CancelKeys DEF CallFails, app
  <2> QED
    BY <1>13, <2>1, <2>2 DEF CallFails
<1>14. CASE ProcessF2
  <2>1. Dequeue("F2") /\ pc' = pc
    BY <1>14 DEF ProcessF2
  <2>2. editor # NULL => editor' = editor
    BY <1>14 DEF ProcessF2
  <2>3. editor = NULL => ~Precedes(keys, "F2", "ESC")
    BY DEF KeyInv
  <2> QED
    BY <2>1, <2>2, <2>3, DequeueKeys DEF KeyInv
<1>15. CASE ProcessEnter
  <2>1. Dequeue("ENTER") /\ pc' = pc /\ editor' \in {editor, NULL}
    BY <1>15 DEF ProcessEnter
  <2>2. ~Has(keys', "F2") /\ ~Has(keys', "ENTER")
    BY <2>1, DequeueKeys DEF KeyInv
  <2>3. keys' \in Seq({"F2", "ENTER", "ESC"})
    BY <2>1, DequeueType
  <2>4. ~Precedes(keys', "F2", "ESC")
    BY <2>2, <2>3 DEF Has, Precedes
  <2> QED
    BY <2>1, <2>2, <2>4, DequeueKeys DEF KeyInv
<1>16. CASE ProcessEsc
  <2>1. Dequeue("ESC") /\ pc' = pc /\ editor' = NULL
    BY <1>16 DEF ProcessEsc
  <2>2. ~Has(keys', "ESC") /\ ~Has(keys', "ENTER")
    BY <2>1, DequeueKeys DEF KeyInv
  <2>3. ~Precedes(keys', "F2", "ESC")
    BY <2>2 DEF Has, Precedes
  <2> QED
    BY <2>1, <2>2, <2>3, DequeueKeys DEF KeyInv
<1>17. ~(Reorder \/ Delete \/ OperatorEdits)
  BY DEF Reorder, Delete, OperatorEdits, Meddle
<1>18. CASE UNCHANGED vars
  BY <1>18 DEF vars, app, KeyInv
<1> QED
  BY <1>1, <1>2, <1>3, <1>4, <1>5, <1>6, <1>7, <1>8, <1>9, <1>10, <1>11, <1>12, <1>13, <1>14,
     <1>15, <1>16, <1>17, <1>18 DEF Next, Adapter, Application

-----------------------------------------------------------------------------
(* Only what was pinned. *)

Pin == [item |-> order[req.index], texts |-> {Source, Target}]
Pinned(x, t) == \E p \in pins : p.item = x /\ t \in p.texts

\* The item is the pinned one, a label editor is open on it while it is typed
\* into, and the text an ENTER to come accepts is one of the pinned.
PinInv ==
  /\ pc \in Resolved \/ (pc = "reread" /\ before # NULL) => req.index \in DOMAIN order /\ Pin \in pins
  /\ pc \in Resolved => item = order[req.index]
  /\ pc = "resolve" => before = NULL /\ phase = "forward"
  /\ pc = "read" => before = NULL
  /\ pc \in {"read", "reread"} => phase = "forward"
  /\ pc \in {"find", "type", "enter"} => selection = item /\ (editor # NULL => editor.item = item)
  /\ pc = "select" /\ editor # NULL => editor.text = name[editor.item]
  /\ (Has(keys, "ENTER") \/ pc = "enter") /\ editor # NULL =>
       editor.text = name[editor.item] \/ Pinned(editor.item, editor.text)

LEMMA InitPins == Init => PinInv
  BY DEF Init, PinInv, Has, Resolved

\* Where the adapter leaves by returning.
LEMMA ReturnPins ==
  ASSUME NEW r, Return(r)
  PROVE  /\ pc' = "idle" \/ (pc' = "resolve" /\ before' = NULL /\ phase' = "forward")
         /\ pins' = pins /\ req' = req
  BY DEF Return, ReturnProbing

LEMMA RaisePins ==
  ASSUME Raise
  PROVE  /\ \/ pc' = "idle"
            \/ pc' = "resolve" /\ before' = NULL /\ phase' = "forward"
            \/ pc' = "reread" /\ phase = "forward" /\ UNCHANGED locals
         /\ pins' = pins /\ req' = req
  BY ReturnPins DEF Raise, locals

\* A step that ends in one of these places and leaves editor, names and keys alone.
LEMMA LeavePins ==
  ASSUME TypeOK, PinInv, pc # "idle", UNCHANGED <<order, name, pins, req>>,
         Has(keys', "ENTER") => Has(keys, "ENTER"),
         editor' # NULL /\ Has(keys', "ENTER") => editor' = editor,
         \/ pc' = "idle"
         \/ pc' = "resolve" /\ before' = NULL /\ phase' = "forward"
         \/ /\ pc' = "reread" /\ phase = "forward" /\ UNCHANGED locals
            /\ pc \in Resolved \/ before = NULL
  PROVE  PinInv'
  BY DEF PinInv, Resolved, Pin, Pinned, Source, Target, locals

LEMMA NextPins ==
  ASSUME Meddling = {}, TypeOK, TypeOK', KeyInv, PinInv, [Next]_vars
  PROVE  PinInv'
<1>1. ASSUME NEW r, Ask(r) PROVE PinInv'
  BY <1>1 DEF Ask, app, PinInv, Resolved, Pinned
<1>2. CASE Resolve
  <2>1. req.index \in DOMAIN order
    BY <1>2, TextTypes, NullAssumption DEF Resolve, TextThere
  <2>2. /\ pc = "resolve" /\ pc' = "read" /\ item' = order[req.index]
        /\ pins' = pins \cup {[item |-> order[req.index], texts |-> {Source, Target}]}
        /\ UNCHANGED <<order, name, editor, keys, req, leg, before, phase>>
    BY <1>2 DEF Resolve, app
  <2> QED
    BY <2>1, <2>2 DEF PinInv, Pin, Pinned, Source, Target, Resolved
<1>3. CASE Unresolved \/ FindTimeout \/ EnterFails \/ VerifyTimeout
  BY <1>3, RaisePins, LeavePins DEF Unresolved, FindTimeout, EnterFails, VerifyTimeout, app, PinInv,
     Resolved
<1>4. CASE ReadSource
  BY <1>4 DEF ReadSource, app, PinInv, Pin, Pinned, Source, Target, Resolved
<1>5. CASE ReadOther
  BY <1>5, ReturnPins, LeavePins DEF ReadOther, app
<1>6. CASE CheckEditor
  <2>1. CASE editor = NULL
    BY <1>6, <2>1 DEF CheckEditor, app, locals, PinInv, Pin, Pinned, Source, Target, Resolved
  <2>2. CASE editor # NULL
    BY <1>6, <2>2, RaisePins, LeavePins DEF CheckEditor, app, Resolved
  <2> QED
    BY <2>1, <2>2
<1>7. CASE Select
  <2>1. /\ pc = "select" /\ pc' = "find" /\ editor' = NULL /\ selection' = item
        /\ UNCHANGED <<order, locals>>
    BY <1>7 DEF Select
  <2> QED
    BY <2>1 DEF PinInv, locals, Pin, Source, Target, Resolved
<1>8. CASE FindEditor
  <2>1. /\ pc = "find" /\ pc' = "type"
        /\ UNCHANGED <<order, name, selection, editor, keys, req, leg, phase, item, before, pins>>
    BY <1>8 DEF FindEditor, app
  <2> QED
    BY <2>1 DEF PinInv, Pin, Pinned, Source, Target, Resolved
<1>9. CASE Type
  <2>1. /\ pc = "type" /\ pc' = "enter" /\ UNCHANGED <<order, name, selection, keys, locals>>
        /\ editor # NULL /\ editor' = [editor EXCEPT !.text = Text]
    BY <1>9 DEF Type, OwnEditor
  <2>2. editor'.text = Text /\ editor'.item = editor.item
    BY <2>1 DEF TypeOK, Editors
  <2>3. Text \in {Source, Target} /\ Pin \in pins /\ editor'.item = Pin.item
    BY <2>1, <2>2 DEF Text, PinInv, Pin, Resolved
  <2>4. Pinned(editor'.item, Text)
    BY <2>3 DEF Pinned, Pin
  <2>5. Pinned(editor.item, editor.text)' /\ pins' = pins
    BY <2>1, <2>2, <2>4 DEF Pinned, locals
  <2> QED
    BY <2>1, <2>2, <2>5 DEF PinInv, locals, Pin, Source, Target, Resolved
<1>10. CASE TypeFails
  <2>1. ~Has(keys, "ENTER") /\ pc = "type"
    BY <1>10 DEF TypeFails, KeyInv
  <2>2. ~Has(keys', "ENTER") /\ Raise
    BY <1>10, <2>1, PressKeys DEF TypeFails, CancelAndRaise
  <2> QED
    BY <1>10, <2>1, <2>2, RaisePins, LeavePins DEF TypeFails, Resolved
<1>11. CASE Enter
  <2>1. /\ pc = "enter" /\ pc' = "close" /\ editor # NULL
        /\ UNCHANGED <<order, name, editor, locals>>
    BY <1>11 DEF Enter, OwnEditor, app
  <2> QED
    BY <2>1 DEF PinInv, locals, Pin, Pinned, Source, Target, Resolved
<1>12. CASE Closed
  <2>1. /\ pc = "close" /\ pc' = "verify" /\ editor = NULL
        /\ UNCHANGED <<order, name, editor, keys, locals>>
    BY <1>12 DEF Closed, app
  <2> QED
    BY <2>1 DEF PinInv, locals, Pin, Pinned, Source, Target, Resolved
<1>13. ASSUME CancelAndRaise, pc \in Resolved, UNCHANGED app PROVE PinInv'
  <2>1. Has(keys', "ENTER") => Has(keys, "ENTER")
    BY <1>13, PressKeys DEF CancelAndRaise
  <2> QED
    BY <1>13, <2>1, RaisePins, LeavePins DEF CancelAndRaise, app, Resolved
<1>14. CASE CloseTimeout
  BY <1>13, <1>14 DEF CloseTimeout, Resolved
<1>15. CASE Verify
  BY <1>15, ReturnPins, LeavePins DEF Verify, app
<1>16. CASE Reread
  <2>1. CASE before = Source /\ TextThere # Source
    <3>1. before # NULL /\ Pin \in pins /\ req.index \in DOMAIN order
      BY <1>16, <2>1, TextTypes, NullAssumption DEF Reread, PinInv
    <3>2. /\ pc = "reread" /\ pc' = "check" /\ item' = order[req.index]
          /\ UNCHANGED <<order, name, editor, keys, req, leg, pins>>
      BY <1>16, <2>1 DEF Reread, app
    <3> QED
      BY <3>1, <3>2 DEF PinInv, Pin, Pinned, Source, Target, Resolved
  <2>2. CASE ~(before = Source /\ TextThere # Source)
    BY <1>16, <2>2, ReturnPins, LeavePins DEF Reread, app
  <2> QED
    BY <2>1, <2>2
<1>17. CASE RereadNothing
  BY <1>17, ReturnPins, LeavePins DEF RereadNothing, NoRollback, app
<1>18. CASE CallFails
  <2>1. CASE pc \in {"resolve", "read", "check", "select", "find", "verify"} /\ Raise /\ UNCHANGED keys
    BY <1>18, <2>1, RaisePins, LeavePins DEF CallFails, app, PinInv, Resolved
  <2>2. CASE pc \in {"enter", "close"} /\ CancelAndRaise
    BY <1>13, <1>18, <2>2 DEF CallFails, Resolved
  <2>3. CASE pc = "reread" /\ NoRollback /\ UNCHANGED keys
    BY <1>18, <2>3, ReturnPins, LeavePins DEF CallFails, NoRollback, app
  <2> QED
    BY <1>18, <2>1, <2>2, <2>3 DEF CallFails
<1>19. CASE ProcessF2
  <2>1. /\ Dequeue("F2") /\ UNCHANGED <<order, name, selection, pc, locals>>
        /\ Has(keys', "ENTER") => Has(keys, "ENTER")
    BY <1>19, DequeueKeys DEF ProcessF2
  <2>2. CASE editor' = editor
    BY <2>1, <2>2 DEF PinInv, locals, Pin, Pinned, Source, Target, Resolved
  <2>3. CASE selection # NULL /\ Open(selection)
    <3>1. editor'.item = selection /\ editor'.text = name[selection]
      BY <2>3 DEF Open
    <3> QED
      BY <2>1, <3>1 DEF PinInv, locals, Pin, Source, Target, Resolved
  <2> QED
    BY <1>19, <2>2, <2>3 DEF ProcessF2
<1>20. CASE ProcessEnter
  <2>1. /\ Dequeue("ENTER") /\ UNCHANGED <<order, selection, pc, locals>>
        /\ editor' \in {editor, NULL}
    BY <1>20 DEF ProcessEnter
  <2>2. ~Has(keys', "ENTER") /\ pc \notin {"select", "find", "type", "enter"}
    BY <2>1, DequeueKeys DEF KeyInv
  <2> QED
    BY <2>1, <2>2 DEF PinInv, locals, Pin, Source, Target, Resolved
<1>21. CASE ProcessEsc
  <2>1. /\ UNCHANGED <<order, name, selection, pc, locals>> /\ editor' = NULL
    BY <1>21 DEF ProcessEsc
  <2> QED
    BY <2>1 DEF PinInv, locals, Pin, Source, Target, Resolved
<1>22. ~(Reorder \/ Delete \/ OperatorEdits)
  BY DEF Reorder, Delete, OperatorEdits, Meddle
<1>23. CASE UNCHANGED vars
  BY <1>23 DEF vars, app, locals, PinInv, Pin, Pinned, Source, Target, Resolved
<1> QED
  BY <1>1, <1>2, <1>3, <1>4, <1>5, <1>6, <1>7, <1>8, <1>9, <1>10, <1>11, <1>12, <1>14, <1>15,
     <1>16, <1>17, <1>18, <1>19, <1>20, <1>21, <1>22, <1>23 DEF Next, Adapter, Application

\* Names change by ENTER, and by the selection that ends an edit.
LEMMA StepPinned ==
  ASSUME Meddling = {}, TypeOK, KeyInv, PinInv, [Next]_vars,
         NEW x \in Items, name'[x] # name[x]
  PROVE  \E p \in pins : p.item = x /\ name'[x] \in p.texts
<1>1. CASE Select
  <2>1. pc = "select"
    BY <1>1 DEF Select
  <2>2. CASE editor = NULL
    BY <1>1, <2>2 DEF Select
  <2>3. CASE editor # NULL
    <3>1. name' = [name EXCEPT ![editor.item] = editor.text] /\ editor.text = name[editor.item]
      BY <1>1, <2>1, <2>3 DEF Select, PinInv
    <3> QED
      BY <3>1 DEF TypeOK
  <2> QED
    BY <2>2, <2>3
<1>2. CASE ProcessEnter
  <2>1. editor # NULL /\ name' = [name EXCEPT ![editor.item] = editor.text]
    BY <1>2 DEF ProcessEnter
  <2>2. Has(keys, "ENTER")
    BY <1>2, DequeueKeys DEF ProcessEnter
  <2>3. x = editor.item /\ name'[x] = editor.text
    BY <2>1 DEF TypeOK
  <2>4. Pinned(editor.item, editor.text)
    BY <2>1, <2>2, <2>3 DEF PinInv
  <2> QED
    BY <2>3, <2>4 DEF Pinned
<1>3. CASE UNCHANGED name
  BY <1>3
<1>4. Select \/ ProcessEnter \/ UNCHANGED name
  BY DEF Next, Ask, Adapter, Resolve, Unresolved, ReadSource, ReadOther, CheckEditor, FindEditor,
     FindTimeout, Type, TypeFails, Enter, EnterFails, Closed, CloseTimeout, Verify, VerifyTimeout,
     Reread, RereadNothing, CallFails, Application, ProcessF2, ProcessEsc, Reorder, Delete,
     OperatorEdits, vars, app
<1> QED
  BY <1>1, <1>2, <1>3, <1>4

-----------------------------------------------------------------------------
(* Truthful reports. *)

ReportInv ==
  /\ result # NULL => pc = "idle"
  /\ leg = "reverse" => req.probe
  /\ result # NULL /\ (result.performed \/ result.succeeded) => ~Has(keys, "ENTER")
  /\ ReportHolds

LEMMA InitReport == Init => ReportInv
  BY DEF Init, ReportInv, ReportHolds

\* A return that claims nothing.
LEMMA ReturnReport ==
  ASSUME TypeOK, ReportInv, pc # "idle", NEW r, r.performed = FALSE, r.succeeded = FALSE, Return(r)
  PROVE  ReportInv'
<1>1. /\ pc' = "idle" /\ result' = Reported(r) /\ req' = req /\ leg' = leg
  BY DEF Return
<1>2. ~Reported(r).performed /\ ~Reported(r).succeeded
  BY DEF Reported
<1> QED
  BY <1>1, <1>2 DEF ReportInv, ReportHolds

LEMMA RaiseReport ==
  ASSUME TypeOK, ReportInv, pc # "idle", Raise
  PROVE  ReportInv'
<1>1. CASE phase = "forward"
  <2>1. result = NULL /\ result' = NULL /\ UNCHANGED <<leg, req>>
    BY <1>1 DEF Raise, ReportInv, locals
  <2> QED
    BY <2>1 DEF ReportInv, ReportHolds
<1>2. CASE phase # "forward"
  BY <1>2, ReturnReport DEF Raise
<1> QED
  BY <1>1, <1>2

\* A step of the adapter that reports nothing.
LEMMA SilentReport ==
  ASSUME ReportInv, pc # "idle", UNCHANGED <<result, leg, req>>
  PROVE  ReportInv'
  BY DEF ReportInv, ReportHolds

LEMMA VerifyReport ==
  ASSUME TypeOK, KeyInv, ReportInv, Verify
  PROVE  ReportInv'
<1> DEFINE r == [performed |-> phase = "forward", before |-> before, after |-> Text,
                 attempted |-> phase = "rollback", succeeded |-> phase = "rollback"]
<1>1. /\ pc = "verify" /\ TextThere = Text /\ Return(r) /\ ~Has(keys, "ENTER")
      /\ UNCHANGED <<order, name, keys>> /\ result = NULL
  BY DEF Verify, KeyInv, app, ReportInv
<1>2. CASE req.probe /\ leg = "forward" /\ r.performed
  BY <1>1, <1>2 DEF Return, ReturnProbing, ReportInv, ReportHolds
<1>3. CASE ~(req.probe /\ leg = "forward" /\ r.performed)
  <2>1. pc' = "idle" /\ result' = Reported(r) /\ UNCHANGED <<req, leg>> /\ TextThere' = TextThere
    BY <1>1, <1>3 DEF Return, TextThere
  <2>2. CASE leg = "forward"
    <3>1. Reported(r) = r
      BY <2>2 DEF Reported
    <3>2. phase = "forward" => Text = req.target /\ ~req.probe
      BY <1>3, <2>2 DEF Text, Target
    <3>3. phase = "rollback" => Text = req.source
      BY <2>2 DEF Text, Source
    <3>4. /\ Reported(r).performed => phase = "forward"
          /\ Reported(r).succeeded => phase = "rollback"
      <4>1. (r.performed => phase = "forward") /\ (r.succeeded => phase = "rollback")
        OBVIOUS
      <4> HIDE DEF r
      <4> QED
        BY <3>1, <4>1
    <3> HIDE DEF r
    <3>5. TextThere' = Text /\ keys' = keys
      BY <1>1, <2>1
    <3> QED
      BY <1>1, <2>1, <2>2, <3>2, <3>3, <3>4, <3>5 DEF ReportInv, ReportHolds
  <2>3. CASE leg = "reverse"
    <3>1. req.probe
      BY <2>3 DEF ReportInv
    <3>2. Reported(r).performed \/ Reported(r).succeeded => Text = req.source
      BY <2>3 DEF Reported
    <3> QED
      BY <1>1, <2>1, <2>3, <3>1, <3>2 DEF ReportInv, ReportHolds
  <2> QED
    BY <2>2, <2>3 DEF TypeOK
<1> QED
  BY <1>2, <1>3

\* A key the application takes while nothing but it goes on.
LEMMA KeyReport ==
  ASSUME TypeOK, ReportInv, Has(keys', "ENTER") => Has(keys, "ENTER"),
         UNCHANGED <<order, pc, locals>>, Has(keys, "ENTER") \/ UNCHANGED name
  PROVE  ReportInv'
  BY DEF ReportInv, ReportHolds, TextThere, locals

LEMMA NextReport ==
  ASSUME Meddling = {}, TypeOK, KeyInv, ReportInv, [Next]_vars
  PROVE  ReportInv'
<1>1. ASSUME NEW r, Ask(r) PROVE ReportInv'
  BY <1>1 DEF Ask, ReportInv, ReportHolds
<1>2. CASE Resolve \/ ReadSource \/ Select \/ FindEditor \/ Type \/ Enter \/ Closed
  BY <1>2, SilentReport DEF Resolve, ReadSource, Select, FindEditor, Type, Enter, Closed, locals
<1>3. CASE Unresolved \/ FindTimeout \/ TypeFails \/ EnterFails \/ CloseTimeout \/ VerifyTimeout
  BY <1>3, RaiseReport DEF Unresolved, FindTimeout, TypeFails, EnterFails, CloseTimeout,
     VerifyTimeout, CancelAndRaise
<1>4. CASE ReadOther
  BY <1>4, ReturnReport DEF ReadOther
<1>5. CASE CheckEditor
  BY <1>5, RaiseReport, SilentReport DEF CheckEditor, locals
<1>6. CASE Verify
  BY <1>6, VerifyReport
<1>7. CASE Reread
  BY <1>7, ReturnReport, SilentReport DEF Reread
<1>8. CASE RereadNothing
  BY <1>8, ReturnReport DEF RereadNothing, NoRollback
<1>9. CASE CallFails
  BY <1>9, RaiseReport, ReturnReport DEF CallFails, CancelAndRaise, NoRollback
<1>10. CASE ProcessF2 \/ ProcessEnter \/ ProcessEsc
  BY <1>10, DequeueKeys, KeyReport DEF ProcessF2, ProcessEnter, ProcessEsc
<1>11. ~(Reorder \/ Delete \/ OperatorEdits)
  BY DEF Reorder, Delete, OperatorEdits, Meddle
<1>12. CASE UNCHANGED vars
  BY <1>12, KeyReport DEF vars, app
<1> QED
  BY <1>1, <1>2, <1>3, <1>4, <1>5, <1>6, <1>7, <1>8, <1>9, <1>10, <1>11, <1>12
  DEF Next, Adapter, Application

-----------------------------------------------------------------------------

UndisturbedInv == TypeOK /\ KeyInv /\ PinInv /\ ReportInv

LEMMA Undisturbed ==
  ASSUME Meddling = {}
  PROVE  Spec => []UndisturbedInv
<1>1. Init => UndisturbedInv
  BY InitType, InitKeys, InitPins, InitReport DEF UndisturbedInv
<1>2. UndisturbedInv /\ [Next]_vars => UndisturbedInv'
  BY NextType, NextKeys, NextPins, NextReport DEF UndisturbedInv
<1> QED
  BY <1>1, <1>2, PTL DEF Spec

\* As long as nobody else touches the tree, a text only ever changes to a text of
\* a request that pinned this item, however late keys of earlier requests come.
THEOREM PinnedOnly ==
  ASSUME Meddling = {}
  PROVE  Spec => OnlyPinnedChanges
<1>1. UndisturbedInv /\ [Next]_vars =>
        [\A x \in Items : name'[x] # name[x] => \E p \in pins : p.item = x /\ name'[x] \in p.texts]_name
  BY StepPinned DEF UndisturbedInv
<1> QED
  BY <1>1, Undisturbed, PTL DEF Spec, OnlyPinnedChanges

\* And every report of a rename, a probe or a rollback is what the tree shows
\* until the next request.
THEOREM ReportsHold ==
  ASSUME Meddling = {}
  PROVE  Spec => []ReportHolds
<1>1. UndisturbedInv => ReportHolds
  BY DEF UndisturbedInv, ReportInv
<1> QED
  BY <1>1, Undisturbed, PTL
=============================================================================
