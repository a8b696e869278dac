----------------------------- MODULE TreeRename -----------------------------
(***************************************************************************)
(* Renaming an item of the project tree of the editor: rename_tree_item of  *)
(* PywinautoKVStudioAdapter (worker/adapter.py), called once or, for a      *)
(* probe, twice by _rename_tree_item (worker/service.py).                   *)
(*                                                                         *)
(* The adapter pins an item by its place among its siblings and its text,   *)
(* opens the tree's label editor with F2, writes the text and presses       *)
(* ENTER.  The editor application takes the keys from its queue when it     *)
(* gets to them; the adapter waits 2 s at each point and no longer.  The    *)
(* application or its operator may meanwhile reorder the tree or edit it.   *)
(* The siblings of one visible parent stand for the tree: ancestors are     *)
(* taken to be expanded.                                                    *)
(***************************************************************************)
EXTENDS Integers, Sequences, FiniteSets

CONSTANTS
  NULL,
  Items,        \* tree items
  Names,        \* their texts
  Meddling,     \* how the application or its operator interferes
  MaxRequests,  \* bound: renames asked for
  MaxMeddling   \* bound: number of interferences

\* A label editor: its window handle, item and text.
Editors == [handle: Nat \ {0}, item: Items, text: Names]

ASSUME ItemsAssumption == IsFiniteSet(Items)
ASSUME NullAssumption == NULL \notin Items \cup Names \cup Editors
ASSUME MeddlingAssumption == Meddling \subseteq {"reorder", "delete", "edit"}
ASSUME BoundsAssumption == MaxRequests \in Nat /\ MaxMeddling \in Nat

\* A validated request; expected_path ends with the source.
Requests ==
  {r \in [index: Nat \ {0}, source: Names, target: Names, probe: BOOLEAN] : r.source # r.target}

Results ==
  [performed: BOOLEAN, before: Names \cup {NULL}, after: Names \cup {NULL},
   attempted: BOOLEAN, succeeded: BOOLEAN]

VARIABLES
  order,      \* the siblings, top to bottom
  name,       \* the text of each item
  selection,  \* the selected item
  editor,     \* the active label editor
  handles,    \* window handles given to label editors so far
  keys,       \* key presses the application has not processed
  pc,         \* the adapter's place
  req, leg,   \* the request; for a probe, which of its two renames
  phase,      \* "forward", or "rollback" inside the except clause
  item, handle, before, after,  \* the locals of rename_tree_item
  result,     \* the last request's result
  asked,      \* requests so far
  meddled,    \* interferences so far
  pins        \* history: the items requests pinned, with their texts

app == <<order, name, selection, editor, handles>>
locals == <<req, leg, phase, item, handle, before, after, result, asked, pins>>
vars == <<app, keys, pc, locals, meddled>>

-----------------------------------------------------------------------------

\* The renames of a probe undo each other.
Source == IF leg = "reverse" THEN req.target ELSE req.source
Target == IF leg = "reverse" THEN req.source ELSE req.target

\* What _commit_tree_item_text is called with.
Text == IF phase = "rollback" THEN Source ELSE Target

\* The text of the item now at the pinned place; no text if there is none.
TextThere == IF req.index \in DOMAIN order THEN name[order[req.index]] ELSE NULL

Press(key) == keys' = Append(keys, key)

Init ==
  /\ order \in {s \in [1..Cardinality(Items) -> Items] : \A x \in Items : \E i \in DOMAIN s : s[i] = x}
  /\ name \in [Items -> Names]
  /\ selection = NULL /\ editor = NULL /\ handles = 0 /\ keys = << >>
  /\ pc = "idle" /\ req = NULL /\ leg = "forward" /\ phase = "forward"
  /\ item = NULL /\ handle = 0 /\ before = NULL /\ after = NULL
  /\ result = NULL /\ asked = 0 /\ meddled = 0 /\ pins = {}

-----------------------------------------------------------------------------
(* Leaving a rename, by its result or by an exception. *)

\* A probe whose first rename worked makes the second one.
ReturnProbing ==
  /\ leg' = "reverse" /\ phase' = "forward" /\ pc' = "resolve"
  /\ item' = NULL /\ handle' = 0 /\ before' = NULL /\ after' = NULL
  /\ UNCHANGED <<req, result>>

\* The second one's result: restored means performed and rolled back.
Reported(r) ==
  IF leg = "forward" THEN r
  ELSE LET restored == r.performed /\ r.after = req.source
       IN [performed |-> restored, before |-> req.source, after |-> r.after,
           attempted |-> TRUE, succeeded |-> restored]

Return(r) ==
  /\ IF req.probe /\ leg = "forward" /\ r.performed
       THEN ReturnProbing
       ELSE /\ result' = Reported(r) /\ pc' = "idle" /\ after' = r.after
            /\ UNCHANGED <<req, leg, phase, item, handle, before>>
  /\ UNCHANGED <<asked, pins>>

\* The except clause of the rename, or the one around its rollback.
Raise ==
  IF phase = "forward"
    THEN pc' = "reread" /\ UNCHANGED locals
    ELSE Return([performed |-> FALSE, before |-> before, after |-> after,
                 attempted |-> TRUE, succeeded |-> FALSE])

\* The label editor the adapter found is still the active one.
OwnEditor == editor # NULL /\ editor.handle = handle

\* _cancel_tree_edit, then the exception goes on: ESC to its own editor only, and not
\* even that if looking at it again or the key raises, which is swallowed.
CancelAndRaise ==
  /\ (OwnEditor /\ Press("ESC")) \/ UNCHANGED keys
  /\ Raise

-----------------------------------------------------------------------------
(* The adapter. *)

Ask(r) ==
  /\ pc = "idle" /\ asked < MaxRequests
  /\ asked' = asked + 1 /\ req' = r /\ leg' = "forward" /\ phase' = "forward"
  /\ item' = NULL /\ handle' = 0 /\ before' = NULL /\ after' = NULL /\ result' = NULL
  /\ pc' = "resolve"
  /\ UNCHANGED <<app, keys, meddled, pins>>

\* The item at the pinned place has the expected text.
Resolve ==
  /\ pc = "resolve" /\ TextThere = Source
  /\ item' = order[req.index]
  /\ pins' = pins \cup {[item |-> item', texts |-> {Source, Target}]}
  /\ pc' = "read"
  /\ UNCHANGED <<app, keys, req, leg, phase, handle, before, after, result, asked, meddled>>

Unresolved ==
  /\ pc = "resolve" /\ TextThere # Source
  /\ Raise
  /\ UNCHANGED <<app, keys, meddled>>

\* Its text, read once more, is the source...
ReadSource ==
  /\ pc = "read" /\ name[item] = Source
  /\ before' = Source /\ pc' = "check"
  /\ UNCHANGED <<app, keys, req, leg, phase, item, handle, after, result, asked, meddled, pins>>

\* ... or it just changed: the precondition failed.
ReadOther ==
  /\ pc = "read" /\ name[item] # Source
  /\ Return([performed |-> FALSE, before |-> name[item], after |-> name[item],
             attempted |-> FALSE, succeeded |-> FALSE])
  /\ UNCHANGED <<app, keys, meddled>>

\* Mutant: no look at the active editor.
CheckEditorNever ==
  /\ pc = "check"
  /\ pc' = "select"
  /\ UNCHANGED <<app, keys, locals, meddled>>

\* An editor someone else opened is left alone.
CheckEditor ==
  /\ pc = "check"
  /\ IF editor = NULL THEN pc' = "select" /\ UNCHANGED locals ELSE Raise
  /\ UNCHANGED <<app, keys, meddled>>

\* Focus and selection end any label edit (with its text), then F2.
Select ==
  /\ pc = "select"
  /\ selection' = item /\ editor' = NULL
  /\ name' = IF editor = NULL THEN name ELSE [name EXCEPT ![editor.item] = editor.text]
  /\ Press("F2") /\ pc' = "find"
  /\ UNCHANGED <<order, handles, locals, meddled>>

FindEditor ==
  /\ pc = "find" /\ editor # NULL
  /\ handle' = editor.handle /\ pc' = "type"
  /\ UNCHANGED <<app, keys, req, leg, phase, item, before, after, result, asked, pins, meddled>>

\* Mutant: no deadline while the key is pending.
FindWhilePending ==
  /\ pc = "find" /\ editor = NULL /\ keys = << >>
  /\ Raise
  /\ UNCHANGED <<app, keys, meddled>>

\* No editor within 2 s.
FindTimeout ==
  /\ pc = "find" /\ editor = NULL
  /\ Raise
  /\ UNCHANGED <<app, keys, meddled>>

Type ==
  /\ pc = "type" /\ OwnEditor
  /\ editor' = [editor EXCEPT !.text = Text] /\ pc' = "enter"
  /\ UNCHANGED <<order, name, selection, handles, keys, locals, meddled>>

\* The editor is gone or does not take the exact text.
TypeFails ==
  /\ pc = "type"
  /\ IF OwnEditor THEN \E t \in Names : editor' = [editor EXCEPT !.text = t]
     ELSE UNCHANGED editor
  /\ CancelAndRaise
  /\ UNCHANGED <<order, name, selection, handles, meddled>>

Enter ==
  /\ pc = "enter" /\ OwnEditor
  /\ Press("ENTER") /\ pc' = "close"
  /\ UNCHANGED <<app, locals, meddled>>

\* It is gone.
EnterFails ==
  /\ pc = "enter" /\ ~OwnEditor
  /\ Raise
  /\ UNCHANGED <<app, keys, meddled>>

Closed ==
  /\ pc = "close" /\ editor = NULL
  /\ pc' = "verify"
  /\ UNCHANGED <<app, keys, locals, meddled>>

\* The editor is still active after 2 s.
CloseTimeout ==
  /\ pc = "close" /\ editor # NULL
  /\ CancelAndRaise
  /\ UNCHANGED <<app, meddled>>

\* Mutant: the closed editor is taken for success.
VerifyUnread ==
  /\ pc = "verify"
  /\ Return([performed |-> phase = "forward", before |-> before, after |-> Text,
             attempted |-> phase = "rollback", succeeded |-> phase = "rollback"])
  /\ UNCHANGED <<app, keys, meddled>>

\* The text at the pinned place is the one written: performed, or rolled back.
Verify ==
  /\ pc = "verify" /\ TextThere = Text
  /\ Return([performed |-> phase = "forward", before |-> before, after |-> Text,
             attempted |-> phase = "rollback", succeeded |-> phase = "rollback"])
  /\ UNCHANGED <<app, keys, meddled>>

\* It is not, for 2 s.
VerifyTimeout ==
  /\ pc = "verify" /\ TextThere # Text
  /\ Raise
  /\ UNCHANGED <<app, keys, meddled>>

\* The except clause looks at the pinned place, by index only, and rolls back
\* when a pinned source is no longer there.
Reread ==
  /\ pc = "reread" /\ TextThere # NULL
  /\ IF before = Source /\ TextThere # Source
       THEN /\ after' = TextThere /\ item' = order[req.index]
            /\ handle' = 0 /\ phase' = "rollback" /\ pc' = "check"
            /\ UNCHANGED <<req, leg, before, result, asked, pins>>
       ELSE Return([performed |-> FALSE, before |-> before, after |-> TextThere,
                    attempted |-> FALSE, succeeded |-> FALSE])
  /\ UNCHANGED <<app, keys, meddled>>

\* There is no such place any more: nothing is rolled back.
NoRollback ==
  Return([performed |-> FALSE, before |-> before, after |-> NULL,
          attempted |-> FALSE, succeeded |-> FALSE])

RereadNothing ==
  /\ pc = "reread" /\ TextThere = NULL
  /\ NoRollback
  /\ UNCHANGED <<app, keys, meddled>>

\* Any call into the editor may fail.
CallFails ==
  /\ \/ pc \in {"resolve", "read", "check", "select", "find", "verify"} /\ Raise /\ UNCHANGED keys
     \/ pc \in {"enter", "close"} /\ CancelAndRaise
     \/ pc = "reread" /\ NoRollback /\ UNCHANGED keys
  /\ UNCHANGED <<app, meddled>>

-----------------------------------------------------------------------------
(* The editor application and its operator. *)

\* A new label editor, in a new window.
Open(x) ==
  handles' = handles + 1 /\ editor' = [handle |-> handles', item |-> x, text |-> name[x]]

Dequeue(key) == keys # << >> /\ Head(keys) = key /\ keys' = Tail(keys)

\* F2 edits the selected item, if the application lets it.
ProcessF2 ==
  /\ Dequeue("F2")
  /\ \/ editor = NULL /\ selection # NULL /\ Open(selection)
     \/ UNCHANGED <<editor, handles>>
  /\ UNCHANGED <<order, name, selection, pc, locals, meddled>>

\* ENTER ends the edit; the application accepts the text, or refuses it and
\* closes the editor or not.
ProcessEnter ==
  /\ Dequeue("ENTER")
  /\ \/ editor # NULL /\ name' = [name EXCEPT ![editor.item] = editor.text] /\ editor' = NULL
     \/ editor' \in {editor, NULL} /\ UNCHANGED name
  /\ UNCHANGED <<order, selection, handles, pc, locals, meddled>>

ProcessEsc ==
  /\ Dequeue("ESC")
  /\ editor' = NULL
  /\ UNCHANGED <<order, name, selection, handles, pc, locals, meddled>>

Meddle(kind) == kind \in Meddling /\ meddled < MaxMeddling /\ meddled' = meddled + 1

\* The tree is sorted anew: two items change places.
Reorder ==
  /\ Meddle("reorder")
  /\ \E i, j \in DOMAIN order :
       i < j /\ order' = [order EXCEPT ![i] = order[j], ![j] = order[i]]
  /\ UNCHANGED <<name, selection, editor, handles, keys, pc, locals>>

\* The first item is deleted; the others move up.
Delete ==
  /\ Meddle("delete")
  /\ order # << >> /\ order' = Tail(order)
  /\ editor' = IF editor # NULL /\ editor.item = Head(order) THEN NULL ELSE editor
  /\ selection' = IF selection = Head(order) THEN NULL ELSE selection
  /\ UNCHANGED <<name, handles, keys, pc, locals>>

\* The operator selects an item and opens its label editor.
OperatorEdits ==
  /\ Meddle("edit")
  /\ \E i \in DOMAIN order : selection' = order[i] /\ Open(order[i])
  /\ UNCHANGED <<order, name, keys, pc, locals>>

Adapter ==
  \/ Resolve \/ Unresolved \/ ReadSource \/ ReadOther
  \/ CheckEditor \/ Select \/ FindEditor \/ FindTimeout \/ Type \/ TypeFails
  \/ Enter \/ EnterFails \/ Closed \/ CloseTimeout
  \/ Verify \/ VerifyTimeout \/ Reread \/ RereadNothing
Application == ProcessF2 \/ ProcessEnter \/ ProcessEsc \/ Reorder \/ Delete \/ OperatorEdits

Next ==
  \/ \E i \in 1..Cardinality(Items), s, t \in Names, p \in BOOLEAN :
       s # t /\ Ask([index |-> i, source |-> s, target |-> t, probe |-> p])
  \/ Adapter \/ CallFails \/ Application

Spec == Init /\ [][Next]_vars

\* The adapter's waits have deadlines; no call has to fail, and the application
\* owes nothing.
FairSpec == Spec /\ WF_vars(Adapter)

-----------------------------------------------------------------------------
(* Properties. *)

\* Where the item is resolved.
Resolved == {"read", "check", "select", "find", "type", "enter", "close", "verify"}

\* Every variable has its type.
TypeOK ==
  /\ order \in Seq(Items) /\ name \in [Items -> Names]
  /\ selection \in Items \cup {NULL}
  /\ editor \in Editors \cup {NULL} /\ (editor # NULL => editor.handle <= handles)
  /\ handles \in Nat /\ handle \in 0..handles
  /\ keys \in Seq({"F2", "ENTER", "ESC"})
  /\ pc \in {"idle", "resolve", "read", "check", "select", "find", "type",
             "enter", "close", "verify", "reread"}
  /\ req \in Requests \cup {NULL} /\ (pc # "idle" => req \in Requests)
  /\ leg \in {"forward", "reverse"} /\ phase \in {"forward", "rollback"}
  /\ item \in Items \cup {NULL} /\ (pc \in Resolved => item \in Items)
  /\ before \in Names \cup {NULL} /\ after \in Names \cup {NULL}
  /\ result \in Results \cup {NULL}
  /\ asked \in 0..MaxRequests /\ meddled \in 0..MaxMeddling
  /\ pins \subseteq [item: Items, texts: SUBSET Names]

\* "Rename exactly one pinned tree item and roll back on failed verification"
\* (worker/adapter.py:68): a text only ever changes to one of the two texts of a
\* request that pinned this very item.
OnlyPinnedChanges ==
  [][\A x \in Items : name'[x] # name[x] =>
       \E p \in pins : p.item = x /\ name'[x] \in p.texts]_name

\* What is reported is what the tree shows, from the report to the next request,
\* whatever keys are still to be processed: the target once a rename is performed,
\* the source again once a probe is, or once a rollback succeeded (the results of
\* rename_tree_item and _rename_tree_item).
ReportHolds ==
  result # NULL =>
    /\ result.performed => TextThere = IF req.probe THEN req.source ELSE req.target
    /\ result.succeeded => TextThere = req.source

\* Every rename ends, whatever the application does.
RenameEnds == pc # "idle" ~> pc = "idle"
=============================================================================
