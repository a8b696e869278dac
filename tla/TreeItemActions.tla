--------------------------- MODULE TreeItemActions ---------------------------
(***************************************************************************)
(* Activating an item of the project tree and inspecting its context menu:   *)
(* activate_tree_item and inspect_tree_item_menu of the KV STUDIO adapter.     *)
(* The items are the children of one folder, which may have to be expanded.    *)
(* The editor takes clicks and keys from its input queue when it gets to them   *)
(* and finds the clicked item by its row then; the adapter waits two seconds    *)
(* for a menu, one for its end and half a second for an expansion.              *)
(***************************************************************************)
EXTENDS Integers, Sequences, SequencesExt

CONSTANTS
  NULL,
  Items,        \* children of the folder
  Label,        \* Label[i], the text of an item
  MaxRequests,  \* bound on the requests
  MaxMeddling   \* bound on how often siblings change places

ASSUME ItemAssumption == NULL \notin Items /\ MaxRequests \in Nat /\ MaxMeddling \in Nat

Texts == {Label[i] : i \in Items}

VARIABLES
  order, folder, opening,      \* rows of the folder, its state, an expand() not obeyed yet
  menu, menus, inputs,         \* the open menu, menus opened so far, input queue of the editor
  pc, kind, index, source,     \* the request
  item, own, baseline, found,  \* locals: the item, expanded here, menus known, the new menu
  sent, closed, shown, warned, \* right-click sent, menu closed, what the menu held, a warning was added
  result,
  requests, meddling,          \* counters
  activated, first, leftover,  \* history
  abandoned                    \* history: no ESC was sent for the last right click

editor == <<order, folder, opening, menu, menus>>
locals == <<item, own, baseline, found, sent, closed, shown, warned>>
request == <<kind, index, source>>
history == <<first, leftover, abandoned>>
vars == <<editor, inputs, pc, request, locals, result, requests, meddling, activated, history>>

OpenMenus == {menu} \ {NULL}
RowOf(i) == CHOOSE row \in DOMAIN order : order[row] = i

\* An input, where it goes, for which text, and whether rows moved since.
Input(what, row) == [what |-> what, row |-> row, source |-> source, moved |-> FALSE]

Init ==
  /\ order \in SetToSeqs(Items) /\ folder \in {"collapsed", "expanded"} /\ opening = FALSE
  /\ menu = NULL /\ menus = 0 /\ inputs = << >>
  /\ pc = "idle" /\ kind = "activate" /\ index = 1 /\ source \in Texts
  /\ item = NULL /\ own = FALSE /\ baseline = {} /\ found = NULL
  /\ sent = FALSE /\ closed = FALSE /\ shown = NULL /\ warned = FALSE
  /\ result = "none" /\ requests = 0 /\ meddling = 0
  /\ activated = {} /\ first = folder /\ leftover = {} /\ abandoned = FALSE

-----------------------------------------------------------------------------
(* The editor. *)

Process ==
  /\ inputs # << >> /\ inputs' = Tail(inputs)
  /\ LET input == Head(inputs)
         at == order[input.row] IN
     CASE input.what = "right" ->
            /\ menu' = [id |-> menus + 1, of |-> at, moved |-> input.moved] /\ menus' = menus + 1
            /\ UNCHANGED <<order, folder, opening, activated>>
       [] input.what = "double" ->
            /\ activated' = activated \cup {[item |-> at, source |-> input.source, moved |-> input.moved]}
            /\ UNCHANGED editor
       [] input.what = "escape" ->
            menu' = NULL /\ UNCHANGED <<order, folder, opening, menus, activated>>
  /\ UNCHANGED <<pc, request, locals, result, requests, meddling, history>>

ObeyExpand ==
  /\ opening /\ opening' = FALSE /\ folder' = "expanded"
  /\ UNCHANGED <<order, menu, menus, inputs, pc, request, locals, result, requests, meddling, activated, history>>

\* Two siblings change places.
Reorder ==
  /\ meddling < MaxMeddling /\ meddling' = meddling + 1
  /\ \E i, j \in DOMAIN order :
       i < j /\ order' = [order EXCEPT ![i] = order[j], ![j] = order[i]]
  /\ inputs' = [n \in DOMAIN inputs |-> [inputs[n] EXCEPT !.moved = TRUE]]
  /\ UNCHANGED <<folder, opening, menu, menus, pc, request, locals, result, requests, activated, history>>

-----------------------------------------------------------------------------
(* Requests and the resolution of the item. *)

Goto(label) == pc' = label /\ UNCHANGED result

\* What went wrong is raised by an activation and noted by an inspection.
Fail ==
  IF kind = "activate" THEN pc' = "idle" /\ result' = "failed" /\ UNCHANGED warned
  ELSE warned' = TRUE /\ Goto("clean up")

Request(k, n, text) ==
  /\ pc = "idle" /\ requests < MaxRequests /\ requests' = requests + 1
  /\ kind' = k /\ index' = n /\ source' = text /\ pc' = "resolve" /\ result' = "none"
  /\ item' = NULL /\ own' = FALSE /\ baseline' = {} /\ found' = NULL
  /\ sent' = FALSE /\ closed' = FALSE /\ shown' = NULL /\ warned' = FALSE
  /\ first' = folder /\ leftover' = {inputs[m].what : m \in DOMAIN inputs} \cup (IF opening THEN {"expand"} ELSE {})
  /\ UNCHANGED <<editor, inputs, meddling, activated, abandoned>>

\* _resolve_tree_item_for_edit: a collapsed ancestor is told to expand, ...
Resolving == pc \in {"resolve", "again"}
Expand ==
  /\ Resolving /\ folder = "collapsed" /\ opening' = TRUE
  /\ Goto(IF pc = "resolve" THEN "expand" ELSE "expand again")
  /\ UNCHANGED <<order, folder, menu, menus, inputs, request, locals, requests, meddling, activated, history>>

\* ... and remembered once it is seen expanded; an activation forgets it.
SeenExpanded ==
  /\ pc \in {"expand", "expand again"} /\ folder = "expanded" /\ own' = TRUE
  /\ Goto(IF pc = "expand" THEN "resolve" ELSE "again")
  /\ UNCHANGED <<editor, inputs, request, item, baseline, found, sent, closed, shown, warned,
                 requests, meddling, activated, history>>

NotSeenExpanded ==
  /\ pc \in {"expand", "expand again"} /\ Fail
  /\ UNCHANGED <<editor, inputs, request, item, own, baseline, found, sent, closed, shown,
                 requests, meddling, activated, history>>

\* Mutant: the item in that row, whatever its text.
FoundByRow == index \in DOMAIN order
Found == index \in DOMAIN order /\ Label[order[index]] = source
Resolve ==
  /\ Resolving /\ folder = "expanded"
  /\ \/ Found /\ item' = order[index] /\ UNCHANGED warned
        /\ Goto(IF kind = "inspect" THEN "baseline" ELSE IF pc = "resolve" THEN "again" ELSE "press")
     \/ ~Found /\ Fail /\ UNCHANGED item
  /\ UNCHANGED <<editor, inputs, request, own, baseline, found, sent, closed, shown,
                 requests, meddling, activated, history>>

\* The editor's window is gone, another program has its title, or its windows cannot be listed.
Lost ==
  /\ pc \in {"resolve", "again", "baseline", "press", "await menu", "await end", "verify"} /\ Fail
  /\ UNCHANGED <<editor, inputs, request, item, own, baseline, found, sent, closed, shown,
                 requests, meddling, activated, history>>

-----------------------------------------------------------------------------
(* activate_tree_item *)

DoubleClick ==
  /\ kind = "activate" /\ pc = "press"
  /\ inputs' = Append(inputs, Input("double", RowOf(item)))
  /\ pc' = "idle" /\ result' = "performed"
  /\ UNCHANGED <<editor, request, locals, requests, meddling, activated, history>>

\* pywinauto raises, before or after the click.
DoubleClickFails ==
  /\ kind = "activate" /\ pc = "press" /\ Fail
  /\ inputs' \in {inputs, Append(inputs, Input("double", RowOf(item)))}
  /\ UNCHANGED <<editor, request, item, own, baseline, found, sent, closed, shown,
                 requests, meddling, activated, history>>

-----------------------------------------------------------------------------
(* inspect_tree_item_menu *)

KnownMenus ==
  /\ pc = "baseline" /\ baseline' = {m.id : m \in OpenMenus} /\ Goto("press")
  /\ UNCHANGED <<editor, inputs, request, item, own, found, sent, closed, shown, warned,
                 requests, meddling, activated, history>>

RightClick ==
  /\ kind = "inspect" /\ pc = "press"
  /\ inputs' = Append(inputs, Input("right", RowOf(item))) /\ sent' = TRUE
  /\ Goto("await menu")
  /\ UNCHANGED <<editor, request, item, own, baseline, found, closed, shown, warned,
                 requests, meddling, activated, history>>

\* When it raises after the click, the click is not known to be sent.
RightClickFails ==
  /\ kind = "inspect" /\ pc = "press" /\ Fail
  /\ \/ UNCHANGED <<inputs, abandoned>>
     \/ inputs' = Append(inputs, Input("right", RowOf(item))) /\ abandoned' = TRUE
  /\ UNCHANGED <<editor, request, item, own, baseline, found, sent, closed, shown,
                 requests, meddling, activated, first, leftover>>

SendEscape == inputs' = Append(inputs, Input("escape", 1)) /\ abandoned' = FALSE

NewMenus == {m \in OpenMenus : m.id \notin baseline}
\* Its items are read and ESC is sent to it.
SeeMenu ==
  /\ pc = "await menu" /\ \E m \in NewMenus : found' = m /\ shown' = m.of
  /\ SendEscape /\ Goto("await end")
  /\ UNCHANGED <<editor, request, item, own, baseline, sent, closed, warned,
                 requests, meddling, activated, first, leftover>>

\* Reading the items raises, or sending ESC, before or after it is sent.
SeeMenuFails ==
  /\ pc = "await menu" /\ Fail
  /\ \E m \in NewMenus : found' = m /\ shown' \in {NULL, m.of}
  /\ UNCHANGED <<inputs, abandoned>> \/ (shown' # NULL /\ SendEscape)
  /\ UNCHANGED <<editor, request, item, own, baseline, sent, closed,
                 requests, meddling, activated, first, leftover>>

NoMenu ==
  /\ pc = "await menu" /\ NewMenus = {} /\ Fail
  /\ UNCHANGED <<editor, inputs, request, item, own, baseline, found, sent, closed, shown,
                 requests, meddling, activated, history>>

SeeEnd ==
  /\ pc = "await end" /\ found \notin OpenMenus /\ closed' = TRUE /\ Goto("verify")
  /\ UNCHANGED <<editor, inputs, request, item, own, baseline, found, sent, shown, warned,
                 requests, meddling, activated, history>>

StaysOpen ==
  /\ pc = "await end" /\ found \in OpenMenus /\ Fail
  /\ UNCHANGED <<editor, inputs, request, item, own, baseline, found, sent, closed, shown,
                 requests, meddling, activated, history>>

\* _resolve_tree_item_by_index: whatever is in that row now.
VerifySource ==
  /\ pc = "verify" /\ folder = "expanded"
  /\ \/ Found /\ UNCHANGED warned /\ Goto("clean up")
     \/ ~Found /\ Fail
  /\ UNCHANGED <<editor, inputs, request, item, own, baseline, found, sent, closed, shown,
                 requests, meddling, activated, history>>

NotClosed == sent /\ ~closed

\* Mutant: no ESC when no menu was found.
CleanUpFoundMenu ==
  /\ pc = "clean up"
  /\ \E failed \in BOOLEAN :
       /\ \/ NotClosed /\ found # NULL /\ SendEscape
          \/ NotClosed /\ found # NULL /\ failed /\ UNCHANGED inputs /\ abandoned' = TRUE
          \/ ~(NotClosed /\ found # NULL) /\ ~failed /\ UNCHANGED <<inputs, abandoned>>
       /\ folder' \in (IF own THEN {folder, "collapsed"} ELSE {folder})
       /\ warned' = (warned \/ failed \/ (own /\ folder' # "collapsed"))
  /\ pc' = "idle" /\ result' = (IF closed /\ ~warned' THEN "complete" ELSE "incomplete")
  /\ UNCHANGED <<order, opening, menu, menus, request, item, own, baseline, found, sent, closed, shown,
                 requests, meddling, activated, first, leftover>>

\* Mutant: a failed restoration adds no warning.
CleanUpQuietly ==
  /\ pc = "clean up"
  /\ \E failed \in BOOLEAN :
       /\ \/ NotClosed /\ SendEscape
          \/ NotClosed /\ failed /\ UNCHANGED inputs /\ abandoned' = TRUE
          \/ ~(NotClosed) /\ ~failed /\ UNCHANGED <<inputs, abandoned>>
       /\ folder' \in (IF own THEN {folder, "collapsed"} ELSE {folder})
       /\ warned' = (warned \/ failed)
  /\ pc' = "idle" /\ result' = (IF closed /\ ~warned' THEN "complete" ELSE "incomplete")
  /\ UNCHANGED <<order, opening, menu, menus, request, item, own, baseline, found, sent, closed, shown,
                 requests, meddling, activated, first, leftover>>

\* The finally clause: ESC for a menu not known to be closed, and the expansion; that
\* sending ESC raised, before or after it was sent, is only a warning.
CleanUp ==
  /\ pc = "clean up"
  /\ \E failed \in BOOLEAN :
       /\ \/ NotClosed /\ SendEscape
          \/ NotClosed /\ failed /\ UNCHANGED inputs /\ abandoned' = TRUE
          \/ ~(NotClosed) /\ ~failed /\ UNCHANGED <<inputs, abandoned>>
       /\ folder' \in (IF own THEN {folder, "collapsed"} ELSE {folder})
       /\ warned' = (warned \/ failed \/ (own /\ folder' # "collapsed"))
  /\ pc' = "idle" /\ result' = (IF closed /\ ~warned' THEN "complete" ELSE "incomplete")
  /\ UNCHANGED <<order, opening, menu, menus, request, item, own, baseline, found, sent, closed, shown,
                 requests, meddling, activated, first, leftover>>

Editor == Process \/ ObeyExpand
Adapter ==
  \/ Expand \/ SeenExpanded \/ NotSeenExpanded \/ Resolve \/ Lost
  \/ DoubleClick \/ DoubleClickFails \/ KnownMenus \/ RightClick \/ RightClickFails
  \/ SeeMenu \/ SeeMenuFails \/ NoMenu \/ SeeEnd \/ StaysOpen
  \/ VerifySource \/ CleanUp

Requests ==
  \E k \in {"activate", "inspect"}, n \in DOMAIN order, text \in Texts : Request(k, n, text)

Next == Requests \/ Adapter \/ Editor \/ Reorder
Spec == Init /\ [][Next]_vars /\ WF_vars(Adapter) /\ WF_vars(Editor)

-----------------------------------------------------------------------------
(* Properties. *)

Menus == [id : Nat, of : Items, moved : BOOLEAN]
Inputs == [what : {"double", "right", "escape"}, row : Nat, source : Texts, moved : BOOLEAN]

\* Clicks go to rows.
InputsTyped ==
  /\ inputs \in Seq(Inputs)
  /\ \A n \in DOMAIN inputs : inputs[n].what # "escape" => inputs[n].row \in DOMAIN order

FlagsTyped ==
  /\ opening \in BOOLEAN /\ own \in BOOLEAN /\ sent \in BOOLEAN /\ closed \in BOOLEAN
  /\ warned \in BOOLEAN /\ abandoned \in BOOLEAN

\* Every variable has its type.
TreeActionsTypeOK ==
  /\ order \in [1..Cardinality(Items) -> Items] /\ folder \in {"collapsed", "expanded"}
  /\ menus \in Nat /\ menu \in Menus \cup {NULL} /\ found \in Menus \cup {NULL}
  /\ InputsTyped /\ FlagsTyped
  /\ pc \in {"idle", "resolve", "again", "expand", "expand again", "baseline", "press",
            "await menu", "await end", "verify", "clean up"}
  /\ kind \in {"activate", "inspect"} /\ source \in Texts
  /\ item \in Items \cup {NULL} /\ shown \in Items \cup {NULL}
  /\ result \in {"none", "failed", "performed", "complete", "incomplete"}

\* A double click opens an item with the text the request named, and a complete
\* inspection shows the menu of one, unless siblings changed places between the
\* click and the editor getting to it, or the right click was of an earlier
\* inspection that had given up (activate_tree_item, inspect_tree_context_menu).
ActionIsPinned ==
  /\ \A a \in activated : a.moved \/ Label[a.item] = a.source
  /\ result = "complete" => Label[shown] = source \/ found.moved \/ "right" \in leftover

\* A complete inspection leaves the folder as it found it; a folder that obeys an
\* expand() an earlier request had given up on is the exception (line 958).
CompleteRestores ==
  result = "complete" /\ requests > 0 => folder = first \/ "expand" \in leftover

\* No menu stays open, whatever an inspection gives up on - but for one whose right
\* click raised after it was sent, or whose ESC raised instead of being sent in the
\* finally clause (lines 747-748 and 796-802): nothing follows then.
MenuCloses == menu # NULL ~> menu = NULL \/ abandoned

\* Between requests an ESC is queued behind every right click, and one for the open
\* menu, with the same exceptions.
Escaped ==
  /\ menu # NULL => \E n \in DOMAIN inputs : inputs[n].what = "escape"
  /\ \A n \in DOMAIN inputs :
       inputs[n].what = "right" => \E m \in DOMAIN inputs : m > n /\ inputs[m].what = "escape"
EscapeOnItsWay == pc = "idle" => Escaped \/ abandoned
=============================================================================
