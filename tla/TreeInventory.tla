---------------------------- MODULE TreeInventory ----------------------------
(***************************************************************************)
(* The inventory of the project tree: inventory_project_tree of             *)
(* PywinautoKVStudioAdapter (worker/adapter.py) and what the extraction     *)
(* (extraction/project_tree.py) accepts of its report.                      *)
(*                                                                         *)
(* The adapter walks the tree depth first, expands collapsed items on its   *)
(* way and collapses them again when the walk is over, in whatever way it   *)
(* ended.  The recursion is a stack of frames; frame 1 is the tree control. *)
(* The application loads the children of an item it opens when it likes,    *)
(* may obey an expand or a collapse late, in part or never, and may fail    *)
(* any call.  The time limit may run out between any two steps.             *)
(***************************************************************************)
EXTENDS Integers, Sequences, FiniteSets

CONSTANTS
  NULL,
  Tree,      \* the tree control
  Items,     \* its items
  Children,  \* the children of the tree and of each item, in order
  Label,     \* the text of each item
  Limits     \* values of the limits max_project_items, _expansions and _depth

Below(n) == {Children[n][i] : i \in 1..Len(Children[n])}

ASSUME TreeAssumption ==
  /\ Tree \notin Items /\ NULL \notin Items \cup {Tree}
  /\ Children \in [Items \cup {Tree} -> Seq(Items)]
  /\ \A n \in Items \cup {Tree} : \A i, j \in DOMAIN Children[n] : Children[n][i] = Children[n][j] => i = j
  /\ \A n \in Items \cup {Tree} : \A m \in (Items \cup {Tree}) \ {n} : Below(n) \cap Below(m) = {}
\* The constructor refuses limits below one.
ASSUME LimitsAssumption ==
  Limits \subseteq [items: Nat \ {0}, expansions: Nat \ {0}, depth: Nat \ {0}]

VARIABLES
  state,     \* the expansion state of each item
  loaded,    \* the items their parents show when open
  pending,   \* expands and collapses the application has yet to obey
  expired,   \* the deadline of the inventory is over
  before,    \* history: state when the inventory began
  limits, expandAll,    \* the arguments
  pc,        \* the adapter's place
  stack,     \* frames of _crawl_project_node
  items,     \* items visited
  expansions,           \* expansions attempted
  expanded,  \* items to collapse again, with their locators
  truncated, warned,    \* the flag, and whether there is a warning
  todo, attempt, target,  \* entry of expanded, its try and the item found
  restored,  \* items collapsed again
  report,    \* the ProjectTreeInventory returned
  missed,    \* history: items whose expansion was not noticed in time
  unseen     \* history: items whose children could not be seen

app == <<state, loaded, pending, expired>>
arguments == <<before, limits, expandAll>>
found == <<items, expansions, expanded>>
flags == <<truncated, warned>>
restoring == <<todo, attempt, target, restored, report>>
history == <<missed, unseen>>
vars == <<app, arguments, pc, stack, found, flags, restoring, history>>

-----------------------------------------------------------------------------
(* The tree as UI automation shows it. *)

States == {"collapsed", "expanded", "partially_expanded", "leaf"}
OpenStates == {"expanded", "partially_expanded"}

Open(n) == n = Tree \/ state[n] \in OpenStates

\* The places of the children an open item has loaded, and the one of rank i.
Loaded(n) == {j \in DOMAIN Children[n] : Children[n][j] \in loaded}
Place(n, i) == CHOOSE j \in Loaded(n) : Cardinality({k \in Loaded(n) : k <= j}) = i

\* An item that is not open shows no children, an open one those it has loaded.
Shown(n) ==
  IF Open(n) THEN [i \in 1..Cardinality(Loaded(n)) |-> Children[n][Place(n, i)]] ELSE << >>

\* What _expand_state may return: it hides every failure as "unknown".
Readings(n) == {state[n], "unknown"}

\* Mutant of SameStep: the text at the place is not compared.
SameIndex(n, step) == step.index \in DOMAIN Shown(n)

\* The child at a step's place has the step's text.
SameStep(n, step) ==
  step.index \in DOMAIN Shown(n) /\ Label[Shown(n)[step.index]] = step.label

\* _resolve_tree_item: follow a locator; NULL stands for its exceptions.
Resolve(locator) ==
  LET walk[i \in 0..Len(locator)] ==
        IF i = 0 THEN Tree
        ELSE IF walk[i-1] # NULL /\ SameStep(walk[i-1], locator[i])
          THEN Shown(walk[i-1])[locator[i].index]
          ELSE NULL
  IN walk[Len(locator)]

-----------------------------------------------------------------------------
Frame(item, locator, initial) ==
  [item |-> item, locator |-> locator, initial |-> initial, here |-> FALSE,
   kids |-> << >>, next |-> 1, cut |-> FALSE, sub |-> {}]

Top == stack[Len(stack)]
ReplaceTop(frame) == stack' = [stack EXCEPT ![Len(stack)] = frame]
Depth == Len(stack) - 2

Truncate == truncated' = TRUE /\ warned' = TRUE

Init ==
  /\ state \in {s \in [Items -> States] :
                  \A n \in Items : s[n] = "leaf" <=> Children[n] = << >>}
  /\ loaded = UNION {Below(n) : n \in {m \in Items : Open(m)} \cup {Tree}}
  /\ pending = {} /\ expired = FALSE /\ before = state
  /\ limits \in Limits
  /\ expandAll \in BOOLEAN
  /\ pc = "start" /\ stack = <<Frame(Tree, << >>, "expanded")>>
  /\ items = 0 /\ expansions = 0 /\ expanded = << >>
  /\ truncated = FALSE /\ warned = FALSE
  /\ todo = 0 /\ attempt = 1 /\ target = NULL /\ restored = 0 /\ report = NULL
  /\ missed = {} /\ unseen = {}

-----------------------------------------------------------------------------
(* The walk. *)

\* The finally clause: collapse what was expanded, last first.
BeginRestoring == pc' = "collapse" /\ todo' = Len(expanded)

ListRoots ==
  /\ pc = "start" /\ Shown(Tree) # << >>
  /\ ReplaceTop([Top EXCEPT !.kids = Shown(Tree)])
  /\ pc' = "visit"
  /\ UNCHANGED <<app, arguments, found, flags, restoring, history>>

\* The roots cannot be enumerated, or there are none.
NoRoots ==
  /\ pc = "start"
  /\ Truncate /\ BeginRestoring
  /\ UNCHANGED <<app, arguments, stack, found, attempt, target, restored, report, history>>

More == Top.next <= Len(Top.kids)

LimitReached == items >= limits.items \/ expired

\* _crawl_project_node begins with the next child.
Visit ==
  /\ pc = "visit" /\ More /\ ~LimitReached
  /\ LET kid == Top.kids[Top.next]
         step == [index |-> Top.next, label |-> Label[kid]]
     IN \E initial \in Readings(kid) :
          stack' = Append([stack EXCEPT ![Len(stack)].next = Top.next + 1],
                          Frame(kid, Append(Top.locator, step), initial))
  /\ items' = items + 1
  /\ pc' = "expand"
  /\ UNCHANGED <<app, arguments, expansions, expanded, flags, restoring, history>>

\* Mutant of BreakOff: the children left out are not mentioned.
BreakOffSilently ==
  /\ pc = "visit" /\ More /\ LimitReached
  /\ ReplaceTop([Top EXCEPT !.next = Len(Top.kids) + 1])
  /\ UNCHANGED <<app, arguments, pc, found, flags, restoring, history>>

\* A limit is reached before the next child.
BreakOff ==
  /\ pc = "visit" /\ More /\ LimitReached
  /\ ReplaceTop([Top EXCEPT !.next = Len(Top.kids) + 1])
  /\ Truncate
  /\ UNCHANGED <<app, arguments, pc, found, restoring, history>>

\* The deadline passed while the item was read: it is returned as truncated.
VisitTooLate ==
  /\ pc = "expand" /\ expired
  /\ ReplaceTop([Top EXCEPT !.cut = TRUE])
  /\ Truncate
  /\ pc' = "visit"
  /\ UNCHANGED <<app, arguments, found, restoring, history>>

\* control.expand(): obeyed now, later or never, wholly or in part, with or
\* without an exception.
Expand ==
  /\ pc = "expand" /\ ~expired
  /\ expandAll /\ Top.initial = "collapsed" /\ expansions < limits.expansions
  /\ expansions' = expansions + 1
  /\ \/ \E to \in OpenStates : state' = [state EXCEPT ![Top.item] = to] /\ UNCHANGED pending
     \/ pending' = pending \cup {[item |-> Top.item, to |-> "expanded"]} /\ UNCHANGED state
     \/ UNCHANGED <<state, pending>>
  /\ \/ Truncate
     \/ UNCHANGED flags
  /\ pc' = "wait"
  /\ UNCHANGED <<loaded, expired, arguments, stack, items, expanded, restoring, history>>

\* Nothing to expand, or nothing that may be: the reason is noted.
LeaveAsIs ==
  /\ pc = "expand" /\ ~expired
  /\ ~(expandAll /\ Top.initial = "collapsed" /\ expansions < limits.expansions)
  /\ IF Top.initial \in {"collapsed", "partially_expanded"} \/ (expandAll /\ Top.initial = "unknown")
       THEN Truncate ELSE UNCHANGED flags
  /\ pc' = "enumerate"
  /\ UNCHANGED <<app, arguments, stack, found, restoring, history>>

\* Mutant of SeenOpen: only a wholly expanded item is remembered.
SeenWhollyOpen ==
  /\ pc = "wait" /\ Open(Top.item)
  /\ ReplaceTop([Top EXCEPT !.here = TRUE])
  /\ expanded' = IF state[Top.item] = "expanded"
                   THEN Append(expanded, [item |-> Top.item, locator |-> Top.locator])
                   ELSE expanded
  /\ IF state[Top.item] = "expanded" THEN UNCHANGED flags ELSE Truncate
  /\ pc' = "enumerate"
  /\ UNCHANGED <<app, arguments, items, expansions, restoring, history>>

\* The item is seen open within 0.5 s and is remembered; a second look may find
\* it open in part.
SeenOpen ==
  /\ pc = "wait" /\ Open(Top.item)
  /\ ReplaceTop([Top EXCEPT !.here = TRUE])
  /\ expanded' = Append(expanded, [item |-> Top.item, locator |-> Top.locator])
  /\ \E seen \in Readings(Top.item) : IF seen = "expanded" THEN UNCHANGED flags ELSE Truncate
  /\ pc' = "enumerate"
  /\ UNCHANGED <<app, arguments, items, expansions, restoring, history>>

\* It is not: the item is still collapsed, or cannot be read.
NotSeenOpen ==
  /\ pc = "wait"
  /\ Truncate
  /\ missed' = missed \cup {Top.item}
  /\ pc' = "enumerate"
  /\ UNCHANGED <<app, arguments, stack, found, restoring, unseen>>

\* Why an item's children are left out although it was enumerated.
Cut(kids, failed) ==
  \/ kids # << >> /\ (Depth >= limits.depth \/ items >= limits.items)
  \/ kids = << >> /\ (Top.here \/ Top.initial \in OpenStates)
  \/ failed
  \/ ~expandAll /\ Top.initial = "collapsed"
  \/ expandAll /\ Top.initial = "unknown"
  \/ Top.initial = "partially_expanded"

\* _tree_item_children, or for an item opened here _settled_tree_item_children,
\* which does not look at all once the deadline is over.
Seen == IF Top.here /\ expired THEN << >> ELSE Shown(Top.item)

\* The children seen now are taken for the item's children, or the call fails.
Enumerated(kids, failed) ==
  /\ ReplaceTop([Top EXCEPT !.cut = Cut(kids, failed),
                            !.kids = IF Cut(kids, failed) THEN << >> ELSE kids])
  /\ pc' = "visit"
  /\ unseen' = IF kids # Children[Top.item] /\ (Open(Top.item) \/ Top.initial = "unknown")
                 THEN unseen \cup {Top.item} ELSE unseen
  /\ UNCHANGED <<app, arguments, found, restoring, missed>>

Enumerate ==
  /\ pc = "enumerate"
  /\ LET kids == Seen IN
       /\ Enumerated(kids, FALSE)
       /\ truncated' = (truncated \/ Cut(kids, FALSE))
       /\ warned' = (warned \/ (kids = << >> /\ (Top.here \/ Top.initial \in OpenStates)))

CannotEnumerate ==
  /\ pc = "enumerate"
  /\ Enumerated(<< >>, TRUE)
  /\ Truncate

\* The item's snapshot, with those below it, becomes a child of its parent's.
Leave ==
  /\ pc = "visit" /\ ~More /\ Len(stack) > 1
  /\ LET parent == stack[Len(stack) - 1]
         snapshots == Top.sub \cup {[item |-> Top.item, cut |-> Top.cut]}
     IN stack' = Append(SubSeq(stack, 1, Len(stack) - 2),
                        [parent EXCEPT !.sub = parent.sub \cup snapshots])
  /\ UNCHANGED <<app, arguments, pc, found, flags, restoring, history>>

\* window_text or is_visible raises: the walk ends, only finished roots are kept.
WalkFails ==
  /\ pc = "visit"
  /\ IF More THEN ~LimitReached ELSE Len(stack) > 1
  /\ stack' = <<stack[1]>>
  /\ Truncate /\ BeginRestoring
  /\ UNCHANGED <<app, arguments, found, attempt, target, restored, report, history>>

WalkEnds ==
  /\ pc = "visit" /\ ~More /\ Len(stack) = 1
  /\ BeginRestoring
  /\ UNCHANGED <<app, arguments, stack, found, flags, attempt, target, restored, report, history>>

-----------------------------------------------------------------------------
(* The restoration. *)

\* The attempt raised: try once more with a fresh tree, then give up.
AttemptFails ==
  /\ IF attempt = 1
       THEN attempt' = 2 /\ UNCHANGED <<todo, warned>>
       ELSE attempt' = 1 /\ todo' = todo - 1 /\ warned' = TRUE
  /\ target' = NULL /\ pc' = "collapse"
  /\ UNCHANGED <<loaded, expired, arguments, stack, found, truncated, restored, report, history>>

\* control.collapse() returns; the application obeys now, later or never.
Collapse ==
  /\ pc = "collapse" /\ todo > 0
  /\ target' = Resolve(expanded[todo].locator) /\ target' # NULL
  /\ \/ state' = [state EXCEPT ![target'] = "collapsed"] /\ UNCHANGED pending
     \/ pending' = pending \cup {[item |-> target', to |-> "collapsed"]} /\ UNCHANGED state
     \/ UNCHANGED <<state, pending>>
  /\ pc' = "verify"
  /\ UNCHANGED <<loaded, expired, arguments, stack, found, flags, todo, attempt, restored,
                 report, history>>

\* The item is not found, or a call raises, collapse possibly after its effect.
CannotCollapse ==
  /\ pc = "collapse" /\ todo > 0
  /\ LET n == Resolve(expanded[todo].locator) IN
       state' \in {state} \cup {[state EXCEPT ![m] = "collapsed"] : m \in {n} \ {NULL}}
  /\ UNCHANGED pending
  /\ AttemptFails

\* Mutant of SeenCollapsed: the other attempt may still be counted for the item.
SeenCollapsedOnce ==
  /\ pc = "verify" /\ state[target] = "collapsed"
  /\ restored' = restored + 1
  /\ IF attempt = 1
       THEN attempt' = 2 /\ UNCHANGED todo ELSE attempt' = 1 /\ todo' = todo - 1
  /\ target' = NULL /\ pc' = "collapse"
  /\ UNCHANGED <<app, arguments, stack, found, flags, report, history>>

SeenCollapsed ==
  /\ pc = "verify" /\ state[target] = "collapsed"
  /\ restored' = restored + 1
  /\ todo' = todo - 1 /\ attempt' = 1 /\ target' = NULL /\ pc' = "collapse"
  /\ UNCHANGED <<app, arguments, stack, found, flags, report, history>>

\* Not within 0.5 s, or it cannot be read.
NotSeenCollapsed ==
  /\ pc = "verify"
  /\ AttemptFails /\ UNCHANGED <<state, pending>>

\* The report; the process behind the tree may have changed.
Report ==
  /\ pc = "collapse" /\ todo = 0
  /\ \E changed \in BOOLEAN :
       /\ truncated' = (truncated \/ changed) /\ warned' = (warned \/ changed)
       /\ LET complete == restored = Len(expanded)
          IN report' = [complete |-> ~truncated' /\ complete, restoration |-> complete,
                        truncated |-> truncated', warned |-> warned',
                        items |-> items, roots |-> stack[1].sub]
  /\ pc' = "done"
  /\ UNCHANGED <<app, arguments, stack, found, todo, attempt, target, restored, history>>

\* The window or the tree cannot be read any more: an exception, and no report.
CannotReport ==
  /\ pc = "collapse" /\ todo = 0
  /\ pc' = "done"
  /\ UNCHANGED <<app, arguments, stack, found, flags, restoring, history>>

-----------------------------------------------------------------------------
(* The application and the clock. *)

Obey ==
  /\ \E p \in pending :
       /\ state' = [state EXCEPT ![p.item] = p.to]
       /\ pending' = pending \ {p}
  /\ UNCHANGED <<loaded, expired, arguments, pc, stack, found, flags, restoring, history>>

Load ==
  /\ \E n \in Items : Open(n) /\ \E c \in Below(n) \ loaded : loaded' = loaded \cup {c}
  /\ UNCHANGED <<state, pending, expired, arguments, pc, stack, found, flags, restoring, history>>

Expire ==
  /\ ~expired /\ expired' = TRUE
  /\ UNCHANGED <<state, loaded, pending, arguments, pc, stack, found, flags, restoring, history>>

Adapter ==
  \/ ListRoots \/ NoRoots \/ Visit \/ BreakOff \/ VisitTooLate \/ Expand \/ LeaveAsIs
  \/ SeenOpen \/ NotSeenOpen \/ Enumerate \/ CannotEnumerate \/ Leave \/ WalkFails \/ WalkEnds
  \/ Collapse \/ CannotCollapse \/ SeenCollapsed \/ NotSeenCollapsed \/ Report \/ CannotReport
Application == pc # "done" /\ (Obey \/ Load \/ Expire)

\* The report is given; nothing is left to do.
Quiet == pc = "done" /\ UNCHANGED vars

Next == Adapter \/ Application \/ Quiet

Spec == Init /\ [][Next]_vars

-----------------------------------------------------------------------------
(* Properties. *)

\* What extract_project_tree_inventory demands of the report it is given.
Accepted(r) ==
  /\ r.complete /\ ~r.truncated /\ r.restoration /\ ~r.warned
  /\ \A s \in r.roots : ~s.cut
  /\ r.items = Cardinality(r.roots)

Captured(r) == {s.item : s \in r.roots}

\* Every variable keeps its type, and the counters their limits.
TypeOK ==
  /\ state \in [Items -> States] /\ loaded \subseteq Items
  /\ pending \subseteq [item: Items, to: {"collapsed", "expanded"}]
  /\ pc \in {"start", "visit", "expand", "wait", "enumerate", "collapse", "verify", "done"}
  /\ items \in 0..limits.items /\ expansions \in 0..limits.expansions
  /\ Len(expanded) <= expansions /\ restored + todo <= Len(expanded)
  /\ target \in Items \cup {NULL}

\* docs/project-tree-inventory.md: only initially collapsed items are touched.
\* An item that was open stays as it is, even when its siblings load late and
\* shift the places the restoration looks at; and without expand_all nothing is.
OnlyOwnExpansions ==
  \A n \in Items : before[n] # "collapsed" \/ ~expandAll => state[n] = before[n]

\* A restoration called complete leaves the tree as it was, except for items
\* whose expansion the 0.5 s wait did not notice.
RestorationHolds ==
  report # NULL => (report.restoration =>
    \A n \in Items : state[n] # before[n] => n \in missed)

\* An inventory that is called complete, or that the extraction accepts, holds
\* every item, except below those whose children were still loading or whose state
\* could not be read without expand_all: limits, failures and partial expansions
\* are never passed over.
CompletenessHolds ==
  report # NULL => (report.complete \/ Accepted(report) =>
    /\ Below(Tree) \subseteq Captured(report)
    /\ \A n \in Captured(report) \ unseen : Below(n) \subseteq Captured(report))
=============================================================================
