------------------------ MODULE TreeInventory_proofs ------------------------
(***************************************************************************)
(* Proofs about the inventory of the project tree for any tree, any initial  *)
(* states of its items, any limits and any behaviour of the application.      *)
(***************************************************************************)
EXTENDS TreeInventory, FiniteSetTheorems, SequenceTheorems, TLAPS

-----------------------------------------------------------------------------
(* The inductive invariant. *)

Nodes == Items \cup {Tree}
LocatorStep == [index : Nat, label : {Label[n] : n \in Items}]
FrameType ==
  [item : Nodes, locator : Seq(LocatorStep), initial : States \cup {"unknown"}, here : BOOLEAN,
   kids : Seq(Items), next : Nat \ {0}, cut : BOOLEAN, sub : SUBSET [item : Items, cut : BOOLEAN]]

Walking == pc \in {"start", "visit", "expand", "wait", "enumerate"}
AtItem == pc \in {"expand", "wait", "enumerate"}

\* Every variable has its type, the stack its shape; counters keep their limits.
AppType ==
  /\ state \in [Items -> States] /\ before \in [Items -> States] /\ loaded \subseteq Items
  /\ pending \subseteq [item: Items, to: {"collapsed", "expanded"}]
  /\ missed \subseteq Items /\ unseen \subseteq Items /\ target \in Items \cup {NULL}

PlaceType ==
  /\ pc \in {"start", "visit", "expand", "wait", "enumerate", "collapse", "verify", "done"}
  /\ expandAll \in BOOLEAN /\ truncated \in BOOLEAN
  /\ Walking => restored = 0 /\ todo = 0 /\ report = NULL
  /\ report # NULL => pc = "done"

CountType ==
  /\ limits \in Limits /\ expanded \in Seq([item : Items, locator : Seq(LocatorStep)])
  /\ items \in 0..limits.items /\ expansions \in 0..limits.expansions
  /\ Len(expanded) <= expansions /\ (pc = "wait" => Len(expanded) < expansions)
  /\ todo \in Nat /\ restored \in Nat /\ restored + todo <= Len(expanded)
  /\ pc = "verify" => todo > 0

StackType ==
  /\ stack \in Seq(FrameType) /\ Len(stack) >= 1
  /\ pc = "start" => stack = <<Frame(Tree, << >>, "expanded")>>
  /\ AtItem => Len(stack) > 1 /\ Top.kids = << >> /\ Top.next = 1 /\ Top.sub = {}

TypeInv == AppType /\ PlaceType /\ CountType /\ StackType

\* The locator is the texts on the way from the tree to the item.
Leads(locator, n) ==
  \E path \in [0..Len(locator) -> Nodes] :
    /\ path[0] = Tree /\ path[Len(locator)] = n
    /\ \A i \in 1..Len(locator) : path[i] \in Below(path[i-1]) /\ Label[path[i]] = locator[i].label

\* The frames are a way down the tree.
WayFrame(frame) ==
  /\ Leads(frame.locator, frame.item)
  /\ \A j \in 1..Len(frame.kids) : frame.kids[j] \in Below(frame.item)

StackWay ==
  /\ stack[1].item = Tree
  /\ \A i \in 2..Len(stack) : stack[i].item \in Items
  /\ \A i \in 1..Len(stack) : WayFrame(stack[i])

WayInv == StackWay /\ \A i \in 1..Len(expanded) : Leads(expanded[i].locator, expanded[i].item)

SubItems(i) == {s.item : s \in stack[i].sub}
Visited == {stack[i].item : i \in 2..Len(stack)} \cup UNION {SubItems(i) : i \in 1..Len(stack)}

\* A frame's children are different, and those it has still to visit were not visited.
Ahead(i) ==
  \A j, k \in 1..Len(stack[i].kids) :
    /\ j # k => stack[i].kids[j] # stack[i].kids[k]
    /\ j >= stack[i].next => stack[i].kids[j] \notin Visited

\* Nothing is visited twice: nothing was visited whose parent was not, and nothing
\* below the item that is visited now.
OnceInv ==
  Walking =>
    /\ \A n \in Nodes : \A m \in Below(n) : m \in Visited => n \in Visited \cup {Tree}
    /\ \A i, j \in 1..Len(stack) : i # j => stack[i].item # stack[j].item
    /\ \A i \in 1..Len(stack) : Ahead(i)
    /\ AtItem => Below(Top.item) \cap Visited = {}

Entries == {expanded[i].item : i \in 1..Len(expanded)}
Waiting == IF pc = "wait" THEN {Top.item} ELSE {}

\* What differs from the beginning was expanded by the adapter: it is waited for,
\* missed, or remembered, and an expand that is not obeyed is one of a missed item.
ChangedInv ==
  /\ Entries \cap missed = {} /\ Entries \cap Waiting = {} /\ missed \cap Waiting = {}
  /\ \A i, j \in 1..Len(expanded) : i # j => expanded[i].item # expanded[j].item
  /\ \A n \in Items : state[n] # before[n] => n \in Entries \cup missed \cup Waiting
  /\ \A n \in Entries \cup missed \cup Waiting : before[n] = "collapsed" /\ expandAll
  /\ \A q \in pending :
       IF q.to = "expanded" THEN state[q.item] = "collapsed" /\ q.item \in missed \cup Waiting
       ELSE q.item \in Entries
  /\ Walking => Entries \cup missed \cup Waiting \subseteq Visited
  /\ pc = "expand" =>
       Top.item \notin Entries \cup missed /\ Top.initial \in {before[Top.item], "unknown"}

\* While no item was given up, all items done so far are collapsed again.
RestoreInv ==
  /\ pc = "verify" => target = expanded[todo].item
  /\ ~Walking /\ restored + todo = Len(expanded) =>
       \A i \in (todo + 1)..Len(expanded) : state[expanded[i].item] = "collapsed"
  /\ report # NULL /\ report.restoration => todo = 0 /\ restored = Len(expanded)

\* The roots are loaded, and an item that was a leaf has nothing below it.
LoadedInv ==
  /\ Below(Tree) \subseteq loaded
  /\ \A n \in Items : state[n] = "leaf" => Children[n] = << >>
  /\ AtItem /\ Top.initial = "leaf" => Children[Top.item] = << >>

\* A frame went through the children of its item in turn; what was captured was
\* captured with all that is below it.
Through(i) ==
  /\ stack[i].kids = Children[stack[i].item] \/ (i > 1 /\ stack[i].item \in unseen)
  /\ \A j \in 1..(stack[i].next - 1) :
       stack[i].kids[j] \in SubItems(i) \/ (i < Len(stack) /\ stack[i].kids[j] = stack[i+1].item)

Closed(i) == \A n \in SubItems(i) : n \in unseen \/ Below(n) \subseteq SubItems(i)

WholeInv ==
  /\ pc = "enumerate" /\ Top.initial = "collapsed" /\ expandAll => Top.here
  /\ \A i \in 1..Len(stack) : i < Len(stack) \/ (pc # "start" /\ ~AtItem) => Through(i)
  /\ \A i \in 1..Len(stack) : Closed(i)
  /\ ~Walking => Len(stack) = 1 /\ ~More

\* While nothing is said to be left out, nothing is.
CapturedInv == LoadedInv /\ (~truncated => WholeInv) /\ CompletenessHolds

\* Siblings have different texts: an item's path identifies it, as
\* docs/project-tree-inventory.md:116 says; the adapter does not demand it.
SiblingsDiffer ==
  \A n \in Nodes : \A c, d \in Below(n) : Label[c] = Label[d] => c = d

-----------------------------------------------------------------------------
(* Facts about the model's operators. *)

(***************************************************************************)
(* Induction over the natural numbers, with a set in place of a predicate:   *)
(* a set that 0 is in and that is closed under successor leaves no n out, or  *)
(* i |-> i + 1 would map its part up to n into that part without 0.           *)
(***************************************************************************)
LEMMA Induction ==
  ASSUME NEW S, 0 \in S, \A n \in Nat : n \in S => n + 1 \in S
  PROVE  \A n \in Nat : n \in S
<1> SUFFICES ASSUME NEW n \in Nat, n \notin S PROVE FALSE
  OBVIOUS
<1> DEFINE T == {i \in 0..n : i \in S}
           U == T \ {0}
           f == [i \in T |-> i + 1]
<1>1. IsFiniteSet(T)
  <2>1. T \in SUBSET (0..n)
    OBVIOUS
  <2>2. IsFiniteSet(0..n)
    BY FS_Interval
  <2> QED
    BY <2>1, <2>2, FS_Subset
<1>2. 0 \in T /\ IsFiniteSet(U) /\ Cardinality(U) = Cardinality(T) - 1 /\ Cardinality(T) \in Nat
  <2>1. 0 \in T
    OBVIOUS
  <2>2. IsFiniteSet(U) /\ Cardinality(U) = IF 0 \in T THEN Cardinality(T) - 1 ELSE Cardinality(T)
    BY <1>1, FS_RemoveElement
  <2>3. Cardinality(T) \in Nat
    BY <1>1, FS_CardinalityType
  <2> HIDE DEF T, U
  <2> QED
    BY <2>1, <2>2, <2>3
<1>3. f \in [T -> U]
  <2> SUFFICES ASSUME NEW i \in T PROVE i + 1 \in U
    OBVIOUS
  <2>1. i \in Nat /\ i # n /\ i <= n /\ i + 1 \in S
    OBVIOUS
  <2> QED
    BY <2>1
<1>4. \A i, j \in T : f[i] = f[j] => i = j
  OBVIOUS
<1> HIDE DEF T, U, f
<1>5. Cardinality(U) < Cardinality(T)
  BY <1>2
<1>6. \E i, j \in T : i # j /\ f[i] = f[j]
  BY <1>1, <1>2, <1>3, <1>5, FS_PigeonHole
<1> QED
  BY <1>4, <1>6

\* f begins with s and takes n steps of next in S.
Stepwise(f, S, s, n, next) ==
  f \in [0..n -> S] /\ f[0] = s /\ \A i \in 1..n : f[i] = next[<<i, f[i-1]>>]

(***************************************************************************)
(* A function of 0..n that is given step by step exists.                    *)
(***************************************************************************)
LEMMA StepwiseFunction ==
  ASSUME NEW S, NEW s \in S, NEW n \in Nat, NEW next \in [(1..n) \X S -> S]
  PROVE  \E f : Stepwise(f, S, s, n, next)
<1> DEFINE Good(k, f) == f[0] = s /\ \A i \in 1..k : f[i] = next[<<i, f[i-1]>>]
           K == {k \in Nat : k <= n => \E f \in [0..k -> S] : Good(k, f)}
<1>1. 0 \in K
  <2>1. [i \in 0..0 |-> s] \in [0..0 -> S] /\ Good(0, [i \in 0..0 |-> s])
    OBVIOUS
  <2> QED
    BY <2>1
<1>2. ASSUME NEW k \in Nat, k \in K
      PROVE  k + 1 \in K
  <2> SUFFICES ASSUME k + 1 <= n
               PROVE  \E f \in [0..(k + 1) -> S] : Good(k + 1, f)
    OBVIOUS
  <2>1. PICK f \in [0..k -> S] : Good(k, f)
    BY <1>2
  <2> DEFINE g == [i \in 0..(k + 1) |-> IF i = k + 1 THEN next[<<k + 1, f[k]>>] ELSE f[i]]
  <2>2. f[k] \in S /\ k + 1 \in 1..n
    OBVIOUS
  <2>3. next[<<k + 1, f[k]>>] \in S
    BY <2>2
  <2>4. g \in [0..(k + 1) -> S]
    BY <2>3
  <2>5. g[k + 1] = next[<<k + 1, f[k]>>] /\ \A i \in 0..k : g[i] = f[i]
    OBVIOUS
  <2> HIDE DEF g
  <2>6. Good(k + 1, g)
    <3>1. g[0] = s
      BY <2>1, <2>5
    <3>2. ASSUME NEW i \in 1..(k + 1)
          PROVE  g[i] = next[<<i, g[i-1]>>]
      <4>1. CASE i = k + 1
        <5>1. i - 1 = k /\ g[k] = f[k]
          BY <2>5, <4>1
        <5> QED
          BY <2>5, <4>1, <5>1
      <4>2. CASE i \in 1..k
        <5>1. g[i-1] = f[i-1] /\ g[i] = f[i]
          BY <2>5, <4>2
        <5> QED
          BY <2>1, <4>2, <5>1
      <4> QED
        BY <4>1, <4>2
    <3> QED
      BY <3>1, <3>2
  <2> QED
    BY <2>4, <2>6
<1>3. n \in K
  <2> HIDE DEF K
  <2> QED
    BY <1>1, <1>2, Induction
<1> QED
  BY <1>3 DEF Stepwise

(***************************************************************************)
(* What a node shows: some of its children, each once, and all of them when  *)
(* all are loaded.                                                          *)
(***************************************************************************)
LEMMA ShownChildren ==
  ASSUME NEW n \in Nodes
  PROVE  /\ Shown(n) \in Seq(Items)
         /\ \A i \in 1..Len(Shown(n)) : Shown(n)[i] \in Below(n)
         /\ \A i, j \in 1..Len(Shown(n)) : i # j => Shown(n)[i] # Shown(n)[j]
         /\ Open(n) /\ Below(n) \subseteq loaded => Shown(n) = Children[n]
         /\ ~Open(n) => Shown(n) = << >>
<1> DEFINE P == Loaded(n)
           L == Len(Children[n])
           c == Cardinality(P)
           upto(j) == {k \in P : k <= j}
           rank(j) == Cardinality(upto(j))
<1>1. /\ Children[n] \in Seq(Items) /\ L \in Nat /\ DOMAIN Children[n] = 1..L
      /\ \A i \in 1..L : Children[n][i] \in Items
      /\ \A i, j \in 1..L : Children[n][i] = Children[n][j] => i = j
  BY TreeAssumption DEF Nodes
<1>2. P \in SUBSET (1..L) /\ IsFiniteSet(P) /\ c \in Nat
  <2>1. P \in SUBSET (1..L)
    BY <1>1 DEF Loaded
  <2>2. IsFiniteSet(1..L)
    BY <1>1, FS_Interval
  <2>3. IsFiniteSet(P)
    BY <2>1, <2>2, FS_Subset
  <2> QED
    BY <2>1, <2>3, FS_CardinalityType
<1> HIDE DEF P, L
<1>3. ASSUME NEW j \in P
      PROVE  /\ upto(j) \in SUBSET P /\ IsFiniteSet(upto(j)) /\ rank(j) \in 1..c
  <2>1. upto(j) \in SUBSET P /\ j \in upto(j) /\ upto(j) # {}
    BY <1>2
  <2>2. IsFiniteSet(upto(j)) /\ rank(j) <= c
    BY <1>2, <2>1, FS_Subset
  <2>3. rank(j) \in Nat /\ rank(j) # 0
    BY <2>1, <2>2, FS_CardinalityType, FS_EmptySet
  <2> QED
    BY <1>2, <2>1, <2>2, <2>3
<1>4. ASSUME NEW j \in P, NEW k \in P, j < k
      PROVE  rank(j) < rank(k)
  <2>1. upto(j) \in SUBSET upto(k) /\ k \in upto(k) /\ k \notin upto(j)
    <3>1. \A x \in P : x \in Int
      BY <1>2
    <3> QED
      BY <1>4, <3>1
  <2>2. rank(j) <= rank(k) /\ (rank(j) = rank(k) => upto(j) = upto(k))
    BY <1>3, <2>1, FS_Subset
  <2>3. rank(j) \in Nat /\ rank(k) \in Nat
    BY <1>2, <1>3
  <2> QED
    BY <2>1, <2>2, <2>3
<1>5. \A i \in 1..c : \E j \in P : rank(j) = i
  <2> DEFINE f == [j \in P |-> rank(j)]
  <2>1. f \in [P -> 1..c]
    BY <1>3
  <2>2. \A j, k \in P : j # k => f[j] # f[k]
    <3> SUFFICES ASSUME NEW j \in P, NEW k \in P, j < k
                 PROVE  f[j] # f[k]
      <4>1. \A j, k \in P : j \in Int /\ k \in Int
        BY <1>2
      <4> QED
        BY <4>1
    <3>1. rank(j) \in Int /\ rank(k) \in Int /\ rank(j) < rank(k)
      BY <1>2, <1>3, <1>4
    <3> HIDE DEF upto, rank
    <3> QED
      BY <3>1
  <2> HIDE DEF f
  <2>3. f \in Injection(P, 1..c)
    BY <2>1, <2>2 DEF Injection, IsInjective
  <2>4. IsFiniteSet(1..c) /\ Cardinality(1..c) = c
    BY <1>2, FS_Interval
  <2>5. f \in Surjection(P, 1..c)
    BY <2>3, <2>4, FS_Injection
  <2> QED
    BY <2>5 DEF Surjection, f
<1>6. \A i \in 1..c : Place(n, i) \in P /\ rank(Place(n, i)) = i
  BY <1>5 DEF Place, P
<1>7. CASE Open(n)
  <2> DEFINE s == [i \in 1..c |-> Children[n][Place(n, i)]]
  <2>1. Shown(n) = s
    BY <1>7 DEF Shown, P
  <2>2. \A i \in 1..c : Children[n][Place(n, i)] \in Items
    BY <1>1, <1>2, <1>6
  <2>3. s \in Seq(Items) /\ Len(s) = c
    BY <1>2, <2>2
  <2>4. \A i \in 1..c : s[i] \in Below(n)
    BY <1>1, <1>2, <1>6 DEF Below, L
  <2>5. \A i, j \in 1..c : i # j => s[i] # s[j]
    <3> SUFFICES ASSUME NEW i \in 1..c, NEW j \in 1..c, i # j
                 PROVE  Children[n][Place(n, i)] # Children[n][Place(n, j)]
      OBVIOUS
    <3>1. rank(Place(n, i)) = i /\ rank(Place(n, j)) = j
      BY <1>6
    <3>2. Place(n, i) \in 1..L /\ Place(n, j) \in 1..L /\ Place(n, i) # Place(n, j)
      <4> HIDE DEF rank
      <4> QED
        BY <1>2, <1>6, <3>1
    <3> QED
      BY <1>1, <3>2
  <2>6. ASSUME Below(n) \subseteq loaded
        PROVE  s = Children[n]
    <3>1. P = 1..L
      BY <1>1, <2>6 DEF P, L, Loaded, Below
    <3>2. c = L
      BY <1>1, <3>1, FS_Interval
    <3>3. \A i \in 1..L : Place(n, i) = i
      <4> SUFFICES ASSUME NEW i \in 1..L
                   PROVE  Place(n, i) = i
        OBVIOUS
      <4>1. upto(i) = 1..i
        BY <1>1, <3>1
      <4>2. rank(i) = i
        <5>1. Cardinality(1..i) = i
          BY <1>1, FS_Interval
        <5> QED
          BY <4>1, <5>1
      <4>3. Place(n, i) \in P /\ rank(Place(n, i)) = i
        BY <1>6, <3>2
      <4>4. i \in P /\ \A j \in P : rank(j) \in Int /\ j \in Int
        BY <1>2, <1>3, <3>1
      <4>5. \A j, k \in P : j < k => rank(j) < rank(k)
        BY <1>4
      <4> HIDE DEF upto, rank
      <4>6. ASSUME NEW j \in P, rank(j) = i
            PROVE  j = i
        <5>1. ~(j < i) /\ ~(i < j)
          BY <4>2, <4>4, <4>5, <4>6
        <5> QED
          BY <4>4, <5>1
      <4> QED
        BY <4>3, <4>6
    <3> QED
      BY <1>1, <2>3, <3>2, <3>3
  <2> QED
    BY <1>7, <2>1, <2>3, <2>4, <2>5, <2>6
<1>8. CASE ~Open(n)
  BY <1>8 DEF Shown
<1> QED
  BY <1>7, <1>8

(***************************************************************************)
(* A locator leads to the item it was made for, if it leads anywhere.        *)
(***************************************************************************)
LEMMA ResolveLeads ==
  ASSUME NEW locator \in Seq(LocatorStep), NEW n \in Items, Leads(locator, n)
  PROVE  /\ Resolve(locator) \in Items \cup {NULL}
         /\ SiblingsDiffer => Resolve(locator) \in {n, NULL}
<1> DEFINE L == Len(locator)
           S == Nodes \cup {NULL}
           to(m, i) == IF m # NULL /\ SameStep(m, locator[i]) THEN Shown(m)[locator[i].index] ELSE NULL
           next == [q \in (1..L) \X S |-> to(q[2], q[1])]
<1>1. L \in Nat /\ NULL \notin Nodes /\ Tree \notin Items
  BY TreeAssumption DEF Nodes
<1>2. ASSUME NEW m \in S, NEW i \in 1..L
      PROVE  /\ to(m, i) \in Items \cup {NULL}
             /\ to(m, i) # NULL => m \in Nodes /\ to(m, i) \in Below(m) /\ Label[to(m, i)] = locator[i].label
  <2>1. CASE m # NULL /\ SameStep(m, locator[i])
    <3>1. m \in Nodes
      BY <2>1
    <3>2. locator[i].index \in 1..Len(Shown(m)) /\ Shown(m) \in Seq(Items)
      BY <2>1, <3>1, ShownChildren DEF SameStep
    <3>3. Shown(m)[locator[i].index] \in Items /\ Shown(m)[locator[i].index] \in Below(m)
      BY <3>1, <3>2, ShownChildren
    <3> QED
      BY <2>1, <3>1, <3>3 DEF SameStep
  <2>2. CASE ~(m # NULL /\ SameStep(m, locator[i]))
    BY <2>2
  <2> QED
    BY <2>1, <2>2
<1>3. next \in [(1..L) \X S -> S]
  BY <1>2 DEF Nodes
<1> DEFINE walk == CHOOSE walk : walk = [i \in 0..L |->
                     IF i = 0 THEN Tree ELSE to(walk[i-1], i)]
<1> HIDE DEF to
<1>4. Resolve(locator) = walk[L]
  BY DEF Resolve, to
<1>5. walk = [i \in 0..L |-> IF i = 0 THEN Tree ELSE to(walk[i-1], i)]
  <2>1. Tree \in S /\ L \in Nat
    BY <1>1 DEF Nodes
  <2>2. PICK f \in [0..L -> S] : f[0] = Tree /\ \A i \in 1..L : f[i] = next[<<i, f[i-1]>>]
    <3> HIDE DEF next, S, L
    <3>1. \E f : Stepwise(f, S, Tree, L, next)
      BY <1>3, <2>1, StepwiseFunction
    <3> QED
      BY <3>1 DEF Stepwise
  <2>3. \A i \in 1..L : next[<<i, f[i-1]>>] = to(f[i-1], i)
    <3> SUFFICES ASSUME NEW i \in 1..L
                 PROVE  next[<<i, f[i-1]>>] = to(f[i-1], i)
      OBVIOUS
    <3>1. f[i-1] \in S
      <4>1. i - 1 \in 0..L
        BY <2>1
      <4> HIDE DEF S, L
      <4> QED
        BY <4>1
    <3> QED
      BY <3>1
  <2> HIDE DEF next, S
  <2>4. f = [i \in 0..L |-> IF i = 0 THEN Tree ELSE to(f[i-1], i)]
    BY <2>1, <2>2, <2>3
  <2> QED
    BY <2>4
<1> HIDE DEF walk
<1>6. walk[0] = Tree /\ \A i \in 1..L : walk[i] = to(walk[i-1], i)
  <2>1. 0 \in 0..L /\ \A i \in 1..L : i \in 0..L /\ i # 0
    BY <1>1
  <2> HIDE DEF L
  <2> QED
    BY <1>5, <2>1
<1>7. PICK path \in [0..L -> Nodes] :
        /\ path[0] = Tree /\ path[L] = n
        /\ \A i \in 1..L : path[i] \in Below(path[i-1]) /\ Label[path[i]] = locator[i].label
  BY DEF Leads
<1> DEFINE K == {i \in Nat : i <= L => walk[i] \in S /\ (SiblingsDiffer => walk[i] \in {path[i], NULL})}
<1> HIDE DEF L
<1>8. \A i \in Nat : i \in K
  <2>1. 0 \in K
    BY <1>6, <1>7 DEF Nodes
  <2>2. ASSUME NEW i \in Nat, i \in K
        PROVE  i + 1 \in K
    <3> SUFFICES ASSUME i + 1 <= L
                 PROVE  walk[i+1] \in S /\ (SiblingsDiffer => walk[i+1] \in {path[i+1], NULL})
      OBVIOUS
    <3>1. i + 1 \in 1..L /\ i + 1 - 1 = i /\ i <= L
      BY <1>1
    <3>2. walk[i+1] = to(walk[i], i + 1) /\ walk[i] \in S
      BY <1>6, <2>2, <3>1
    <3>3. path[i+1] \in Below(path[i]) /\ Label[path[i+1]] = locator[i+1].label /\ path[i] \in Nodes
      <4>1. i \in 0..L
        BY <3>1
      <4> QED
        BY <1>7, <3>1, <4>1
    <3>4. walk[i+1] \in S
      BY <1>2, <3>1, <3>2 DEF Nodes
    <3>5. ASSUME SiblingsDiffer, walk[i+1] # NULL
          PROVE  walk[i+1] = path[i+1]
      <4>1. walk[i] \in Nodes /\ walk[i+1] \in Below(walk[i]) /\ Label[walk[i+1]] = locator[i+1].label
        BY <1>2, <3>1, <3>2, <3>5
      <4>2. walk[i] = path[i]
        BY <1>1, <2>2, <3>1, <3>5, <4>1
      <4> QED
        BY <3>3, <3>5, <4>1, <4>2 DEF SiblingsDiffer
    <3> QED
      BY <3>4, <3>5
  <2> HIDE DEF K
  <2> QED
    BY <2>1, <2>2, Induction
<1>9. walk[L] \in S /\ (SiblingsDiffer => walk[L] \in {n, NULL})
  BY <1>1, <1>7, <1>8
<1>10. walk[L] \in Items \cup {NULL}
  <2>1. L # 0
    BY <1>1, <1>7
  <2>2. L \in 1..L /\ L - 1 \in Nat /\ L - 1 <= L
    BY <1>1, <2>1
  <2>3. walk[L-1] \in S
    BY <1>8, <2>2
  <2> QED
    BY <1>2, <1>6, <2>2, <2>3
<1> QED
  BY <1>4, <1>9, <1>10

\* A locator with one more text leads to the child that has it.
LEMMA LeadsFurther ==
  ASSUME NEW locator \in Seq(LocatorStep), NEW n \in Nodes, Leads(locator, n),
         NEW c \in Below(n), NEW k \in Nat
  PROVE  /\ Append(locator, [index |-> k, label |-> Label[c]]) \in Seq(LocatorStep)
         /\ Leads(Append(locator, [index |-> k, label |-> Label[c]]), c)
<1> DEFINE L == Len(locator)
           further == Append(locator, [index |-> k, label |-> Label[c]])
<1>1. L \in Nat /\ c \in Items /\ c \in Nodes
  BY TreeAssumption DEF Below, Nodes
<1>2. [index |-> k, label |-> Label[c]] \in LocatorStep
  BY <1>1 DEF LocatorStep
<1>3. /\ further \in Seq(LocatorStep) /\ Len(further) = L + 1
      /\ \A i \in 1..L : further[i] = locator[i]
      /\ further[L + 1].label = Label[c]
  BY <1>1, <1>2
<1>4. PICK path \in [0..L -> Nodes] :
        /\ path[0] = Tree /\ path[L] = n
        /\ \A i \in 1..L : path[i] \in Below(path[i-1]) /\ Label[path[i]] = locator[i].label
  BY DEF Leads
<1> DEFINE way == [i \in 0..(L + 1) |-> IF i = L + 1 THEN c ELSE path[i]]
<1>5. way \in [0..(L + 1) -> Nodes] /\ way[L + 1] = c /\ \A i \in 0..L : way[i] = path[i]
  BY <1>1
<1> HIDE DEF way, further, L
<1>6. way[0] = Tree
  BY <1>1, <1>4, <1>5
<1>7. ASSUME NEW i \in 1..(L + 1)
      PROVE  way[i] \in Below(way[i-1]) /\ Label[way[i]] = further[i].label
  <2>1. CASE i = L + 1
    <3>1. i - 1 = L /\ L \in 0..L
      BY <1>1, <2>1
    <3>2. way[i-1] = n
      BY <1>4, <1>5, <3>1
    <3> QED
      BY <1>3, <1>5, <2>1, <3>2
  <2>2. CASE i \in 1..L
    <3>1. i \in 0..L /\ i - 1 \in 0..L
      BY <1>1, <2>2
    <3> QED
      BY <1>3, <1>4, <1>5, <2>2, <3>1
  <2> QED
    BY <1>1, <2>1, <2>2
<1>8. /\ way \in [0..Len(further) -> Nodes] /\ way[0] = Tree /\ way[Len(further)] = c
      /\ \A i \in 1..Len(further) : way[i] \in Below(way[i-1]) /\ Label[way[i]] = further[i].label
  BY <1>3, <1>5, <1>6, <1>7
<1>9. Leads(further, c)
  BY <1>8 DEF Leads
<1> QED
  BY <1>3, <1>9 DEF further

(***************************************************************************)
(* The three things that happen to the stack.                               *)
(***************************************************************************)
LEMMA TopFrame ==
  ASSUME StackType
  PROVE  /\ Top \in FrameType /\ Len(stack) \in Nat
         /\ \A i \in 1..Len(stack) : stack[i] \in FrameType
  BY DEF StackType, Top

\* The stack with another frame on top.
LEMMA Replaced ==
  ASSUME StackType, NEW frame \in FrameType, ReplaceTop(frame)
  PROVE  /\ stack' \in Seq(FrameType) /\ Len(stack') = Len(stack) /\ Top' = frame
         /\ stack'[Len(stack)] = frame
         /\ \A i \in 1..(Len(stack) - 1) : stack'[i] = stack[i]
<1>1. stack \in Seq(FrameType) /\ Len(stack) \in Nat /\ Len(stack) >= 1
  BY DEF StackType
<1>2. stack' = [stack EXCEPT ![Len(stack)] = frame]
  BY DEF ReplaceTop
<1>3. /\ stack' \in Seq(FrameType) /\ Len(stack') = Len(stack)
      /\ \A j \in 1..Len(stack) : stack'[j] = IF j = Len(stack) THEN frame ELSE stack[j]
  BY <1>1, <1>2, ExceptSeq
<1> QED
  BY <1>1, <1>3 DEF Top

\* Top moves on to its next child, which becomes the top.
LEMMA Pushed ==
  ASSUME StackType, More, NEW initial \in States \cup {"unknown"},
         LET kid == Top.kids[Top.next]
             step == [index |-> Top.next, label |-> Label[kid]]
         IN stack' = Append([stack EXCEPT ![Len(stack)].next = Top.next + 1],
                            Frame(kid, Append(Top.locator, step), initial))
  PROVE  LET kid == Top.kids[Top.next]
             step == [index |-> Top.next, label |-> Label[kid]]
         IN /\ stack' \in Seq(FrameType) /\ Len(stack') = Len(stack) + 1
            /\ kid \in Items /\ Top.next \in 1..Len(Top.kids)
            /\ Top' = Frame(kid, Append(Top.locator, step), initial)
            /\ stack'[Len(stack) + 1] = Frame(kid, Append(Top.locator, step), initial)
            /\ stack'[Len(stack)] = [Top EXCEPT !.next = Top.next + 1]
            /\ \A i \in 1..(Len(stack) - 1) : stack'[i] = stack[i]
<1> DEFINE kid == Top.kids[Top.next]
           step == [index |-> Top.next, label |-> Label[kid]]
           new == Frame(kid, Append(Top.locator, step), initial)
           moved == [stack EXCEPT ![Len(stack)].next = Top.next + 1]
<1>1. stack \in Seq(FrameType) /\ Len(stack) \in Nat /\ Len(stack) >= 1 /\ Top \in FrameType
  BY TopFrame DEF StackType
<1>2. Top.next \in 1..Len(Top.kids) /\ kid \in Items
  <2>1. Top.kids \in Seq(Items) /\ Top.next \in Nat \ {0}
    BY <1>1 DEF FrameType
  <2>2. Top.next <= Len(Top.kids)
    BY DEF More
  <2> QED
    BY <2>1, <2>2
<1>3. new \in FrameType
  <2>1. step \in LocatorStep
    BY <1>1, <1>2 DEF LocatorStep, FrameType
  <2>2. Append(Top.locator, step) \in Seq(LocatorStep)
    BY <1>1, <2>1 DEF FrameType
  <2> HIDE DEF kid, step
  <2> QED
    BY <1>2, <2>2 DEF Frame, FrameType, Nodes
<1> DEFINE passed == [Top EXCEPT !.next = Top.next + 1]
<1>4. passed \in FrameType
  <2>1. Top.next \in Nat /\ Top.next + 1 \in Nat \ {0}
    BY <1>1 DEF FrameType
  <2> QED
    BY <1>1, <2>1 DEF FrameType
<1>5. moved = [stack EXCEPT ![Len(stack)] = passed]
  BY DEF Top
<1>6. stack' = Append(moved, new)
  OBVIOUS
<1>10. /\ Frame(kid, Append(Top.locator, step), initial) = new
       /\ [Top EXCEPT !.next = Top.next + 1] = passed
  OBVIOUS
<1> HIDE DEF moved, new, kid, passed
<1>11. /\ moved \in Seq(FrameType) /\ Len(moved) = Len(stack)
       /\ \A j \in 1..Len(stack) : moved[j] = IF j = Len(stack) THEN passed ELSE stack[j]
  BY <1>1, <1>4, <1>5, ExceptSeq
<1>7. /\ stack' \in Seq(FrameType) /\ Len(stack') = Len(stack) + 1
      /\ stack'[Len(stack) + 1] = new
      /\ \A j \in 1..Len(stack) : stack'[j] = moved[j]
  <2> DEFINE F == FrameType
  <2>1. moved \in Seq(F) /\ new \in F
    BY <1>3, <1>11
  <2> HIDE DEF F
  <2>2. /\ Append(moved, new) \in Seq(F) /\ Len(Append(moved, new)) = Len(moved) + 1
        /\ Append(moved, new)[Len(moved) + 1] = new
        /\ \A j \in 1..Len(moved) : Append(moved, new)[j] = moved[j]
    BY <2>1, AppendProperties
  <2> QED
    BY <1>6, <1>11, <2>2 DEF F
<1>8. /\ stack'[Len(stack)] = passed
      /\ \A i \in 1..(Len(stack) - 1) : stack'[i] = stack[i]
  BY <1>1, <1>7, <1>11
<1>9. Top' = new
  BY <1>7 DEF Top
<1> QED
  BY <1>2, <1>7, <1>8, <1>9, <1>10 DEF kid

\* The top is over, and its snapshot goes to the frame below.
LEMMA Popped ==
  ASSUME StackType, WayInv, Leave
  PROVE  LET sub == stack[Len(stack) - 1].sub \cup Top.sub \cup {[item |-> Top.item, cut |-> Top.cut]}
         IN /\ stack' \in Seq(FrameType) /\ Len(stack') = Len(stack) - 1 /\ Len(stack) > 1
            /\ stack'[Len(stack) - 1] = [stack[Len(stack) - 1] EXCEPT !.sub = sub]
            /\ \A i \in 1..(Len(stack) - 2) : stack'[i] = stack[i]
<1> DEFINE L == Len(stack)
           parent == stack[L - 1]
           snapshots == Top.sub \cup {[item |-> Top.item, cut |-> Top.cut]}
           new == [parent EXCEPT !.sub = parent.sub \cup snapshots]
           kept == SubSeq(stack, 1, L - 2)
<1>1. stack \in Seq(FrameType) /\ L \in Nat /\ L > 1 /\ Top \in FrameType /\ parent \in FrameType
  BY TopFrame DEF StackType, Leave
<1>2. snapshots \in SUBSET [item : Items, cut : BOOLEAN]
  <2>1. Top.item \in Items
    BY <1>1 DEF WayInv, StackWay, Top
  <2> QED
    BY <1>1, <2>1 DEF FrameType
<1> HIDE DEF snapshots, parent
<1>3. new \in FrameType
  BY <1>1, <1>2 DEF FrameType
<1>4. kept \in Seq(FrameType) /\ Len(kept) = L - 2 /\ \A i \in 1..(L - 2) : kept[i] = stack[i]
  <2>1. \A i \in 1..(L - 2) : stack[i] \in FrameType
    BY <1>1
  <2>2. /\ kept \in Seq(FrameType)
        /\ Len(kept) = IF 1 <= L - 2 THEN L - 2 - 1 + 1 ELSE 0
        /\ \A i \in 1..(L - 2 - 1 + 1) : kept[i] = stack[1 + i - 1]
    BY <1>1, <2>1, SubSeqProperties
  <2> HIDE DEF kept, L
  <2> QED
    BY <1>1, <2>2
<1>5. stack' = Append(kept, new)
  BY DEF Leave, parent, snapshots
<1> HIDE DEF kept, new
<1>6. /\ stack' \in Seq(FrameType) /\ Len(stack') = L - 1
      /\ stack'[L - 1] = new
      /\ \A i \in 1..(L - 2) : stack'[i] = stack[i]
  BY <1>1, <1>3, <1>4, <1>5
<1>7. parent.sub \cup snapshots = parent.sub \cup Top.sub \cup {[item |-> Top.item, cut |-> Top.cut]}
  BY DEF snapshots
<1> QED
  BY <1>1, <1>6, <1>7 DEF new, parent

-----------------------------------------------------------------------------
(* Types, and the way the stack stands for. *)

(***************************************************************************)
(* The top frame is on the way, and its item can be expanded.               *)
(***************************************************************************)
LEMMA TopOnWay ==
  ASSUME StackType, StackWay
  PROVE  /\ Top \in FrameType /\ WayFrame(Top) /\ Top.item \in Nodes
         /\ Len(stack) > 1 => Top.item \in Items
         /\ Len(stack) = 1 => Top.item = Tree
<1>1. Len(stack) \in Nat /\ Len(stack) >= 1 /\ Top \in FrameType
  BY TopFrame DEF StackType
<1>2. Len(stack) \in 1..Len(stack) /\ (Len(stack) > 1 => Len(stack) \in 2..Len(stack))
  BY <1>1
<1>3. WayFrame(Top) /\ (Len(stack) > 1 => Top.item \in Items) /\ (Len(stack) = 1 => Top.item = Tree)
  BY <1>2 DEF StackWay, Top
<1> QED
  BY <1>1, <1>3 DEF FrameType

\* The top may get other children of its item and stay on the way.
LEMMA ReplacedWay ==
  ASSUME StackType, StackWay, NEW frame \in FrameType, ReplaceTop(frame),
         frame.item = Top.item, frame.locator = Top.locator,
         \A j \in 1..Len(frame.kids) : frame.kids[j] \in Below(Top.item)
  PROVE  StackWay'
<1>1. /\ Len(stack) \in Nat /\ Len(stack) >= 1 /\ Len(stack') = Len(stack)
      /\ stack'[Len(stack)] = frame
      /\ \A i \in 1..(Len(stack) - 1) : stack'[i] = stack[i]
  BY Replaced DEF StackType
<1>2. WayFrame(frame) /\ Top = stack[Len(stack)]
  BY TopOnWay DEF WayFrame, Top
<1>3. \A i \in 1..Len(stack) : stack'[i].item = stack[i].item /\ WayFrame(stack'[i])
  <2> SUFFICES ASSUME NEW i \in 1..Len(stack)
               PROVE  stack'[i].item = stack[i].item /\ WayFrame(stack'[i])
    OBVIOUS
  <2>1. CASE i = Len(stack)
    BY <1>1, <1>2, <2>1
  <2>2. CASE i \in 1..(Len(stack) - 1)
    BY <1>1, <2>2 DEF StackWay
  <2> QED
    BY <1>1, <2>1, <2>2
<1>4. 1 \in 1..Len(stack) /\ \A i \in 2..Len(stack) : i \in 1..Len(stack)
  BY <1>1
<1> QED
  BY <1>1, <1>3, <1>4 DEF StackWay, WayFrame

\* It keeps its type and shape.
LEMMA ReplacedType ==
  ASSUME StackType, NEW frame \in FrameType, ReplaceTop(frame), pc' # "start",
         pc' \in {"expand", "wait", "enumerate"} =>
           AtItem /\ frame.kids = Top.kids /\ frame.next = Top.next /\ frame.sub = Top.sub
  PROVE  StackType'
<1>1. /\ stack' \in Seq(FrameType) /\ Len(stack') = Len(stack) /\ Top' = frame /\ Len(stack) >= 1
  BY Replaced DEF StackType
<1> QED
  BY <1>1 DEF StackType, AtItem

\* The frames are a way down as long as they stay.
LEMMA SameStackWay ==
  ASSUME StackWay, UNCHANGED stack
  PROVE  StackWay'
BY DEF StackWay, WayFrame

\* Where neither the stack nor what is remembered changes, the way stays.
LEMMA StandsStill ==
  ASSUME WayInv, UNCHANGED stack, UNCHANGED expanded
  PROVE  WayInv'
<1>1. StackWay'
  BY SameStackWay DEF WayInv
<1> QED
  BY <1>1 DEF WayInv

\* The actions keep types and way, one lemma for each.
LEMMA NoRootsKeeps ==
  ASSUME TypeInv, WayInv, NoRoots
  PROVE  TypeInv' /\ WayInv'
<1>1. AppType'
  BY DEF TypeInv, AppType, NoRoots, app, arguments, restoring, history, Truncate, BeginRestoring
<1>2. PlaceType' /\ CountType'
  BY DEF TypeInv, PlaceType, CountType, Walking, NoRoots, app, arguments, found, flags, restoring, history, Truncate, BeginRestoring
<1>3. StackType'
  BY DEF TypeInv, StackType, AtItem, Top, NoRoots, Truncate, BeginRestoring
<1> QED
  BY <1>1, <1>2, <1>3, StandsStill DEF TypeInv, NoRoots, found, Truncate, BeginRestoring

LEMMA WalkEndsKeeps ==
  ASSUME TypeInv, WayInv, WalkEnds
  PROVE  TypeInv' /\ WayInv'
<1>1. AppType'
  BY DEF TypeInv, AppType, WalkEnds, app, arguments, restoring, history, BeginRestoring
<1>2. PlaceType' /\ CountType'
  BY DEF TypeInv, PlaceType, CountType, Walking, WalkEnds, app, arguments, found, flags, restoring, history, BeginRestoring
<1>3. StackType'
  BY DEF TypeInv, StackType, AtItem, Top, WalkEnds, BeginRestoring
<1> QED
  BY <1>1, <1>2, <1>3, StandsStill DEF TypeInv, WalkEnds, found, BeginRestoring

LEMMA LeaveAsIsKeeps ==
  ASSUME TypeInv, WayInv, LeaveAsIs
  PROVE  TypeInv' /\ WayInv'
<1>1. AppType'
  BY DEF TypeInv, AppType, LeaveAsIs, app, arguments, restoring, history, Truncate
<1>2. PlaceType' /\ CountType'
  BY DEF TypeInv, PlaceType, CountType, Walking, LeaveAsIs, app, arguments, found, flags, restoring, history, Truncate
<1>3. StackType'
  BY DEF TypeInv, StackType, AtItem, Top, LeaveAsIs, Truncate
<1> QED
  BY <1>1, <1>2, <1>3, StandsStill DEF TypeInv, LeaveAsIs, found, Truncate

LEMMA SeenCollapsedKeeps ==
  ASSUME TypeInv, WayInv, SeenCollapsed
  PROVE  TypeInv' /\ WayInv'
<1>1. AppType'
  BY DEF TypeInv, AppType, SeenCollapsed, app, arguments, restoring, history
<1>2. PlaceType' /\ CountType'
  BY DEF TypeInv, PlaceType, CountType, Walking, SeenCollapsed, app, arguments, found, flags, restoring, history
<1>3. StackType'
  BY DEF TypeInv, StackType, AtItem, Top, SeenCollapsed
<1> QED
  BY <1>1, <1>2, <1>3, StandsStill DEF TypeInv, SeenCollapsed, found

LEMMA ReportKeeps ==
  ASSUME TypeInv, WayInv, Report
  PROVE  TypeInv' /\ WayInv'
<1>1. AppType'
  BY DEF TypeInv, AppType, Report, app, arguments, restoring, history
<1>2. PlaceType' /\ CountType'
  BY DEF TypeInv, PlaceType, CountType, Walking, Report, app, arguments, found, flags, restoring, history
<1>3. StackType'
  BY DEF TypeInv, StackType, AtItem, Top, Report
<1> QED
  BY <1>1, <1>2, <1>3, StandsStill DEF TypeInv, Report, found

LEMMA CannotReportKeeps ==
  ASSUME TypeInv, WayInv, CannotReport
  PROVE  TypeInv' /\ WayInv'
<1>1. AppType'
  BY DEF TypeInv, AppType, CannotReport, app, arguments, restoring, history
<1>2. PlaceType' /\ CountType'
  BY DEF TypeInv, PlaceType, CountType, Walking, CannotReport, app, arguments, found, flags, restoring, history
<1>3. StackType'
  BY DEF TypeInv, StackType, AtItem, Top, CannotReport
<1> QED
  BY <1>1, <1>2, <1>3, StandsStill DEF TypeInv, CannotReport, found

LEMMA ExpireKeeps ==
  ASSUME TypeInv, WayInv, Expire
  PROVE  TypeInv' /\ WayInv'
<1>1. AppType'
  BY DEF TypeInv, AppType, Expire, app, arguments, restoring, history
<1>2. PlaceType' /\ CountType'
  BY DEF TypeInv, PlaceType, CountType, Walking, Expire, app, arguments, found, flags, restoring, history
<1>3. StackType'
  BY DEF TypeInv, StackType, AtItem, Top, Expire
<1> QED
  BY <1>1, <1>2, <1>3, StandsStill DEF TypeInv, Expire, found

LEMMA ExpandKeeps ==
  ASSUME TypeInv, WayInv, Expand
  PROVE  TypeInv' /\ WayInv'
<1>1. AppType'
  <2>1. Top.item \in Items
    BY TopOnWay DEF TypeInv, WayInv, StackType, AtItem, Expand
  <2>2. state' \in [Items -> States]
    BY <2>1 DEF TypeInv, AppType, Expand, OpenStates, States
  <2>3. pending' \subseteq [item: Items, to: {"collapsed", "expanded"}]
    BY <2>1 DEF TypeInv, AppType, Expand
  <2> QED
    BY <2>2, <2>3 DEF TypeInv, AppType, Expand, arguments, restoring, history
<1>2. PlaceType' /\ CountType'
  <2>1. PlaceType'
    BY DEF TypeInv, PlaceType, Walking, Expand, arguments, restoring, flags, Truncate
  <2>2. /\ limits \in Limits /\ limits.expansions \in Nat
        /\ expansions \in Nat /\ expansions < limits.expansions
    BY LimitsAssumption DEF TypeInv, CountType, Expand
  <2>3. expansions' \in 0..limits.expansions /\ Len(expanded) < expansions'
    BY <2>2 DEF TypeInv, CountType, Expand
  <2> QED
    BY <2>1, <2>3 DEF TypeInv, CountType, Expand, arguments, restoring
<1>3. StackType'
  BY DEF TypeInv, StackType, AtItem, Top, Expand, Truncate
<1> QED
  BY <1>1, <1>2, <1>3, StandsStill DEF TypeInv, Expand, found, Truncate

LEMMA NotSeenOpenKeeps ==
  ASSUME TypeInv, WayInv, NotSeenOpen
  PROVE  TypeInv' /\ WayInv'
<1>1. AppType'
  <2>1. Top.item \in Items
    BY TopOnWay DEF TypeInv, WayInv, StackType, AtItem, NotSeenOpen
  <2> QED
    BY <2>1 DEF TypeInv, AppType, NotSeenOpen, app, arguments, restoring
<1>2. PlaceType' /\ CountType'
  BY DEF TypeInv, PlaceType, CountType, Walking, NotSeenOpen, app, arguments, found, flags, restoring, history, Truncate
<1>3. StackType'
  BY DEF TypeInv, StackType, AtItem, Top, NotSeenOpen, Truncate
<1> QED
  BY <1>1, <1>2, <1>3, StandsStill DEF TypeInv, NotSeenOpen, found, Truncate

\* What is remembered is found again, or something else is, or nothing.
LEMMA EntryResolves ==
  ASSUME CountType, WayInv, NEW i \in 1..Len(expanded)
  PROVE  /\ expanded[i].item \in Items
         /\ Resolve(expanded[i].locator) \in Items \cup {NULL}
         /\ SiblingsDiffer => Resolve(expanded[i].locator) \in {expanded[i].item, NULL}
<1>1. expanded[i].item \in Items /\ expanded[i].locator \in Seq(LocatorStep)
  <2> DEFINE S == [item : Items, locator : Seq(LocatorStep)]
  <2>1. expanded \in Seq(S)
    BY DEF CountType
  <2> HIDE DEF S
  <2>2. expanded[i] \in S
    BY <2>1
  <2> QED
    BY <2>2 DEF S
<1>2. Leads(expanded[i].locator, expanded[i].item)
  BY DEF WayInv
<1> QED
  BY <1>1, <1>2, ResolveLeads

LEMMA CollapseKeeps ==
  ASSUME TypeInv, WayInv, Collapse
  PROVE  TypeInv' /\ WayInv'
<1>1. AppType'
  <2>1. todo \in 1..Len(expanded)
    BY DEF TypeInv, CountType, Collapse
  <2>2. Resolve(expanded[todo].locator) \in Items \cup {NULL}
    BY <2>1, EntryResolves DEF TypeInv
  <2>3. target' \in Items
    BY <2>2 DEF Collapse
  <2>4. state' \in [Items -> States] /\ pending' \subseteq [item: Items, to: {"collapsed", "expanded"}]
    BY <2>3 DEF TypeInv, AppType, Collapse, States
  <2> QED
    BY <2>3, <2>4 DEF TypeInv, AppType, Collapse, arguments, history
<1>2. PlaceType' /\ CountType'
  BY DEF TypeInv, PlaceType, CountType, Walking, Collapse, app, arguments, found, flags, restoring, history
<1>3. StackType'
  BY DEF TypeInv, StackType, AtItem, Top, Collapse
<1> QED
  BY <1>1, <1>2, <1>3, StandsStill DEF TypeInv, Collapse, found

LEMMA CannotCollapseKeeps ==
  ASSUME TypeInv, WayInv, CannotCollapse
  PROVE  TypeInv' /\ WayInv'
<1>1. AppType'
  <2>1. todo \in 1..Len(expanded)
    BY DEF TypeInv, CountType, CannotCollapse
  <2>2. Resolve(expanded[todo].locator) \in Items \cup {NULL}
    BY <2>1, EntryResolves DEF TypeInv
  <2>3. state' \in [Items -> States]
    BY <2>2 DEF TypeInv, AppType, CannotCollapse, States
  <2> QED
    BY <2>3 DEF TypeInv, AppType, CannotCollapse, AttemptFails, arguments, history
<1>2. PlaceType' /\ CountType'
  BY DEF TypeInv, PlaceType, CountType, Walking, CannotCollapse, app, arguments, found, flags, restoring, history, AttemptFails
<1>3. StackType'
  BY DEF TypeInv, StackType, AtItem, Top, CannotCollapse, AttemptFails
<1> QED
  BY <1>1, <1>2, <1>3, StandsStill DEF TypeInv, CannotCollapse, found, AttemptFails

LEMMA NotSeenCollapsedKeeps ==
  ASSUME TypeInv, WayInv, NotSeenCollapsed
  PROVE  TypeInv' /\ WayInv'
<1>1. AppType'
  BY DEF TypeInv, AppType, NotSeenCollapsed, app, arguments, restoring, history, AttemptFails
<1>2. PlaceType' /\ CountType'
  BY DEF TypeInv, PlaceType, CountType, Walking, NotSeenCollapsed, app, arguments, found, flags, restoring, history, AttemptFails
<1>3. StackType'
  BY DEF TypeInv, StackType, AtItem, Top, NotSeenCollapsed, AttemptFails
<1> QED
  BY <1>1, <1>2, <1>3, StandsStill DEF TypeInv, NotSeenCollapsed, found, AttemptFails

LEMMA ObeyKeeps ==
  ASSUME TypeInv, WayInv, Obey
  PROVE  TypeInv' /\ WayInv'
<1>1. AppType'
  <2>1. PICK q \in pending : state' = [state EXCEPT ![q.item] = q.to] /\ pending' = pending \ {q}
    BY DEF Obey
  <2>2. q \in [item: Items, to: {"collapsed", "expanded"}]
    BY <2>1 DEF TypeInv, AppType
  <2>3. q.item \in Items /\ q.to \in States
    BY <2>2 DEF States
  <2>4. state' \in [Items -> States]
    BY <2>1, <2>3 DEF TypeInv, AppType
  <2> QED
    BY <2>1, <2>4 DEF TypeInv, AppType, Obey, arguments, restoring, history
<1>2. PlaceType' /\ CountType'
  BY DEF TypeInv, PlaceType, CountType, Walking, Obey, app, arguments, found, flags, restoring, history
<1>3. StackType'
  BY DEF TypeInv, StackType, AtItem, Top, Obey
<1> QED
  BY <1>1, <1>2, <1>3, StandsStill DEF TypeInv, Obey, found

LEMMA LoadKeeps ==
  ASSUME TypeInv, WayInv, Load
  PROVE  TypeInv' /\ WayInv'
<1>1. AppType'
  <2>1. \A n \in Items : Below(n) \subseteq Items
    BY TreeAssumption DEF Below
  <2>2. loaded' \subseteq Items
    BY <2>1 DEF TypeInv, AppType, Load
  <2> QED
    BY <2>2 DEF TypeInv, AppType, Load, arguments, restoring, history
<1>2. PlaceType' /\ CountType'
  BY DEF TypeInv, PlaceType, CountType, Walking, Load, app, arguments, found, flags, restoring, history
<1>3. StackType'
  BY DEF TypeInv, StackType, AtItem, Top, Load
<1> QED
  BY <1>1, <1>2, <1>3, StandsStill DEF TypeInv, Load, found

LEMMA ListRootsKeeps ==
  ASSUME TypeInv, WayInv, ListRoots
  PROVE  TypeInv' /\ WayInv'
<1> DEFINE frame == [Top EXCEPT !.kids = Shown(Tree)]
<1>1. StackType /\ StackWay /\ Top \in FrameType /\ Top.item \in Nodes /\ WayFrame(Top)
  BY TopOnWay DEF TypeInv, WayInv
<1>2. ReplaceTop(frame)
  BY DEF ListRoots
<1>3. /\ frame \in FrameType /\ frame.item = Top.item /\ frame.locator = Top.locator
      /\ \A j \in 1..Len(frame.kids) : frame.kids[j] \in Below(Top.item)
  <2>1. Top.item = Tree
    <3>1. stack = <<Frame(Tree, << >>, "expanded")>>
      BY <1>1 DEF StackType, ListRoots
    <3>2. Len(stack) = 1
      BY <3>1
    <3> QED
      BY <1>1, <3>2, TopOnWay
  <2>2. Shown(Tree) \in Seq(Items) /\ \A j \in 1..Len(Shown(Tree)) : Shown(Tree)[j] \in Below(Tree)
    BY ShownChildren DEF Nodes
  <2> QED
    BY <1>1, <2>1, <2>2 DEF FrameType
<1>4. StackWay'
  BY <1>1, <1>2, <1>3, ReplacedWay
<1>5. StackType'
  BY <1>1, <1>2, <1>3, ReplacedType DEF ListRoots, AtItem
<1>6. AppType'
  BY DEF TypeInv, AppType, ListRoots, app, arguments, restoring, history
<1>7. PlaceType' /\ CountType'
  BY DEF TypeInv, PlaceType, CountType, Walking, ListRoots, app, arguments, found, flags, restoring, history
<1>8. WayInv'
  BY <1>4 DEF WayInv, ListRoots, found
<1> QED
  BY <1>5, <1>6, <1>7, <1>8 DEF TypeInv

LEMMA BreakOffKeeps ==
  ASSUME TypeInv, WayInv, BreakOff
  PROVE  TypeInv' /\ WayInv'
<1> DEFINE frame == [Top EXCEPT !.next = Len(Top.kids) + 1]
<1>1. StackType /\ StackWay /\ Top \in FrameType /\ Top.item \in Nodes /\ WayFrame(Top)
  BY TopOnWay DEF TypeInv, WayInv
<1>2. ReplaceTop(frame)
  BY DEF BreakOff
<1>3. /\ frame \in FrameType /\ frame.item = Top.item /\ frame.locator = Top.locator
      /\ \A j \in 1..Len(frame.kids) : frame.kids[j] \in Below(Top.item)
  <2>1. Len(Top.kids) + 1 \in Nat \ {0}
    BY <1>1 DEF FrameType
  <2> HIDE DEF More
  <2> QED
    BY <1>1, <2>1 DEF FrameType, WayFrame
<1>4. StackWay'
  BY <1>1, <1>2, <1>3, ReplacedWay
<1>5. StackType'
  BY <1>1, <1>2, <1>3, ReplacedType DEF BreakOff, AtItem
<1>6. AppType'
  BY DEF TypeInv, AppType, BreakOff, app, arguments, restoring, history, Truncate
<1>7. PlaceType' /\ CountType'
  BY DEF TypeInv, PlaceType, CountType, Walking, BreakOff, app, arguments, found, flags, restoring, history, Truncate
<1>8. WayInv'
  BY <1>4 DEF WayInv, BreakOff, found, Truncate
<1> QED
  BY <1>5, <1>6, <1>7, <1>8 DEF TypeInv

LEMMA VisitTooLateKeeps ==
  ASSUME TypeInv, WayInv, VisitTooLate
  PROVE  TypeInv' /\ WayInv'
<1> DEFINE frame == [Top EXCEPT !.cut = TRUE]
<1>1. StackType /\ StackWay /\ Top \in FrameType /\ Top.item \in Nodes /\ WayFrame(Top)
  BY TopOnWay DEF TypeInv, WayInv
<1>2. ReplaceTop(frame)
  BY DEF VisitTooLate
<1>3. /\ frame \in FrameType /\ frame.item = Top.item /\ frame.locator = Top.locator
      /\ \A j \in 1..Len(frame.kids) : frame.kids[j] \in Below(Top.item)
  BY <1>1 DEF FrameType, WayFrame
<1>4. StackWay'
  BY <1>1, <1>2, <1>3, ReplacedWay
<1>5. StackType'
  BY <1>1, <1>2, <1>3, ReplacedType DEF VisitTooLate, AtItem
<1>6. AppType'
  BY DEF TypeInv, AppType, VisitTooLate, app, arguments, restoring, history, Truncate
<1>7. PlaceType' /\ CountType'
  BY DEF TypeInv, PlaceType, CountType, Walking, VisitTooLate, app, arguments, found, flags, restoring, history, Truncate
<1>8. WayInv'
  BY <1>4 DEF WayInv, VisitTooLate, found, Truncate
<1> QED
  BY <1>5, <1>6, <1>7, <1>8 DEF TypeInv

LEMMA SeenOpenKeeps ==
  ASSUME TypeInv, WayInv, SeenOpen
  PROVE  TypeInv' /\ WayInv'
<1> DEFINE frame == [Top EXCEPT !.here = TRUE]
<1>1. StackType /\ StackWay /\ Top \in FrameType /\ Top.item \in Nodes /\ WayFrame(Top)
  BY TopOnWay DEF TypeInv, WayInv
<1>2. ReplaceTop(frame)
  BY DEF SeenOpen
<1>3. /\ frame \in FrameType /\ frame.item = Top.item /\ frame.locator = Top.locator
      /\ \A j \in 1..Len(frame.kids) : frame.kids[j] \in Below(Top.item)
  BY <1>1 DEF FrameType, WayFrame
<1>4. StackWay'
  BY <1>1, <1>2, <1>3, ReplacedWay
<1>5. StackType'
  <2>1. frame.kids = Top.kids /\ frame.next = Top.next /\ frame.sub = Top.sub
    BY <1>1 DEF FrameType
  <2>2. pc = "wait" /\ pc' = "enumerate"
    BY DEF SeenOpen
  <2> HIDE DEF frame
  <2> QED
    BY <1>1, <1>2, <1>3, <2>1, <2>2, ReplacedType DEF AtItem
<1>6. AppType'
  BY DEF TypeInv, AppType, SeenOpen, app, arguments, restoring, history, Truncate
<1>7. PlaceType' /\ CountType'
  <2>1. PlaceType'
    BY DEF TypeInv, PlaceType, Walking, SeenOpen, arguments, restoring, Truncate, flags
  <2> DEFINE S == [item : Items, locator : Seq(LocatorStep)]
             entry == [item |-> Top.item, locator |-> Top.locator]
  <2>2. expanded \in Seq(S) /\ entry \in S
    BY <1>1, TopOnWay DEF TypeInv, CountType, StackType, AtItem, FrameType, SeenOpen
  <2>3. expanded' = Append(expanded, entry)
    BY DEF SeenOpen
  <2> HIDE DEF S, entry
  <2>4. expanded' \in Seq(S) /\ Len(expanded') = Len(expanded) + 1
    BY <2>2, <2>3
  <2>5. CountType'
    BY <2>4 DEF TypeInv, CountType, PlaceType, Walking, SeenOpen, S, arguments, restoring
  <2> QED
    BY <2>1, <2>5
<1>8. WayInv'
  <2> DEFINE S == [item : Items, locator : Seq(LocatorStep)]
             entry == [item |-> Top.item, locator |-> Top.locator]
  <2>1. expanded \in Seq(S) /\ entry \in S
    BY <1>1, TopOnWay DEF TypeInv, CountType, StackType, AtItem, FrameType, SeenOpen
  <2>2. expanded' = Append(expanded, entry)
    BY DEF SeenOpen
  <2>3. Leads(entry.locator, entry.item)
    BY <1>1 DEF WayFrame
  <2> HIDE DEF S, entry
  <2>4. ASSUME NEW i \in 1..Len(expanded')
        PROVE  Leads(expanded'[i].locator, expanded'[i].item)
    <3>1. Len(expanded) \in Nat /\ Len(expanded') = Len(expanded) + 1
      BY <2>1, <2>2
    <3>2. CASE i = Len(expanded) + 1
      BY <2>1, <2>2, <2>3, <3>2
    <3>3. CASE i \in 1..Len(expanded)
      BY <2>1, <2>2, <3>3 DEF WayInv
    <3> QED
      BY <3>1, <3>2, <3>3
  <2> QED
    BY <1>4, <2>4 DEF WayInv
<1> QED
  BY <1>5, <1>6, <1>7, <1>8 DEF TypeInv

\* What Enumerated leaves of types and of the way.
LEMMA EnumeratedKeeps ==
  ASSUME TypeInv, WayInv, pc = "enumerate", NEW kids \in Seq(Items), NEW failed \in BOOLEAN,
         \A j \in 1..Len(kids) : kids[j] \in Below(Top.item),
         Enumerated(kids, failed), truncated' \in BOOLEAN
  PROVE  TypeInv' /\ WayInv'
<1> DEFINE frame == [Top EXCEPT !.cut = Cut(kids, failed),
                                !.kids = IF Cut(kids, failed) THEN << >> ELSE kids]
<1>1. /\ StackType /\ StackWay /\ Top \in FrameType /\ Top.item \in Items /\ WayFrame(Top)
  BY TopOnWay DEF TypeInv, WayInv, StackType, AtItem
<1>2. ReplaceTop(frame)
  BY DEF Enumerated
<1>3. /\ frame \in FrameType /\ frame.item = Top.item /\ frame.locator = Top.locator
      /\ \A j \in 1..Len(frame.kids) : frame.kids[j] \in Below(Top.item)
  <2>1. Cut(kids, failed) \in BOOLEAN
    BY <1>1, Zenon DEF Cut
  <2> DEFINE cut == Cut(kids, failed)
  <2> HIDE DEF cut
  <2> DEFINE rest == IF cut THEN << >> ELSE kids
  <2>2. frame = [Top EXCEPT !.cut = cut, !.kids = rest] /\ cut \in BOOLEAN
    BY <2>1 DEF cut
  <2>3. rest \in Seq(Items) /\ \A j \in 1..Len(rest) : rest[j] \in Below(Top.item)
    BY <2>2
  <2> HIDE DEF frame, rest
  <2> QED
    BY <1>1, <2>2, <2>3 DEF FrameType
<1> HIDE DEF frame
<1>4. StackWay'
  BY <1>1, <1>2, <1>3, ReplacedWay
<1>5. StackType'
  BY <1>1, <1>2, <1>3, ReplacedType DEF Enumerated
<1>6. AppType'
  BY <1>1 DEF TypeInv, AppType, Enumerated, app, arguments, restoring
<1>7. PlaceType' /\ CountType'
  BY DEF TypeInv, PlaceType, CountType, Walking, Enumerated, arguments, found, restoring
<1>8. WayInv'
  BY <1>4 DEF WayInv, Enumerated, found
<1> QED
  BY <1>5, <1>6, <1>7, <1>8 DEF TypeInv

LEMMA EnumerateKeeps ==
  ASSUME TypeInv, WayInv, Enumerate \/ CannotEnumerate
  PROVE  TypeInv' /\ WayInv'
<1>1. Top.item \in Nodes
  BY TopOnWay DEF TypeInv, WayInv
<1>2. /\ Seen \in Seq(Items) /\ << >> \in Seq(Items)
      /\ \A j \in 1..Len(Seen) : Seen[j] \in Below(Top.item)
      /\ \A j \in 1..Len(<< >>) : << >>[j] \in Below(Top.item)
  BY <1>1, ShownChildren DEF Seen
<1>3. CASE Enumerate
  <2>1. pc = "enumerate" /\ Enumerated(Seen, FALSE) /\ truncated' \in BOOLEAN
    BY <1>3, Zenon DEF Enumerate
  <2> QED
    BY <1>2, <2>1, EnumeratedKeeps
<1>4. CASE CannotEnumerate
  <2>1. pc = "enumerate" /\ Enumerated(<< >>, TRUE) /\ truncated' \in BOOLEAN
    BY <1>4 DEF CannotEnumerate, Truncate
  <2> QED
    BY <1>2, <2>1, EnumeratedKeeps
<1> QED
  BY <1>3, <1>4

\* Visit puts the next child on the stack.
LEMMA VisitPushes ==
  ASSUME TypeInv, WayInv, Visit
  PROVE  LET kid == Top.kids[Top.next]
             step == [index |-> Top.next, label |-> Label[kid]]
         IN \E initial \in Readings(kid) :
              LET new == Frame(kid, Append(Top.locator, step), initial) IN
                /\ stack' \in Seq(FrameType) /\ Len(stack') = Len(stack) + 1
                /\ kid \in Items /\ Top.next \in 1..Len(Top.kids)
                /\ Top' = new /\ stack'[Len(stack) + 1] = new
                /\ stack'[Len(stack)] = [Top EXCEPT !.next = Top.next + 1]
                /\ \A i \in 1..(Len(stack) - 1) : stack'[i] = stack[i]
<1> DEFINE kid == Top.kids[Top.next]
           step == [index |-> Top.next, label |-> Label[kid]]
<1>1. StackType /\ Top \in FrameType
  BY TopFrame DEF TypeInv
<1>2. kid \in Items
  <2>1. Top.kids \in Seq(Items) /\ Top.next \in Nat \ {0} /\ Top.next <= Len(Top.kids)
    BY <1>1 DEF FrameType, Visit, More
  <2> QED
    BY <2>1
<1>3. Readings(kid) \subseteq States \cup {"unknown"}
  BY <1>2 DEF Readings, TypeInv, AppType
<1>4. PICK initial \in Readings(kid) :
        stack' = Append([stack EXCEPT ![Len(stack)].next = Top.next + 1],
                        Frame(kid, Append(Top.locator, step), initial))
  BY DEF Visit
<1>5. More
  BY DEF Visit
<1> QED
  BY <1>1, <1>3, <1>4, <1>5, Pushed

LEMMA VisitKeeps ==
  ASSUME TypeInv, WayInv, Visit
  PROVE  TypeInv' /\ WayInv'
<1> DEFINE kid == Top.kids[Top.next]
           step == [index |-> Top.next, label |-> Label[kid]]
           passed == [Top EXCEPT !.next = Top.next + 1]
<1>1. /\ StackType /\ StackWay /\ Top \in FrameType /\ WayFrame(Top) /\ Top.item \in Nodes
      /\ Len(stack) \in Nat /\ Len(stack) >= 1
  BY TopOnWay DEF TypeInv, WayInv, StackType
<1>2. PICK initial \in Readings(kid) :
        LET new == Frame(kid, Append(Top.locator, step), initial) IN
          /\ stack' \in Seq(FrameType) /\ Len(stack') = Len(stack) + 1
          /\ kid \in Items /\ Top.next \in 1..Len(Top.kids)
          /\ Top' = new /\ stack'[Len(stack) + 1] = new /\ stack'[Len(stack)] = passed
          /\ \A i \in 1..(Len(stack) - 1) : stack'[i] = stack[i]
  BY VisitPushes
<1> DEFINE new == Frame(kid, Append(Top.locator, step), initial)
<1>4. /\ stack' \in Seq(FrameType) /\ Len(stack') = Len(stack) + 1
      /\ kid \in Items /\ Top.next \in 1..Len(Top.kids)
      /\ Top' = new /\ stack'[Len(stack) + 1] = new /\ stack'[Len(stack)] = passed
      /\ \A i \in 1..(Len(stack) - 1) : stack'[i] = stack[i]
  BY <1>2
<1>5. kid \in Below(Top.item)
  BY <1>1, <1>4 DEF WayFrame
<1>6. new.item = kid /\ new.kids = << >> /\ new.next = 1 /\ new.sub = {} /\ WayFrame(new)
  <2>1. Leads(Append(Top.locator, step), kid)
    <3>1. Top.locator \in Seq(LocatorStep) /\ Leads(Top.locator, Top.item) /\ Top.next \in Nat
      BY <1>1 DEF FrameType, WayFrame
    <3> HIDE DEF kid
    <3> QED
      BY <1>1, <1>5, <3>1, LeadsFurther
  <2> HIDE DEF kid, step
  <2> QED
    BY <2>1 DEF Frame, WayFrame
<1>7. passed.item = Top.item /\ WayFrame(passed)
  BY <1>1 DEF FrameType, WayFrame
<1> HIDE DEF kid, step, passed, new
<1>8. StackWay'
  <2>1. ASSUME NEW i \in 1..(Len(stack) + 1)
        PROVE  WayFrame(stack'[i]) /\ (i <= Len(stack) => stack'[i].item = stack[i].item)
    <3>1. CASE i = Len(stack) + 1
      BY <1>1, <1>4, <1>6, <3>1
    <3>2. CASE i = Len(stack)
      BY <1>1, <1>4, <1>7, <3>2 DEF Top
    <3>3. CASE i \in 1..(Len(stack) - 1)
      BY <1>1, <1>4, <3>3 DEF StackWay
    <3> QED
      BY <1>1, <3>1, <3>2, <3>3
  <2>2. ASSUME NEW i \in 2..(Len(stack) + 1)
        PROVE  stack'[i].item \in Items
    <3>1. CASE i = Len(stack) + 1
      BY <1>4, <1>6, <3>1
    <3>2. CASE i \in 2..Len(stack)
      BY <1>1, <2>1, <3>2 DEF StackWay
    <3> QED
      BY <1>1, <3>1, <3>2
  <2>3. stack'[1].item = Tree
    <3>1. 1 \in 1..(Len(stack) + 1) /\ 1 <= Len(stack)
      BY <1>1
    <3> QED
      BY <1>1, <2>1, <3>1 DEF StackWay
  <2> QED
    BY <1>4, <2>1, <2>2, <2>3 DEF StackWay, WayFrame
<1>9. WayInv'
  BY <1>8 DEF WayInv, Visit
<1>10. StackType'
  <2>1. pc' = "expand" /\ Len(stack') >= 1 /\ Len(stack') > 1
    BY <1>1, <1>4 DEF Visit
  <2> QED
    BY <1>4, <1>6, <2>1 DEF StackType
<1>11. AppType' /\ PlaceType'
  BY DEF TypeInv, AppType, PlaceType, Walking, Visit, app, arguments, flags, restoring, history
<1>12. CountType'
  <2>1. limits.items \in Nat
    BY LimitsAssumption DEF TypeInv, CountType
  <2>2. items' \in 0..limits.items
    BY <2>1 DEF TypeInv, CountType, Visit, LimitReached
  <2> QED
    BY <2>2 DEF TypeInv, CountType, Visit, arguments, restoring
<1> QED
  BY <1>9, <1>10, <1>11, <1>12 DEF TypeInv

LEMMA LeaveKeeps ==
  ASSUME TypeInv, WayInv, Leave
  PROVE  TypeInv' /\ WayInv'
<1> DEFINE L == Len(stack)
           sub == stack[L - 1].sub \cup Top.sub \cup {[item |-> Top.item, cut |-> Top.cut]}
<1>1. /\ stack' \in Seq(FrameType) /\ Len(stack') = L - 1 /\ L > 1 /\ L \in Nat
      /\ stack'[L - 1] = [stack[L - 1] EXCEPT !.sub = sub]
      /\ \A i \in 1..(L - 2) : stack'[i] = stack[i]
      /\ \A i \in 1..L : stack[i] \in FrameType
  BY Popped, TopFrame DEF TypeInv, WayInv
<1> HIDE DEF sub
<1>2. stack'[L - 1].item = stack[L - 1].item /\ WayFrame(stack'[L - 1])
  <2>1. stack[L - 1] \in FrameType /\ WayFrame(stack[L - 1])
    BY <1>1 DEF WayInv, StackWay
  <2> QED
    BY <1>1, <2>1 DEF FrameType, WayFrame
<1>3. ASSUME NEW i \in 1..(L - 1)
      PROVE  stack'[i].item = stack[i].item /\ WayFrame(stack'[i])
  <2>1. CASE i = L - 1
    BY <1>2, <2>1
  <2>2. CASE i \in 1..(L - 2)
    BY <1>1, <2>2 DEF WayInv, StackWay
  <2> QED
    BY <1>1, <2>1, <2>2
<1>4. StackWay'
  <2> HIDE DEF L
  <2>1. stack'[1].item = stack[1].item /\ stack[1].item = Tree
    BY <1>1, <1>3 DEF WayInv, StackWay
  <2>2. \A i \in 2..(L - 1) : stack'[i].item \in Items
    BY <1>1, <1>3 DEF WayInv, StackWay, L
  <2> QED
    BY <1>1, <1>3, <2>1, <2>2 DEF StackWay, WayFrame
<1>5. WayInv'
  BY <1>4 DEF WayInv, Leave, found
<1>6. StackType'
  BY <1>1 DEF StackType, AtItem, Leave
<1>7. AppType' /\ PlaceType' /\ CountType'
  BY DEF TypeInv, AppType, PlaceType, CountType, Walking, Leave, app, arguments, found, flags, restoring, history
<1> QED
  BY <1>5, <1>6, <1>7 DEF TypeInv

LEMMA WalkFailsKeeps ==
  ASSUME TypeInv, WayInv, WalkFails
  PROVE  TypeInv' /\ WayInv'
<1>1. stack[1] \in FrameType /\ Len(stack) >= 1 /\ Len(stack) \in Nat
  BY TopFrame DEF TypeInv, StackType
<1>2. stack' = <<stack[1]>>
  BY DEF WalkFails
<1>3. stack' \in Seq(FrameType) /\ Len(stack') = 1 /\ stack'[1] = stack[1]
  BY <1>1, <1>2
<1>4. StackWay'
  BY <1>1, <1>3 DEF WayInv, StackWay, WayFrame
<1>5. WayInv'
  BY <1>4 DEF WayInv, WalkFails, found
<1>6. StackType'
  BY <1>3 DEF StackType, AtItem, WalkFails, BeginRestoring
<1>7. AppType' /\ PlaceType' /\ CountType'
  BY DEF TypeInv, AppType, PlaceType, CountType, Walking, WalkFails, BeginRestoring, Truncate,
         app, arguments, found, history
<1> QED
  BY <1>5, <1>6, <1>7 DEF TypeInv

\* A step in which nothing changes keeps them.
LEMMA StutterKeeps ==
  ASSUME TypeInv, WayInv, UNCHANGED vars
  PROVE  TypeInv' /\ WayInv'
<1>1. /\ UNCHANGED app /\ UNCHANGED arguments /\ UNCHANGED pc /\ UNCHANGED stack /\ UNCHANGED found
      /\ UNCHANGED flags /\ UNCHANGED restoring /\ UNCHANGED history
  BY DEF vars
<1>2. WayInv'
  BY <1>1, StandsStill DEF found
<1> QED
  BY <1>1, <1>2 DEF TypeInv, AppType, PlaceType, CountType, StackType, Walking, AtItem, Top,
                    app, arguments, found, flags, restoring, history

\* Types and way at the beginning.
LEMMA InitType ==
  ASSUME Init
  PROVE  TypeInv /\ WayInv
<1>1. AppType
  <2>1. \A n \in Nodes : Below(n) \subseteq Items
    BY TreeAssumption DEF Below, Nodes
  <2> QED
    BY <2>1 DEF Init, AppType, Nodes
<1>2. PlaceType
  BY DEF Init, PlaceType, Walking
<1>3. CountType
  BY LimitsAssumption DEF Init, CountType
<1> DEFINE root == Frame(Tree, << >>, "expanded")
<1>4. stack = <<root>> /\ expanded = << >>
  BY DEF Init
<1>5. /\ root \in FrameType /\ root.item = Tree /\ root.locator = << >> /\ root.kids = << >>
      /\ Tree \in Nodes
  BY DEF Frame, FrameType, Nodes, States
<1>6. WayFrame(root)
  <2> DEFINE path == [i \in 0..0 |-> Tree]
  <2>1. Len(<< >>) = 0
    OBVIOUS
  <2>2. Leads(<< >>, Tree)
    <3>1. /\ path \in [0..0 -> Nodes] /\ path[0] = Tree
          /\ \A i \in 1..0 : path[i] \in Below(path[i-1]) /\ Label[path[i]] = << >>[i].label
      BY <1>5
    <3> HIDE DEF path
    <3>2. /\ path \in [0..Len(<< >>) -> Nodes] /\ path[0] = Tree /\ path[Len(<< >>)] = Tree
          /\ \A i \in 1..Len(<< >>) : path[i] \in Below(path[i-1]) /\ Label[path[i]] = << >>[i].label
      BY <2>1, <3>1
    <3> QED
      BY <3>2, Zenon DEF Leads
  <2> HIDE DEF root
  <2> QED
    BY <1>5, <2>2 DEF WayFrame
<1>7. StackType
  BY <1>4, <1>5 DEF Init, StackType, AtItem
<1>8. Len(stack) = 1 /\ stack[1] = root /\ Len(expanded) = 0
  BY <1>4
<1> HIDE DEF root
<1>9. WayInv
  BY <1>5, <1>6, <1>8 DEF WayInv, StackWay
<1> QED
  BY <1>1, <1>2, <1>3, <1>7, <1>9 DEF TypeInv

\* Every step keeps types and way.
LEMMA StepKeeps ==
  ASSUME TypeInv, WayInv, [Next]_vars
  PROVE  TypeInv' /\ WayInv'
<1>1. CASE Adapter
  BY <1>1, ListRootsKeeps, NoRootsKeeps, VisitKeeps, BreakOffKeeps, VisitTooLateKeeps, ExpandKeeps,
     LeaveAsIsKeeps, SeenOpenKeeps, NotSeenOpenKeeps, EnumerateKeeps, LeaveKeeps, WalkFailsKeeps,
     WalkEndsKeeps, CollapseKeeps, CannotCollapseKeeps, SeenCollapsedKeeps, NotSeenCollapsedKeeps,
     ReportKeeps, CannotReportKeeps DEF Adapter
<1>2. CASE Application
  BY <1>2, ObeyKeeps, LoadKeeps, ExpireKeeps DEF Application
<1>3. CASE Quiet \/ UNCHANGED vars
  BY <1>3, StutterKeeps DEF Quiet
<1> QED
  BY <1>1, <1>2, <1>3 DEF Next

(***************************************************************************)
(* Every variable keeps its type and every counter its limit, whatever the   *)
(* limits and the tree are.                                                 *)
(***************************************************************************)
THEOREM TypeCorrect == Spec => []TypeOK
<1>1. ASSUME TypeInv, WayInv
      PROVE  TypeOK
  BY <1>1 DEF TypeInv, AppType, PlaceType, CountType, TypeOK
<1> QED
  BY <1>1, InitType, StepKeeps, PTL DEF Spec

-----------------------------------------------------------------------------
(* What is called complete is complete. *)

\* No step unloads a root or gives a leaf children.
LEMMA LoadedStep ==
  ASSUME TypeInv, WayInv, LoadedInv, [Next]_vars
  PROVE  LoadedInv'
<1>1. loaded \subseteq loaded'
  <2>1. CASE Load
    BY <2>1 DEF Load
  <2>2. CASE UNCHANGED loaded
    BY <2>2
  <2> QED
    BY <2>1, <2>2, Zenon DEF Next, Adapter, Application, Quiet, ListRoots, NoRoots, Visit, BreakOff,
       VisitTooLate, Expand, LeaveAsIs, SeenOpen, NotSeenOpen, Enumerate, CannotEnumerate, Enumerated,
       Leave, WalkFails, WalkEnds, Collapse, CannotCollapse, SeenCollapsed, NotSeenCollapsed,
       AttemptFails, Report, CannotReport, Obey, Expire, vars, app
<1>2. ASSUME NEW n \in Items, state'[n] = "leaf"
      PROVE  state[n] = "leaf"
  <2>1. CASE Expand \/ Collapse \/ CannotCollapse
    BY <1>2, <2>1 DEF Expand, OpenStates, Collapse, CannotCollapse, TypeInv, AppType
  <2>2. CASE Obey
    BY <1>2, <2>2 DEF Obey, TypeInv, AppType
  <2>3. CASE UNCHANGED state
    BY <1>2, <2>3
  <2> QED
    BY <2>1, <2>2, <2>3, Zenon DEF Next, Adapter, Application, Quiet, ListRoots, NoRoots, Visit, BreakOff,
       VisitTooLate, LeaveAsIs, SeenOpen, NotSeenOpen, Enumerate, CannotEnumerate, Enumerated, Leave,
       WalkFails, WalkEnds, SeenCollapsed, NotSeenCollapsed, Report, CannotReport, Load, Expire, vars, app
<1>3. ASSUME AtItem', Top'.initial = "leaf"
      PROVE  Children[Top'.item] = << >>
  <2>1. CASE Visit
    <3> DEFINE kid == Top.kids[Top.next]
               step == [index |-> Top.next, label |-> Label[kid]]
    <3>1. PICK initial \in Readings(kid) :
            kid \in Items /\ Top' = Frame(kid, Append(Top.locator, step), initial)
      BY <2>1, VisitPushes
    <3> HIDE DEF kid, step
    <3>2. Top'.item = kid /\ Top'.initial = initial
      BY <3>1 DEF Frame
    <3>3. state[kid] = "leaf"
      BY <1>3, <3>1, <3>2 DEF Readings
    <3> QED
      BY <3>1, <3>2, <3>3 DEF LoadedInv
  <2>2. CASE SeenOpen
    <3>1. Top \in FrameType /\ StackType
      BY TopFrame DEF TypeInv
    <3>2. [Top EXCEPT !.here = TRUE] \in FrameType
      BY <3>1 DEF FrameType
    <3>3. Top' = [Top EXCEPT !.here = TRUE]
      BY <2>2, <3>1, <3>2, Replaced DEF SeenOpen
    <3>4. Top'.initial = Top.initial /\ Top'.item = Top.item
      BY <3>1, <3>3 DEF FrameType
    <3> QED
      BY <1>3, <2>2, <3>4 DEF LoadedInv, SeenOpen, AtItem
  <2>3. CASE AtItem /\ UNCHANGED stack
    BY <1>3, <2>3 DEF LoadedInv, Top
  <2>4. Visit \/ SeenOpen \/ (AtItem /\ UNCHANGED stack)
    BY <1>3 DEF AtItem, Next, Adapter, Application, Quiet, ListRoots, NoRoots, BreakOff,
       VisitTooLate, Expand, LeaveAsIs, NotSeenOpen, Enumerate, CannotEnumerate, Enumerated,
       Leave, WalkFails, WalkEnds, BeginRestoring, Collapse, CannotCollapse, SeenCollapsed,
       NotSeenCollapsed, AttemptFails, Report, CannotReport, Obey, Load, Expire, vars
  <2> QED
    BY <2>1, <2>2, <2>3, <2>4
<1> QED
  BY <1>1, <1>2, <1>3 DEF LoadedInv

\* Actions that leave the stack alone.
LEMMA WholeStands ==
  ASSUME WholeInv, UNCHANGED stack, UNCHANGED unseen,
         pc' = "enumerate" /\ Top.initial = "collapsed" /\ expandAll' => Top.here,
         AtItem' \/ pc' = "start" \/ (pc # "start" /\ ~AtItem),
         Walking' \/ ~Walking \/ (Len(stack) = 1 /\ ~More)
  PROVE  WholeInv'
<1>1. \A i : (Through(i) => Through(i)') /\ (Closed(i) => Closed(i)') /\ SubItems(i)' = SubItems(i)
  BY DEF Through, Closed, SubItems
<1>2. (pc' = "enumerate" /\ Top'.initial = "collapsed" /\ expandAll') => Top'.here
  BY DEF Top
<1>3. \A i \in 1..Len(stack') : i < Len(stack') \/ (pc' # "start" /\ ~AtItem') => Through(i)'
  BY <1>1 DEF WholeInv
<1>4. \A i \in 1..Len(stack') : Closed(i)'
  BY <1>1 DEF WholeInv
<1>5. ~Walking' => Len(stack') = 1 /\ ~More'
  BY DEF WholeInv, More, Top
<1> QED
  BY <1>2, <1>3, <1>4, <1>5 DEF WholeInv

\* The actions that neither capture nor descend.
LEMMA WholeStays ==
  ASSUME TypeInv, WayInv, WholeInv, ~truncated',
         \/ Expand \/ LeaveAsIs \/ WalkEnds \/ Collapse \/ CannotCollapse \/ SeenCollapsed
         \/ NotSeenCollapsed \/ Report \/ CannotReport \/ Obey \/ Load \/ Expire \/ UNCHANGED vars
  PROVE  WholeInv'
<1>1. CASE Expand
  BY <1>1, WholeStands DEF Expand, AtItem, Walking, history
<1>2. CASE LeaveAsIs
  <2>1. ~(Top.initial \in {"collapsed", "partially_expanded"} \/ (expandAll /\ Top.initial = "unknown"))
    BY <1>2, Zenon DEF LeaveAsIs, Truncate
  <2>2. Top.initial # "collapsed"
    BY <2>1
  <2> QED
    BY <1>2, <2>2, WholeStands DEF LeaveAsIs, AtItem, Walking, history
<1>3. CASE WalkEnds
  BY <1>3, WholeStands DEF WalkEnds, BeginRestoring, AtItem, Walking, history
<1>4. CASE Collapse
  BY <1>4, WholeStands DEF Collapse, AtItem, Walking, history
<1>5. CASE CannotCollapse
  BY <1>5, WholeStands DEF CannotCollapse, AttemptFails, AtItem, Walking, history
<1>6. CASE SeenCollapsed
  BY <1>6, WholeStands DEF SeenCollapsed, AtItem, Walking, history
<1>7. CASE NotSeenCollapsed
  BY <1>7, WholeStands DEF NotSeenCollapsed, AttemptFails, AtItem, Walking, history
<1>8. CASE Report \/ CannotReport
  BY <1>8, WholeStands DEF Report, CannotReport, AtItem, Walking, history
<1>9. CASE Obey \/ Load \/ Expire \/ UNCHANGED vars
  <2>1. UNCHANGED stack /\ UNCHANGED unseen /\ UNCHANGED pc /\ UNCHANGED expandAll
    BY <1>9 DEF Obey, Load, Expire, vars, history, arguments
  <2> QED
    BY <2>1, WholeStands DEF WholeInv, AtItem, Walking
<1> QED
  BY <1>1, <1>2, <1>3, <1>4, <1>5, <1>6, <1>7, <1>8, <1>9

\* The actions that change the stack, one lemma for each.
LEMMA ListRootsWhole ==
  ASSUME TypeInv, WayInv, LoadedInv, WholeInv, ListRoots
  PROVE  WholeInv'
<1> DEFINE root == Frame(Tree, << >>, "expanded")
           frame == [root EXCEPT !.kids = Shown(Tree)]
<1>1. stack = <<root>> /\ StackType
  BY DEF TypeInv, StackType, ListRoots
<1>2. Len(stack) = 1 /\ Top = root
  BY <1>1 DEF Top
<1>3. Shown(Tree) = Children[Tree] /\ Shown(Tree) \in Seq(Items)
  BY ShownChildren DEF LoadedInv, Open, Nodes
<1>4. /\ root.kids = << >> /\ root.next = 1 /\ root.sub = {} /\ root.item = Tree
      /\ frame.kids = Shown(Tree) /\ frame.next = 1 /\ frame.sub = {} /\ frame.item = Tree
  BY DEF Frame
<1>5. stack' = [stack EXCEPT ![Len(stack)] = frame] /\ pc' = "visit"
  BY <1>2 DEF ListRoots, ReplaceTop
<1>6. Len(stack') = 1 /\ stack'[1] = frame
  BY <1>1, <1>2, <1>5
<1> HIDE DEF root, frame
<1>7. Through(1)' /\ Closed(1)'
  BY <1>3, <1>4, <1>6 DEF Through, Closed, SubItems
<1>8. \A i \in 1..Len(stack') : i = 1
  BY <1>6
<1>9. \A i \in 1..Len(stack') : Through(i)' /\ Closed(i)'
  BY <1>7, <1>8
<1> QED
  BY <1>5, <1>9 DEF WholeInv, Walking

LEMMA VisitWhole ==
  ASSUME TypeInv, WayInv, WholeInv, Visit
  PROVE  WholeInv'
<1> DEFINE kid == Top.kids[Top.next]
           step == [index |-> Top.next, label |-> Label[kid]]
           passed == [Top EXCEPT !.next = Top.next + 1]
           L == Len(stack)
<1>1. PICK initial \in Readings(kid) :
        LET new == Frame(kid, Append(Top.locator, step), initial) IN
          /\ stack' \in Seq(FrameType) /\ Len(stack') = Len(stack) + 1
          /\ kid \in Items /\ Top.next \in 1..Len(Top.kids)
          /\ Top' = new /\ stack'[Len(stack) + 1] = new /\ stack'[Len(stack)] = passed
          /\ \A i \in 1..(Len(stack) - 1) : stack'[i] = stack[i]
  BY VisitPushes
<1> DEFINE new == Frame(kid, Append(Top.locator, step), initial)
<1>2. /\ Len(stack') = L + 1 /\ Top.next \in 1..Len(Top.kids)
      /\ stack'[L + 1] = new /\ stack'[L] = passed
      /\ \A i \in 1..(L - 1) : stack'[i] = stack[i]
  BY <1>1
<1>3. new.item = kid /\ new.sub = {}
  BY DEF Frame
<1>4. /\ L \in Nat /\ L >= 1 /\ Top = stack[L] /\ Top \in FrameType
      /\ passed.item = Top.item /\ passed.kids = Top.kids /\ passed.sub = Top.sub
      /\ passed.next = Top.next + 1 /\ Top.next \in Nat
  BY TopFrame DEF TypeInv, StackType, FrameType, Top
<1>5. UNCHANGED unseen /\ pc = "visit" /\ pc' = "expand"
  BY DEF Visit, history
<1>6. ASSUME NEW i \in 1..L
      PROVE  /\ Through(i) /\ Closed(i)
             /\ stack'[i].item = stack[i].item /\ stack'[i].kids = stack[i].kids
             /\ SubItems(i)' = SubItems(i)
  <2>1. stack'[i].item = stack[i].item /\ stack'[i].kids = stack[i].kids /\ stack'[i].sub = stack[i].sub
    <3>1. CASE i = L
      BY <1>2, <1>4, <3>1
    <3>2. CASE i \in 1..(L - 1)
      BY <1>2, <3>2
    <3> QED
      BY <1>4, <3>1, <3>2
  <2> QED
    BY <1>5, <2>1 DEF WholeInv, AtItem, SubItems
<1> HIDE DEF new, passed, L, kid
<1>7. stack'[L + 1].item = kid
  BY <1>2, <1>3
<1>8. ASSUME NEW i \in 1..L
      PROVE  Through(i)'
  <2>1. stack'[i].kids = Children[stack'[i].item] \/ (i > 1 /\ stack'[i].item \in unseen')
    BY <1>5, <1>6 DEF Through
  <2>2. ASSUME NEW j \in 1..(stack'[i].next - 1)
        PROVE  stack'[i].kids[j] \in SubItems(i)' \/ (i < Len(stack') /\ stack'[i].kids[j] = stack'[i+1].item)
    <3>1. CASE i = L
      <4>1. j \in 1..Top.next /\ stack'[i].kids = Top.kids /\ SubItems(i)' = SubItems(i)
        BY <1>2, <1>4, <1>6, <2>2, <3>1
      <4>2. CASE j = Top.next
        BY <1>2, <1>4, <1>7, <3>1, <4>1, <4>2 DEF kid
      <4>3. CASE j \in 1..(Top.next - 1)
        BY <1>4, <1>6, <3>1, <4>1, <4>3 DEF Through, L
      <4> QED
        BY <1>4, <4>1, <4>2, <4>3
    <3>2. CASE i \in 1..(L - 1)
      <4>1. i + 1 \in 1..L /\ stack'[i].next = stack[i].next
        BY <1>2, <1>4, <3>2
      <4>2. stack'[i + 1].item = stack[i + 1].item /\ i < Len(stack')
        BY <1>2, <1>4, <1>6, <4>1
      <4> QED
        BY <1>6, <2>2, <4>1, <4>2 DEF Through
    <3> QED
      BY <1>4, <3>1, <3>2
  <2> QED
    BY <2>1, <2>2 DEF Through
<1>9. ASSUME NEW i \in 1..(L + 1)
      PROVE  Closed(i)'
  <2>1. CASE i \in 1..L
    BY <1>5, <1>6, <2>1 DEF Closed
  <2>2. CASE i = L + 1
    BY <1>2, <1>3, <2>2 DEF Closed, SubItems
  <2> QED
    BY <1>4, <2>1, <2>2
<1>10. \A i \in 1..(L + 1) : i < L + 1 => i \in 1..L
  BY <1>4
<1> QED
  BY <1>2, <1>5, <1>8, <1>9, <1>10 DEF WholeInv, Walking, AtItem

\* The top is replaced by a frame of the same item with the same snapshots.
LEMMA ReplacedWhole ==
  ASSUME TypeInv, WayInv, WholeInv, NEW frame \in FrameType, ReplaceTop(frame),
         frame.item = Top.item, frame.sub = Top.sub, unseen \subseteq unseen', Walking',
         pc' = "enumerate" /\ frame.initial = "collapsed" /\ expandAll' => frame.here,
         Len(stack) > 1, frame.next = 1,
         AtItem' \/ frame.kids = Children[frame.item] \/ frame.item \in unseen'
  PROVE  WholeInv'
<1> DEFINE L == Len(stack)
<1>1. /\ L \in Nat /\ L > 1 /\ Len(stack') = L /\ Top' = frame /\ stack'[L] = frame
      /\ Top = stack[L] /\ \A i \in 1..(L - 1) : stack'[i] = stack[i]
  BY Replaced DEF TypeInv, StackType, Top
<1>2. ASSUME NEW i \in 1..L
      PROVE  SubItems(i)' = SubItems(i) /\ stack'[i].item = stack[i].item /\ Closed(i)'
  <2>1. stack'[i].sub = stack[i].sub /\ stack'[i].item = stack[i].item
    <3>1. CASE i = L
      BY <1>1, <3>1
    <3>2. CASE i \in 1..(L - 1)
      BY <1>1, <3>2
    <3> QED
      BY <1>1, <3>1, <3>2
  <2>2. SubItems(i)' = SubItems(i)
    BY <2>1 DEF SubItems
  <2> QED
    BY <2>1, <2>2 DEF WholeInv, Closed
<1>3. ASSUME NEW i \in 1..(L - 1)
      PROVE  Through(i)'
  <2>1. Through(i) /\ i + 1 \in 1..L /\ stack'[i] = stack[i]
    BY <1>1 DEF WholeInv
  <2>2. stack'[i+1].item = stack[i+1].item /\ SubItems(i)' = SubItems(i)
    BY <1>1, <1>2, <2>1
  <2> QED
    BY <1>1, <2>1, <2>2 DEF Through
<1>4. ~AtItem' => Through(L)'
  BY <1>1 DEF Through
<1>5. \A i \in 1..L : i < L => i \in 1..(L - 1)
  BY <1>1
<1>6. \A i \in 1..L : i = L \/ i < L
  BY <1>1
<1> QED
  BY <1>1, <1>2, <1>3, <1>4, <1>5, <1>6 DEF WholeInv

LEMMA SeenOpenWhole ==
  ASSUME TypeInv, WayInv, WholeInv, SeenOpen
  PROVE  WholeInv'
<1> DEFINE frame == [Top EXCEPT !.here = TRUE]
<1>1. Top \in FrameType /\ StackType /\ pc = "wait" /\ pc' = "enumerate"
  BY TopFrame DEF TypeInv, SeenOpen
<1>2. /\ frame \in FrameType /\ frame.here = TRUE /\ frame.item = Top.item /\ frame.sub = Top.sub
      /\ frame.next = Top.next
  BY <1>1 DEF FrameType
<1>3. Len(stack) > 1 /\ Top.next = 1
  BY <1>1 DEF StackType, AtItem
<1>4. ReplaceTop(frame) /\ unseen' = unseen
  BY DEF SeenOpen, history
<1> HIDE DEF frame
<1>5. AtItem' /\ Walking'
  BY <1>1 DEF AtItem, Walking
<1> QED
  BY <1>2, <1>3, <1>4, <1>5, ReplacedWhole

LEMMA EnumerateWhole ==
  ASSUME TypeInv, WayInv, LoadedInv, WholeInv, Enumerate, ~truncated'
  PROVE  WholeInv'
<1> DEFINE frame == [Top EXCEPT !.cut = Cut(Seen, FALSE),
                                !.kids = IF Cut(Seen, FALSE) THEN << >> ELSE Seen]
<1>1. /\ Top \in FrameType /\ StackType /\ pc = "enumerate" /\ Top.item \in Items
      /\ Len(stack) > 1 /\ Top.next = 1
  BY TopOnWay DEF TypeInv, WayInv, StackType, AtItem, Enumerate
<1>2. ~Cut(Seen, FALSE) /\ ReplaceTop(frame) /\ pc' = "visit" /\ expandAll' = expandAll
  BY Zenon DEF Enumerate, Enumerated, arguments
<1>3. unseen' = IF Seen # Children[Top.item] /\ (Open(Top.item) \/ Top.initial = "unknown")
                 THEN unseen \cup {Top.item} ELSE unseen
  BY DEF Enumerate, Enumerated
<1>4. Seen \in Seq(Items) /\ (~Open(Top.item) => Seen = << >>) /\ (Children[Top.item] = << >> => Seen = << >>)
  <2>1. Top.item \in Nodes
    BY <1>1 DEF Nodes
  <2>2. Seen = << >> \/ Seen = Shown(Top.item)
    BY DEF Seen
  <2>3. ASSUME Children[Top.item] = << >>, Shown(Top.item) # << >>
        PROVE  FALSE
    <3>1. Shown(Top.item) \in Seq(Items) /\ \A i \in 1..Len(Shown(Top.item)) : Shown(Top.item)[i] \in Below(Top.item)
      BY <2>1, ShownChildren
    <3>2. Below(Top.item) = {}
      BY <2>3 DEF Below
    <3>3. 1 \in 1..Len(Shown(Top.item))
      BY <2>3, <3>1
    <3> QED
      BY <3>1, <3>2, <3>3
  <2>4. Seen \in Seq(Items)
    <3>1. Shown(Top.item) \in Seq(Items) /\ << >> \in Seq(Items)
      BY <2>1, ShownChildren
    <3> QED
      BY <2>2, <3>1
  <2>5. ~Open(Top.item) => Seen = << >>
    BY <2>1, <2>2, ShownChildren
  <2>6. Children[Top.item] = << >> => Seen = << >>
    BY <2>2, <2>3
  <2> QED
    BY <2>4, <2>5, <2>6
<1>5. /\ frame = [Top EXCEPT !.cut = FALSE, !.kids = Seen]
  <2>1. Cut(Seen, FALSE) \in BOOLEAN
    BY Zenon DEF Cut
  <2>2. Cut(Seen, FALSE) = FALSE
    BY <1>2, <2>1
  <2> QED
    BY <2>2
<1>6. /\ frame \in FrameType /\ frame.item = Top.item /\ frame.sub = Top.sub /\ frame.kids = Seen
      /\ frame.next = 1
  BY <1>1, <1>4, <1>5 DEF FrameType
<1> HIDE DEF frame
<1>7. Seen = Children[Top.item] \/ Top.item \in unseen'
  <2>1. CASE Open(Top.item) \/ Top.initial = "unknown"
    BY <1>3, <2>1
  <2>2. CASE ~Open(Top.item) /\ Top.initial # "unknown"
    <3>1. Seen = << >>
      BY <1>4, <2>2
    <3>2. ~Top.here /\ Top.initial \notin OpenStates /\ ~(~expandAll /\ Top.initial = "collapsed")
      BY <1>2, <3>1 DEF Cut
    <3>3. Top.initial # "collapsed"
      BY <1>1, <3>2 DEF WholeInv
    <3>4. Top.initial \in States \cup {"unknown"}
      BY <1>1 DEF FrameType
    <3>5. Top.initial = "leaf"
      BY <2>2, <3>2, <3>3, <3>4 DEF States, OpenStates
    <3>6. Children[Top.item] = << >>
      BY <1>1, <3>5 DEF LoadedInv, AtItem
    <3> QED
      BY <3>1, <3>6
  <2> QED
    BY <2>1, <2>2
<1>8. unseen \subseteq unseen' /\ Walking'
  BY <1>2, <1>3 DEF Walking
<1> QED
  BY <1>1, <1>2, <1>6, <1>7, <1>8, ReplacedWhole

\* The frame below the top gets its snapshots and nothing else; no other changes.
LEMMA LeaveMoves ==
  ASSUME TypeInv, WayInv, Leave, NEW L, L = Len(stack)
  PROVE  /\ Len(stack') = L - 1 /\ L > 1 /\ L \in Nat /\ Top = stack[L] /\ L \in 1..L
         /\ \A i \in 1..L : stack[i] \in FrameType
         /\ \A i \in 1..(L - 1) :
              /\ stack'[i].item = stack[i].item /\ stack'[i].kids = stack[i].kids
              /\ stack'[i].next = stack[i].next
              /\ i # L - 1 => SubItems(i)' = SubItems(i)
         /\ SubItems(L - 1)' = SubItems(L - 1) \cup SubItems(L) \cup {Top.item}
<1> DEFINE sub == stack[L - 1].sub \cup Top.sub \cup {[item |-> Top.item, cut |-> Top.cut]}
<1>1. /\ Len(stack') = L - 1 /\ L > 1 /\ L \in Nat
      /\ stack'[L - 1] = [stack[L - 1] EXCEPT !.sub = sub]
      /\ \A i \in 1..(L - 2) : stack'[i] = stack[i]
      /\ \A i \in 1..L : stack[i] \in FrameType
  BY Popped, TopFrame DEF TypeInv
<1>2. Top = stack[L] /\ L \in 1..L
  BY <1>1 DEF Top
<1>4. /\ stack'[L - 1].item = stack[L - 1].item /\ stack'[L - 1].kids = stack[L - 1].kids
      /\ stack'[L - 1].next = stack[L - 1].next /\ stack'[L - 1].sub = sub
  <2>1. stack[L - 1] \in FrameType
    BY <1>1
  <2> HIDE DEF sub
  <2> QED
    BY <1>1, <2>1 DEF FrameType
<1>5. SubItems(L - 1)' = SubItems(L - 1) \cup SubItems(L) \cup {Top.item}
  <2>1. SubItems(L - 1)' = {s.item : s \in sub}
    BY <1>4 DEF SubItems
  <2>2. {s.item : s \in sub} = SubItems(L - 1) \cup SubItems(L) \cup {Top.item}
    <3> DEFINE top == [item |-> Top.item, cut |-> Top.cut]
    <3>1. top.item = Top.item /\ sub = stack[L - 1].sub \cup stack[L].sub \cup {top}
      BY <1>2
    <3>2. SubItems(L - 1) = {s.item : s \in stack[L - 1].sub} /\ SubItems(L) = {s.item : s \in stack[L].sub}
      BY DEF SubItems
    <3> HIDE DEF top, sub
    <3> QED
      BY <3>1, <3>2
  <2> QED
    BY <2>1, <2>2
<1> HIDE DEF sub
<1>6. ASSUME NEW i \in 1..(L - 1)
      PROVE  /\ stack'[i].item = stack[i].item /\ stack'[i].kids = stack[i].kids
             /\ stack'[i].next = stack[i].next
             /\ i # L - 1 => SubItems(i)' = SubItems(i)
  <2>1. CASE i = L - 1
    BY <1>4, <2>1
  <2>2. CASE i \in 1..(L - 2)
    BY <1>1, <2>2 DEF SubItems
  <2> QED
    BY <1>1, <2>1, <2>2
<1> QED
  BY <1>1, <1>2, <1>5, <1>6

LEMMA LeaveWhole ==
  ASSUME TypeInv, WayInv, WholeInv, Leave
  PROVE  WholeInv'
<1>0. PICK L : L = Len(stack)
  OBVIOUS
<1>1. /\ Len(stack') = L - 1 /\ L > 1 /\ L \in Nat /\ Top = stack[L] /\ L \in 1..L
      /\ \A i \in 1..L : stack[i] \in FrameType
      /\ \A i \in 1..(L - 1) :
           /\ stack'[i].item = stack[i].item /\ stack'[i].kids = stack[i].kids
           /\ stack'[i].next = stack[i].next
           /\ i # L - 1 => SubItems(i)' = SubItems(i)
      /\ SubItems(L - 1)' = SubItems(L - 1) \cup SubItems(L) \cup {Top.item}
  BY <1>0, LeaveMoves
<1>2. pc = "visit" /\ pc' = pc /\ unseen' = unseen /\ ~More
  BY DEF Leave, history
<1>3. \A i \in 1..L : Through(i) /\ Closed(i)
  BY <1>0, <1>2 DEF WholeInv, AtItem
<1>6. Top.item \in unseen \/ Below(Top.item) \subseteq SubItems(L)
  <2> SUFFICES ASSUME Top.item \notin unseen
               PROVE  Below(Top.item) \subseteq SubItems(L)
    OBVIOUS
  <2>1. Top.kids = Children[Top.item]
    BY <1>1, <1>3 DEF Through
  <2>2. Top.next \in Nat /\ Top.kids \in Seq(Items) /\ ~(Top.next <= Len(Top.kids))
    BY <1>1, <1>2 DEF FrameType, More
  <2>3. \A j \in 1..(Top.next - 1) : Top.kids[j] \in SubItems(L)
    BY <1>0, <1>1, <1>2, <1>3 DEF Through
  <2>4. \A j \in 1..Len(Top.kids) : j \in 1..(Top.next - 1)
    BY <2>2
  <2> QED
    BY <2>1, <2>3, <2>4 DEF Below
<1>7. ASSUME NEW i \in 1..(L - 1)
      PROVE  Through(i)' /\ Closed(i)'
  <2>1. CASE i = L - 1
    <3>1. Through(i) /\ Closed(i) /\ Closed(L) /\ i < L /\ i + 1 = L /\ i \in 1..L
      BY <1>1, <1>3, <2>1
    <3>2. Through(i)'
      BY <1>0, <1>1, <1>2, <2>1, <3>1 DEF Through
    <3>3. Closed(i)'
      BY <1>1, <1>2, <1>6, <2>1, <3>1 DEF Closed
    <3> QED
      BY <3>2, <3>3
  <2>2. CASE i \in 1..(L - 2)
    <3>1. /\ i \in 1..(L - 1) /\ i + 1 \in 1..(L - 1) /\ i # L - 1 /\ i < L - 1 /\ i < L
          /\ i \in 1..L
      BY <1>1, <2>2
    <3>2. /\ Through(i) /\ Closed(i) /\ SubItems(i)' = SubItems(i)
          /\ stack'[i+1].item = stack[i+1].item
      BY <1>1, <1>3, <3>1
    <3> QED
      BY <1>0, <1>1, <1>2, <3>1, <3>2 DEF Through, Closed
  <2> QED
    BY <1>1, <2>1, <2>2
<1> QED
  BY <1>1, <1>2, <1>7 DEF WholeInv, Walking

\* Only Report gives a report, and after a report nothing changes.
LEMMA ReportOnce ==
  ASSUME TypeInv, [Next]_vars, report' # NULL
  PROVE  Report \/ UNCHANGED vars
<1>1. CASE pc = "done"
  BY <1>1 DEF Next, Adapter, Application, Quiet, ListRoots, NoRoots, Visit, BreakOff, VisitTooLate,
     Expand, LeaveAsIs, SeenOpen, NotSeenOpen, Enumerate, CannotEnumerate, Leave, WalkFails, WalkEnds,
     Collapse, CannotCollapse, SeenCollapsed, NotSeenCollapsed, Report, CannotReport
<1>2. CASE pc # "done"
  <2>1. report = NULL
    BY <1>2 DEF TypeInv, PlaceType
  <2>2. Report \/ UNCHANGED report
    BY Zenon DEF Next, Adapter, Application, Quiet, ListRoots, NoRoots, Visit, BreakOff, VisitTooLate,
       Expand, LeaveAsIs, SeenOpen, NotSeenOpen, Enumerate, CannotEnumerate, Enumerated, Leave, WalkFails,
       WalkEnds, Collapse, CannotCollapse, SeenCollapsed, NotSeenCollapsed, AttemptFails, CannotReport,
       Obey, Load, Expire, vars, restoring
  <2> QED
    BY <2>1, <2>2
<1> QED
  BY <1>1, <1>2

\* A report is called complete, or accepted, only when nothing was left out, and
\* then the roots and all that is below them went through the walk.
LEMMA ReportComplete ==
  ASSUME TypeInv, WayInv, ~truncated => WholeInv, Report
  PROVE  CompletenessHolds'
<1> SUFFICES ASSUME report' # NULL, report'.complete \/ Accepted(report')
             PROVE  /\ Below(Tree) \subseteq Captured(report')
                    /\ \A n \in Captured(report') \ unseen' : Below(n) \subseteq Captured(report')
  BY DEF CompletenessHolds
<1>1. report'.complete
  BY DEF Accepted
<1>2. ~truncated
  <2>1. PICK changed \in BOOLEAN :
          /\ truncated' = (truncated \/ changed)
          /\ LET complete == restored = Len(expanded)
             IN report' = [complete |-> ~truncated' /\ complete, restoration |-> complete,
                           truncated |-> truncated', warned |-> warned',
                           items |-> items, roots |-> stack[1].sub]
    BY DEF Report
  <2>2. report'.complete = (~truncated' /\ restored = Len(expanded))
    BY <2>1
  <2> QED
    BY <1>1, <2>1, <2>2
<1>3. Captured(report') = SubItems(1) /\ unseen' = unseen /\ pc = "collapse"
  <2>1. report'.roots = stack[1].sub
    BY DEF Report
  <2> QED
    BY <2>1 DEF Captured, SubItems, Report, history
<1>4. Len(stack) = 1 /\ ~More /\ Through(1) /\ Closed(1) /\ stack[1].item = Tree /\ stack[1] \in FrameType
  BY <1>2, <1>3, TopFrame DEF WholeInv, Walking, AtItem, WayInv, StackWay, TypeInv
<1>5. Below(Tree) \subseteq SubItems(1)
  <2>1. stack[1].kids = Children[Tree]
    BY <1>4 DEF Through
  <2>2. stack[1].next \in Nat /\ stack[1].kids \in Seq(Items) /\ ~(stack[1].next <= Len(stack[1].kids))
    BY <1>4 DEF FrameType, More, Top
  <2>3. \A j \in 1..(stack[1].next - 1) : stack[1].kids[j] \in SubItems(1)
    BY <1>4 DEF Through
  <2>4. \A j \in 1..Len(stack[1].kids) : j \in 1..(stack[1].next - 1)
    BY <2>2
  <2> QED
    BY <2>1, <2>3, <2>4 DEF Below
<1> QED
  BY <1>3, <1>4, <1>5 DEF Closed

\* Every step keeps what is captured whole.
LEMMA CapturedStep ==
  ASSUME TypeInv, WayInv, CapturedInv, [Next]_vars
  PROVE  CapturedInv'
<1>1. LoadedInv'
  BY LoadedStep DEF CapturedInv
<1>2. ASSUME ~truncated'
      PROVE  WholeInv'
  <2>1. ~truncated
    BY <1>2 DEF Next, Adapter, Application, Quiet, ListRoots, NoRoots, Visit, BreakOff, VisitTooLate,
       Expand, LeaveAsIs, SeenOpen, NotSeenOpen, Enumerate, CannotEnumerate, Enumerated, Leave, WalkFails,
       WalkEnds, Collapse, CannotCollapse, SeenCollapsed, NotSeenCollapsed, AttemptFails, Report,
       CannotReport, Obey, Load, Expire, Truncate, vars, flags
  <2>2. WholeInv /\ LoadedInv
    BY <2>1 DEF CapturedInv
  <2>3. ~(NoRoots \/ BreakOff \/ VisitTooLate \/ NotSeenOpen \/ CannotEnumerate \/ WalkFails)
    BY <1>2 DEF NoRoots, BreakOff, VisitTooLate, NotSeenOpen, CannotEnumerate, WalkFails, Truncate
  <2>4. CASE ListRoots \/ Visit \/ SeenOpen \/ Enumerate \/ Leave
    BY <1>2, <2>2, <2>4, ListRootsWhole, VisitWhole, SeenOpenWhole, EnumerateWhole, LeaveWhole
  <2>5. CASE \/ Expand \/ LeaveAsIs \/ WalkEnds \/ Collapse \/ CannotCollapse \/ SeenCollapsed
             \/ NotSeenCollapsed \/ Report \/ CannotReport \/ Obey \/ Load \/ Expire \/ UNCHANGED vars
    BY <1>2, <2>2, <2>5, WholeStays
  <2> QED
    BY <2>3, <2>4, <2>5 DEF Next, Adapter, Application, Quiet
<1>3. CompletenessHolds'
  <2>1. CASE Report
    BY <2>1, ReportComplete DEF CapturedInv
  <2>2. CASE UNCHANGED vars
    BY <2>2 DEF CapturedInv, CompletenessHolds, Captured, Accepted, vars, restoring, history
  <2> QED
    BY <2>1, <2>2, ReportOnce DEF CompletenessHolds
<1> QED
  BY <1>1, <1>2, <1>3 DEF CapturedInv

(***************************************************************************)
(* An inventory that is called complete, or that the extraction accepts,     *)
(* holds every item, except below those the code could not see into; for any *)
(* tree, whatever its size, its depth and the texts of its items.            *)
(***************************************************************************)
THEOREM CompletenessTrue == Spec => []CompletenessHolds
<1>1. ASSUME Init
      PROVE  CapturedInv
  <2>1. TypeInv /\ WayInv
    BY <1>1, InitType
  <2>2. Below(Tree) \subseteq loaded
    BY <1>1 DEF Init
  <2>3. \A n \in Items : state[n] = "leaf" => Children[n] = << >>
    BY <1>1 DEF Init
  <2>4. LoadedInv
    BY <1>1, <2>2, <2>3 DEF Init, LoadedInv, AtItem
  <2> DEFINE root == Frame(Tree, << >>, "expanded")
  <2>5. Len(stack) = 1 /\ stack[1] = root /\ root.sub = {}
    BY <1>1 DEF Init, Frame
  <2> HIDE DEF root
  <2>6. \A i \in 1..Len(stack) : Closed(i) /\ ~(i < Len(stack))
    BY <2>5 DEF Closed, SubItems
  <2>7. WholeInv
    BY <1>1, <2>6 DEF Init, WholeInv, Walking
  <2>8. CompletenessHolds
    BY <1>1 DEF Init, CompletenessHolds
  <2> QED
    BY <2>4, <2>7, <2>8 DEF CapturedInv
<1>2. CapturedInv => CompletenessHolds
  BY DEF CapturedInv
<1> QED
  BY <1>1, <1>2, InitType, StepKeeps, CapturedStep, PTL DEF Spec

-----------------------------------------------------------------------------
(* Nothing is visited twice. *)

\* Frames with the same items and snapshots have visited the same.
LEMMA SameVisited ==
  ASSUME Len(stack') = Len(stack),
         \A i \in 1..Len(stack) : stack'[i].item = stack[i].item /\ stack'[i].sub = stack[i].sub,
         Len(stack) \in Nat
  PROVE  Visited' = Visited /\ \A i \in 1..Len(stack) : SubItems(i)' = SubItems(i)
<1>1. \A i \in 1..Len(stack) : SubItems(i)' = SubItems(i)
  BY DEF SubItems
<1>2. {stack'[i].item : i \in 2..Len(stack')} = {stack[i].item : i \in 2..Len(stack)}
  <2>1. \A i \in 2..Len(stack) : i \in 1..Len(stack)
    OBVIOUS
  <2> QED
    BY <2>1
<1>3. UNION {SubItems(i)' : i \in 1..Len(stack')} = UNION {SubItems(i) : i \in 1..Len(stack)}
  BY <1>1
<1> QED
  BY <1>1, <1>2, <1>3 DEF Visited

\* Where the stack stays, nothing more was visited.
LEMMA OnceStands ==
  ASSUME OnceInv, UNCHANGED stack, Walking' => Walking, AtItem' => AtItem
  PROVE  OnceInv' /\ Visited' = Visited
<1>1. Visited' = Visited
  BY DEF Visited, SubItems
<1>2. \A i \in 1..Len(stack) : Ahead(i) => Ahead(i)'
  BY <1>1 DEF Ahead
<1> QED
  BY <1>1, <1>2 DEF OnceInv, Top

\* The top is replaced by a frame of the same item with the same snapshots.
LEMMA ReplacedOnce ==
  ASSUME TypeInv, OnceInv, Walking, NEW frame \in FrameType, ReplaceTop(frame),
         frame.item = Top.item, frame.sub = Top.sub, AtItem' => AtItem,
         \A j, k \in 1..Len(frame.kids) :
           /\ j # k => frame.kids[j] # frame.kids[k]
           /\ j >= frame.next => frame.kids[j] \notin Visited
  PROVE  OnceInv' /\ Visited' = Visited
<1>1. /\ Len(stack) \in Nat /\ Len(stack) >= 1 /\ Len(stack') = Len(stack) /\ Top' = frame
      /\ stack'[Len(stack)] = frame /\ Top = stack[Len(stack)]
      /\ \A i \in 1..(Len(stack) - 1) : stack'[i] = stack[i]
  BY Replaced DEF TypeInv, StackType, Top
<1>2. \A i \in 1..Len(stack) : stack'[i].item = stack[i].item /\ stack'[i].sub = stack[i].sub
  <2> SUFFICES ASSUME NEW i \in 1..Len(stack)
               PROVE  stack'[i].item = stack[i].item /\ stack'[i].sub = stack[i].sub
    OBVIOUS
  <2>1. CASE i = Len(stack)
    BY <1>1, <2>1
  <2>2. CASE i \in 1..(Len(stack) - 1)
    BY <1>1, <2>2
  <2> QED
    BY <1>1, <2>1, <2>2
<1>3. Visited' = Visited
  BY <1>1, <1>2, SameVisited
<1>4. ASSUME NEW i \in 1..Len(stack)
      PROVE  Ahead(i)'
  <2>1. CASE i = Len(stack)
    BY <1>1, <1>3, <2>1 DEF Ahead
  <2>2. CASE i \in 1..(Len(stack) - 1)
    <3>1. stack'[i] = stack[i] /\ Ahead(i)
      BY <1>1, <2>2 DEF OnceInv
    <3> QED
      BY <1>3, <3>1 DEF Ahead
  <2> QED
    BY <1>1, <2>1, <2>2
<1>5. \A i, j \in 1..Len(stack) : i # j => stack'[i].item # stack'[j].item
  BY <1>2 DEF OnceInv
<1> QED
  BY <1>1, <1>3, <1>4, <1>5 DEF OnceInv

\* The children of an item that is visited now are new.
LEMMA EnumeratedOnce ==
  ASSUME TypeInv, WayInv, OnceInv, Enumerate \/ CannotEnumerate
  PROVE  OnceInv' /\ Visited' = Visited
<1>1. /\ Top \in FrameType /\ pc = "enumerate" /\ pc' = "visit" /\ Top.item \in Nodes /\ Top.next = 1
  BY TopOnWay DEF TypeInv, WayInv, StackType, AtItem, Enumerate, CannotEnumerate, Enumerated
<1>2. PICK kids, failed :
        /\ kids = << >> \/ kids = Shown(Top.item)
        /\ failed \in BOOLEAN
        /\ ReplaceTop([Top EXCEPT !.cut = Cut(kids, failed),
                                  !.kids = IF Cut(kids, failed) THEN << >> ELSE kids])
  <2>1. CASE Enumerate
    <3>1. Enumerated(Seen, FALSE) /\ (Seen = << >> \/ Seen = Shown(Top.item))
      BY <2>1 DEF Enumerate, Seen
    <3> QED
      BY <3>1 DEF Enumerated
  <2>2. CASE CannotEnumerate
    BY <2>2 DEF CannotEnumerate, Enumerated
  <2> QED
    BY <2>1, <2>2
<1> DEFINE cut == Cut(kids, failed)
           rest == IF cut THEN << >> ELSE kids
           frame == [Top EXCEPT !.cut = cut, !.kids = rest]
<1>3. rest = << >> \/ rest = Shown(Top.item)
  BY <1>2
<1>4. cut \in BOOLEAN
  BY <1>2, Zenon DEF Cut
<1>5. ReplaceTop(frame)
  BY <1>2
<1> HIDE DEF cut, rest
<1>6. /\ rest \in Seq(Items) /\ \A i, j \in 1..Len(rest) : i # j => rest[i] # rest[j]
      /\ \A j \in 1..Len(rest) : rest[j] \in Below(Top.item)
  <2>1. CASE rest = << >>
    BY <2>1
  <2>2. CASE rest = Shown(Top.item)
    BY <1>1, <2>2, ShownChildren
  <2> QED
    BY <1>3, <2>1, <2>2
<1>7. Below(Top.item) \cap Visited = {}
  BY <1>1 DEF OnceInv, Walking, AtItem
<1>8. frame \in FrameType /\ frame.item = Top.item /\ frame.sub = Top.sub /\ frame.kids = rest
  BY <1>1, <1>4, <1>6 DEF FrameType
<1> HIDE DEF frame
<1>9. \A j, k \in 1..Len(frame.kids) :
        /\ j # k => frame.kids[j] # frame.kids[k]
        /\ j >= frame.next => frame.kids[j] \notin Visited
  BY <1>6, <1>7, <1>8
<1>10. Walking /\ ~AtItem'
  BY <1>1 DEF Walking, AtItem
<1> QED
  BY <1>5, <1>8, <1>9, <1>10, ReplacedOnce

\* So are the roots.
LEMMA ListRootsOnce ==
  ASSUME TypeInv, WayInv, OnceInv, ListRoots
  PROVE  OnceInv' /\ Visited' = Visited
<1> DEFINE root == Frame(Tree, << >>, "expanded")
           frame == [Top EXCEPT !.kids = Shown(Tree)]
<1>1. stack = <<root>> /\ Top \in FrameType /\ pc = "start" /\ pc' = "visit"
  BY TopFrame DEF TypeInv, StackType, ListRoots
<1>2. Len(stack) = 1 /\ stack[1] = root /\ root.sub = {}
  BY <1>1 DEF Frame
<1> HIDE DEF root
<1>3. Visited = {}
  <2>1. 2..Len(stack) = {} /\ \A i \in 1..Len(stack) : i = 1
    BY <1>2
  <2>2. \A i \in 1..Len(stack) : SubItems(i) = {}
    BY <1>2, <2>1 DEF SubItems
  <2> QED
    BY <2>1, <2>2 DEF Visited
<1>4. Shown(Tree) \in Seq(Items) /\ \A i, j \in 1..Len(Shown(Tree)) : i # j => Shown(Tree)[i] # Shown(Tree)[j]
  BY ShownChildren DEF Nodes
<1>5. frame \in FrameType /\ frame.item = Top.item /\ frame.sub = Top.sub /\ frame.kids = Shown(Tree)
  BY <1>1, <1>4 DEF FrameType
<1>6. ReplaceTop(frame)
  BY DEF ListRoots
<1> HIDE DEF frame
<1> QED
  BY <1>1, <1>3, <1>4, <1>5, <1>6, ReplacedOnce DEF Walking, AtItem

\* Leaving children out does not make one visited.
LEMMA SameKidsOnce ==
  ASSUME TypeInv, WayInv, OnceInv, BreakOff \/ VisitTooLate \/ SeenOpen
  PROVE  OnceInv' /\ Visited' = Visited
<1>1. Top \in FrameType /\ Len(stack) \in 1..Len(stack) /\ Top = stack[Len(stack)] /\ Walking
  BY TopFrame DEF TypeInv, StackType, Top, Walking, BreakOff, VisitTooLate, SeenOpen
<1>2. \A j, k \in 1..Len(Top.kids) :
        /\ j # k => Top.kids[j] # Top.kids[k]
        /\ j >= Top.next => Top.kids[j] \notin Visited
  BY <1>1 DEF OnceInv, Ahead
<1>3. CASE BreakOff
  <2> DEFINE frame == [Top EXCEPT !.next = Len(Top.kids) + 1]
  <2>1. Len(Top.kids) \in Nat /\ Len(Top.kids) + 1 \in Nat \ {0}
    BY <1>1 DEF FrameType
  <2>2. /\ frame \in FrameType /\ frame.item = Top.item /\ frame.sub = Top.sub /\ frame.kids = Top.kids
        /\ frame.next = Len(Top.kids) + 1
    BY <1>1, <2>1 DEF FrameType
  <2>3. ReplaceTop(frame) /\ ~AtItem'
    BY <1>3 DEF BreakOff, AtItem
  <2> HIDE DEF frame
  <2>4. \A j \in 1..Len(frame.kids) : ~(j >= frame.next)
    BY <2>1, <2>2
  <2> QED
    BY <1>1, <1>2, <2>2, <2>3, <2>4, ReplacedOnce
<1>4. CASE VisitTooLate
  <2> DEFINE frame == [Top EXCEPT !.cut = TRUE]
  <2>1. /\ frame \in FrameType /\ frame.item = Top.item /\ frame.sub = Top.sub /\ frame.kids = Top.kids
        /\ frame.next = Top.next
    BY <1>1 DEF FrameType
  <2>2. ReplaceTop(frame) /\ ~AtItem'
    BY <1>4 DEF VisitTooLate, AtItem
  <2> HIDE DEF frame
  <2> QED
    BY <1>1, <1>2, <2>1, <2>2, ReplacedOnce
<1>5. CASE SeenOpen
  <2> DEFINE frame == [Top EXCEPT !.here = TRUE]
  <2>1. /\ frame \in FrameType /\ frame.item = Top.item /\ frame.sub = Top.sub /\ frame.kids = Top.kids
        /\ frame.next = Top.next
    BY <1>1 DEF FrameType
  <2>2. ReplaceTop(frame) /\ AtItem
    BY <1>5 DEF SeenOpen, AtItem
  <2> HIDE DEF frame
  <2> QED
    BY <1>1, <1>2, <2>1, <2>2, ReplacedOnce
<1> QED
  BY <1>3, <1>4, <1>5

LEMMA VisitOnce ==
  ASSUME TypeInv, WayInv, OnceInv, Visit
  PROVE  /\ OnceInv' /\ Visited' = Visited \cup {Top'.item}
         /\ Top'.item \in Items /\ Top'.item \notin Visited
         /\ Top'.initial \in Readings(Top'.item)
<1> DEFINE kid == Top.kids[Top.next]
           step == [index |-> Top.next, label |-> Label[kid]]
           passed == [Top EXCEPT !.next = Top.next + 1]
<1>0. PICK L : L = Len(stack)
  OBVIOUS
<1>1. PICK initial \in Readings(kid) :
        LET new == Frame(kid, Append(Top.locator, step), initial) IN
          /\ stack' \in Seq(FrameType) /\ Len(stack') = Len(stack) + 1
          /\ kid \in Items /\ Top.next \in 1..Len(Top.kids)
          /\ Top' = new /\ stack'[Len(stack) + 1] = new /\ stack'[Len(stack)] = passed
          /\ \A i \in 1..(Len(stack) - 1) : stack'[i] = stack[i]
  BY VisitPushes
<1> DEFINE new == Frame(kid, Append(Top.locator, step), initial)
<1>2. /\ Len(stack') = L + 1 /\ Top.next \in 1..Len(Top.kids) /\ kid \in Items
      /\ Top' = new /\ stack'[L + 1] = new /\ stack'[L] = passed
      /\ \A i \in 1..(L - 1) : stack'[i] = stack[i]
  BY <1>0, <1>1
<1>3. new.item = kid /\ new.initial = initial /\ new.sub = {} /\ new.kids = << >> /\ new.next = 1
  BY DEF Frame
<1>4. /\ L \in Nat /\ L >= 1 /\ Top = stack[L] /\ Top \in FrameType /\ WayFrame(Top) /\ Top.item \in Nodes
      /\ passed.item = Top.item /\ passed.kids = Top.kids /\ passed.sub = Top.sub
      /\ passed.next = Top.next + 1 /\ Top.next \in Nat
      /\ Tree \notin Items
  BY <1>0, TopOnWay, TreeAssumption DEF TypeInv, WayInv, StackType, FrameType, Top
<1>5. /\ Walking /\ Walking' /\ \A i \in 1..L : Ahead(i)
      /\ \A i, j \in 1..L : i # j => stack[i].item # stack[j].item
      /\ \A n \in Nodes : \A m \in Below(n) : m \in Visited => n \in Visited \cup {Tree}
  BY <1>0 DEF Visit, Walking, OnceInv
<1>6. PICK c : c = kid
  OBVIOUS
<1>7. c \in Items /\ c \in Below(Top.item) /\ c = Top.kids[Top.next]
  BY <1>2, <1>4, <1>6 DEF WayFrame
<1>8. c \notin Visited
  <2>1. Ahead(L) /\ Top.next \in 1..Len(Top.kids)
    BY <1>2, <1>4, <1>5
  <2> QED
    BY <1>4, <1>7, <2>1 DEF Ahead
<1>9. Top'.item = c /\ Top'.initial \in Readings(c)
  BY <1>1, <1>2, <1>3, <1>6
<1> HIDE DEF new, passed, kid
<1>10. ASSUME NEW i \in 1..L
       PROVE  stack'[i].item = stack[i].item /\ stack'[i].sub = stack[i].sub /\ stack'[i].kids = stack[i].kids
  <2>1. CASE i = L
    BY <1>2, <1>4, <2>1
  <2>2. CASE i \in 1..(L - 1)
    BY <1>2, <2>2
  <2> QED
    BY <1>4, <2>1, <2>2
<1>11. stack'[L + 1].item = c /\ stack'[L + 1].sub = {} /\ stack'[L + 1].kids = << >>
  BY <1>2, <1>3, <1>6
<1>12. Visited' = Visited \cup {c}
  <2>1. {stack'[i].item : i \in 2..(L + 1)} = {stack[i].item : i \in 2..L} \cup {c}
    <3>1. \A i \in 2..(L + 1) : i \in 2..L \/ i = L + 1
      BY <1>4
    <3>2. \A i \in 2..L : i \in 1..L /\ i \in 2..(L + 1)
      BY <1>4
    <3>3. L + 1 \in 2..(L + 1)
      BY <1>4
    <3> QED
      BY <1>10, <1>11, <3>1, <3>2, <3>3
  <2>2. \A i \in 1..L : SubItems(i)' = SubItems(i)
    BY <1>10 DEF SubItems
  <2>3. SubItems(L + 1)' = {}
    BY <1>11 DEF SubItems
  <2>4. UNION {SubItems(i)' : i \in 1..(L + 1)} = UNION {SubItems(i) : i \in 1..L}
    <3>1. \A i \in 1..(L + 1) : i \in 1..L \/ i = L + 1
      BY <1>4
    <3>2. \A i \in 1..L : i \in 1..(L + 1)
      BY <1>4
    <3> QED
      BY <2>2, <2>3, <3>1, <3>2
  <2> QED
    BY <1>0, <1>2, <2>1, <2>4 DEF Visited
<1>13. ASSUME NEW n \in Nodes, c \in Below(n)
       PROVE  n = Top.item
  BY <1>4, <1>7, <1>13, TreeAssumption DEF Nodes
<1>14. Top.item \in Visited \cup {Tree}
  <2>1. CASE L = 1
    BY <1>0, <1>4, <2>1 DEF WayInv, StackWay
  <2>2. CASE L \in 2..L
    BY <1>0, <1>4, <2>2 DEF Visited
  <2> QED
    BY <1>4, <2>1, <2>2
<1>15. ASSUME NEW n \in Nodes, NEW m \in Below(n), m \in Visited'
       PROVE  n \in Visited' \cup {Tree}
  BY <1>5, <1>12, <1>13, <1>14, <1>15
<1>16. ASSUME NEW i \in 1..(L + 1), NEW j \in 1..(L + 1), i # j
       PROVE  stack'[i].item # stack'[j].item
  <2>1. \A h \in 1..L : stack'[h].item # c
    <3> SUFFICES ASSUME NEW h \in 1..L
                 PROVE  stack[h].item # c
      BY <1>10
    <3>1. CASE h = 1
      BY <1>4, <1>7, <3>1 DEF WayInv, StackWay
    <3>2. CASE h \in 2..L
      BY <1>0, <1>8, <3>2 DEF Visited
    <3> QED
      BY <1>4, <3>1, <3>2
  <2>2. CASE i \in 1..L /\ j \in 1..L
    BY <1>5, <1>10, <1>16, <2>2
  <2>3. CASE i = L + 1
    <3>1. j \in 1..L
      BY <1>4, <1>16, <2>3
    <3> QED
      BY <1>11, <2>1, <2>3, <3>1
  <2>4. CASE j = L + 1
    <3>1. i \in 1..L
      BY <1>4, <1>16, <2>4
    <3> QED
      BY <1>11, <2>1, <2>4, <3>1
  <2> QED
    BY <1>4, <2>2, <2>3, <2>4
<1>17. ASSUME NEW i \in 1..(L + 1)
       PROVE  Ahead(i)'
  <2>1. CASE i = L + 1
    BY <1>11, <2>1 DEF Ahead
  <2>2. CASE i = L
    <3>1. Ahead(L) /\ stack'[L].kids = Top.kids /\ stack'[L].next = Top.next + 1 /\ Top = stack[L]
      BY <1>2, <1>4, <1>5
    <3>2. ASSUME NEW j \in 1..Len(Top.kids), j >= Top.next + 1
          PROVE  Top.kids[j] \notin Visited'
      <4>1. j >= Top.next /\ j # Top.next /\ Top.next \in 1..Len(Top.kids)
        BY <1>2, <1>4, <3>2
      <4>2. Top.kids[j] \notin Visited /\ Top.kids[j] # c
        BY <1>7, <3>1, <4>1 DEF Ahead
      <4> QED
        BY <1>12, <4>2
    <3> QED
      BY <2>2, <3>1, <3>2 DEF Ahead
  <2>3. CASE i \in 1..(L - 1)
    <3>1. i \in 1..L /\ L \in 1..L /\ i # L /\ stack'[i] = stack[i] /\ Ahead(i)
      BY <1>2, <1>4, <1>5, <2>3
    <3>2. stack[i].item \in Nodes /\ stack[i].item # Top.item /\ WayFrame(stack[i])
      <4>1. stack[i] \in FrameType
        BY <1>0, <3>1, TopFrame DEF TypeInv
      <4> QED
        BY <1>0, <1>4, <1>5, <3>1, <4>1 DEF WayInv, StackWay, FrameType
    <3>3. \A j \in 1..Len(stack[i].kids) : stack[i].kids[j] # c
      BY <1>13, <3>2 DEF WayFrame
    <3> QED
      BY <1>12, <3>1, <3>3 DEF Ahead
  <2> QED
    BY <1>4, <2>1, <2>2, <2>3
<1>18. Below(c) \cap Visited' = {}
  <2>1. \A m \in Below(c) : m \notin Visited
    BY <1>4, <1>5, <1>7, <1>8 DEF Nodes
  <2>2. c \notin Below(c)
    BY <1>4, <1>7, <1>8, <1>13, <1>14 DEF Nodes
  <2> QED
    BY <1>12, <2>1, <2>2
<1>19. OnceInv'
  BY <1>2, <1>9, <1>15, <1>16, <1>17, <1>18 DEF OnceInv
<1> QED
  BY <1>7, <1>8, <1>9, <1>12, <1>19

LEMMA LeaveOnce ==
  ASSUME TypeInv, WayInv, OnceInv, Leave
  PROVE  OnceInv' /\ Visited' = Visited
<1>0. PICK L : L = Len(stack)
  OBVIOUS
<1>1. /\ Len(stack') = L - 1 /\ L > 1 /\ L \in Nat /\ Top = stack[L] /\ L \in 1..L
      /\ \A i \in 1..(L - 1) :
           /\ stack'[i].item = stack[i].item /\ stack'[i].kids = stack[i].kids
           /\ stack'[i].next = stack[i].next
           /\ i # L - 1 => SubItems(i)' = SubItems(i)
      /\ SubItems(L - 1)' = SubItems(L - 1) \cup SubItems(L) \cup {Top.item}
  BY <1>0, LeaveMoves
<1>2. pc = "visit" /\ pc' = pc
  BY DEF Leave
<1>3. /\ \A i \in 1..L : Ahead(i)
      /\ \A i, j \in 1..L : i # j => stack[i].item # stack[j].item
      /\ \A n \in Nodes : \A m \in Below(n) : m \in Visited => n \in Visited \cup {Tree}
  BY <1>0, <1>2 DEF OnceInv, Walking
<1>7. Visited' = Visited
  <2> DEFINE X == {stack[i].item : i \in 2..(L - 1)}
             U == UNION {SubItems(i) : i \in 1..L}
  <2>1. {stack[i].item : i \in 2..L} = X \cup {Top.item}
    <3>1. \A i \in 2..L : i \in 2..(L - 1) \/ i = L
      BY <1>1
    <3>2. L \in 2..L /\ \A i \in 2..(L - 1) : i \in 2..L
      BY <1>1
    <3> QED
      BY <1>1, <3>1, <3>2
  <2>2. {stack'[i].item : i \in 2..(L - 1)} = X
    <3>1. \A i \in 2..(L - 1) : i \in 1..(L - 1)
      BY <1>1
    <3> QED
      BY <1>1, <3>1
  <2>3. UNION {SubItems(i)' : i \in 1..(L - 1)} = U \cup {Top.item}
    <3>1. L - 1 \in 1..(L - 1) /\ \A i \in 1..(L - 1) : i \in 1..L
      BY <1>1
    <3>2. ASSUME NEW i \in 1..(L - 1)
          PROVE  SubItems(i)' \subseteq U \cup {Top.item}
      <4>1. CASE i = L - 1
        BY <1>1, <3>1, <4>1
      <4>2. CASE i # L - 1
        BY <1>1, <3>1, <4>2
      <4> QED
        BY <4>1, <4>2
    <3>3. ASSUME NEW i \in 1..L
          PROVE  \E j \in 1..(L - 1) : SubItems(i) \subseteq SubItems(j)'
      <4>1. CASE i = L \/ i = L - 1
        BY <1>1, <3>1, <4>1
      <4>2. CASE i \in 1..(L - 1) /\ i # L - 1
        BY <1>1, <4>2
      <4> QED
        BY <1>1, <4>1, <4>2
    <3>4. Top.item \in SubItems(L - 1)'
      BY <1>1
    <3> QED
      BY <3>1, <3>2, <3>3, <3>4
  <2>4. Visited = (X \cup {Top.item}) \cup U
    BY <1>0, <2>1 DEF Visited
  <2>5. Visited' = X \cup (U \cup {Top.item})
    BY <1>1, <2>2, <2>3, Zenon DEF Visited
  <2> HIDE DEF X, U
  <2> QED
    BY <2>4, <2>5
<1>8. \A i \in 1..(L - 1) : i \in 1..L
  BY <1>1
<1>9. \A i \in 1..(L - 1) : Ahead(i)'
  BY <1>1, <1>3, <1>7, <1>8 DEF Ahead
<1>10. \A i, j \in 1..(L - 1) : i # j => stack'[i].item # stack'[j].item
  BY <1>1, <1>3, <1>8
<1>11. OnceInv'
  BY <1>1, <1>2, <1>3, <1>7, <1>9, <1>10 DEF OnceInv, AtItem
<1> QED
  BY <1>7, <1>11

-----------------------------------------------------------------------------
(* What differs from the beginning. *)

\* Where states and records stay, the differences are accounted for.
LEMMA ChangedStands ==
  ASSUME ChangedInv, UNCHANGED <<state, pending, before, expandAll, expanded, missed>>,
         Waiting' = Waiting, Walking' => Walking /\ Visited \subseteq Visited',
         pc' = "expand" => pc = "expand" /\ UNCHANGED stack
  PROVE  ChangedInv'
<1>1. Entries' = Entries
  BY DEF Entries
<1> QED
  BY <1>1 DEF ChangedInv, Top

\* The actions that neither expand nor collapse.
LEMMA ChangedStays ==
  ASSUME TypeInv, WayInv, OnceInv, ChangedInv,
         \/ ListRoots \/ NoRoots \/ BreakOff \/ VisitTooLate \/ LeaveAsIs \/ Enumerate \/ CannotEnumerate
         \/ Leave \/ WalkFails \/ WalkEnds \/ SeenCollapsed \/ NotSeenCollapsed \/ Report \/ CannotReport
         \/ Load \/ Expire \/ UNCHANGED vars
  PROVE  ChangedInv'
<1>1. UNCHANGED <<state, pending, before, expandAll, expanded, missed>>
  BY Zenon DEF ListRoots, NoRoots, BreakOff, VisitTooLate, LeaveAsIs, Enumerate, CannotEnumerate, Enumerated,
     Leave, WalkFails, WalkEnds, SeenCollapsed, NotSeenCollapsed, AttemptFails, Report, CannotReport, Load,
     Expire, vars, app, arguments, found, history
<1>2. CASE ListRoots \/ BreakOff \/ VisitTooLate \/ Enumerate \/ CannotEnumerate \/ Leave
  <2>1. Visited' = Visited /\ Walking
    BY <1>2, ListRootsOnce, SameKidsOnce, EnumeratedOnce, LeaveOnce
       DEF ListRoots, BreakOff, VisitTooLate, Enumerate, CannotEnumerate, Leave, Walking
  <2>2. pc # "wait" /\ pc' # "wait" /\ pc' # "expand"
    BY <1>2 DEF ListRoots, BreakOff, VisitTooLate, Enumerate, CannotEnumerate, Enumerated, Leave
  <2>3. Waiting' = Waiting
    BY <2>2 DEF Waiting
  <2> QED
    BY <1>1, <2>1, <2>2, <2>3, ChangedStands
<1>3. CASE LeaveAsIs \/ WalkEnds \/ NoRoots \/ WalkFails \/ SeenCollapsed \/ NotSeenCollapsed
             \/ Report \/ CannotReport
  <2>1. pc # "wait" /\ pc' # "wait" /\ pc' # "expand"
    BY <1>3 DEF LeaveAsIs, WalkEnds, NoRoots, WalkFails, BeginRestoring, SeenCollapsed, NotSeenCollapsed,
       AttemptFails, Report, CannotReport
  <2>2. Waiting' = Waiting
    BY <2>1 DEF Waiting
  <2>3. ~Walking' \/ (Walking /\ UNCHANGED stack)
    BY <1>3 DEF LeaveAsIs, WalkEnds, NoRoots, WalkFails, BeginRestoring, SeenCollapsed, NotSeenCollapsed,
       AttemptFails, Report, CannotReport, Walking
  <2>4. UNCHANGED stack => Visited' = Visited
    BY DEF Visited, SubItems
  <2> QED
    BY <1>1, <2>1, <2>2, <2>3, <2>4, ChangedStands
<1>4. CASE Load \/ Expire \/ UNCHANGED vars
  <2>1. UNCHANGED stack /\ UNCHANGED pc
    BY <1>4 DEF Load, Expire, vars
  <2>2. Visited' = Visited /\ Waiting' = Waiting /\ Walking' = Walking
    BY <2>1 DEF Visited, SubItems, Waiting, Top, Walking
  <2> QED
    BY <1>1, <2>1, <2>2, ChangedStands
<1> QED
  BY <1>2, <1>3, <1>4

\* The actions that do, one lemma for each, and the visit of an item.
LEMMA VisitChanged ==
  ASSUME TypeInv, WayInv, OnceInv, ChangedInv, Visit
  PROVE  ChangedInv'
<1>1. /\ pc = "visit" /\ pc' = "expand" /\ Walking /\ Walking'
      /\ UNCHANGED <<state, pending, before, expandAll, expanded, missed>>
  BY DEF Visit, app, arguments, history, Walking
<1>2. /\ Visited' = Visited \cup {Top'.item} /\ Top'.item \in Items /\ Top'.item \notin Visited
      /\ Top'.initial \in Readings(Top'.item)
  BY VisitOnce
<1>3. Entries' = Entries /\ Waiting' = Waiting /\ Waiting = {}
  BY <1>1 DEF Entries, Waiting
<1>4. Top'.item \notin Entries \cup missed
  BY <1>1, <1>2 DEF ChangedInv
<1>5. state[Top'.item] = before[Top'.item]
  BY <1>2, <1>3, <1>4 DEF ChangedInv
<1>6. Top'.initial \in {before[Top'.item], "unknown"}
  BY <1>2, <1>5 DEF Readings
<1> QED
  BY <1>1, <1>2, <1>3, <1>4, <1>6 DEF ChangedInv

\* What the walk is waiting for was just expanded by it.
LEMMA ExpandChanged ==
  ASSUME TypeInv, WayInv, OnceInv, ChangedInv, Expand
  PROVE  ChangedInv'
<1> DEFINE n == Top.item
<1>1. /\ pc = "expand" /\ pc' = "wait" /\ Walking /\ expandAll /\ Top.initial = "collapsed"
      /\ UNCHANGED <<before, expandAll, expanded, missed, stack>>
  BY DEF Expand, arguments, history, Walking
<1>2. n \in Items /\ n \in Visited /\ Top' = Top
  <2>1. Len(stack) > 1 /\ Len(stack) \in Nat
    BY <1>1 DEF TypeInv, StackType, AtItem
  <2>2. n \in Items
    BY <2>1, TopOnWay DEF TypeInv, WayInv
  <2>3. Len(stack) \in 2..Len(stack)
    BY <2>1
  <2> QED
    BY <1>1, <2>2, <2>3 DEF Visited, Top
<1>3. Entries' = Entries /\ Visited' = Visited /\ Waiting = {} /\ Waiting' = {n}
  BY <1>1, <1>2 DEF Entries, Visited, SubItems, Waiting
<1>4. n \notin Entries \cup missed /\ before[n] = "collapsed"
  BY <1>1 DEF ChangedInv
<1>5. state[n] = "collapsed"
  BY <1>2, <1>3, <1>4 DEF ChangedInv
<1>6. \A m \in Items : m # n => state'[m] = state[m]
  BY <1>2 DEF Expand, TypeInv, AppType
<1> HIDE DEF n
<1>7. \A m \in Items : state'[m] # before'[m] => m \in Entries' \cup missed' \cup Waiting'
  BY <1>1, <1>3, <1>6 DEF ChangedInv
<1>8. ASSUME NEW q \in pending'
      PROVE  IF q.to = "expanded" THEN state'[q.item] = "collapsed" /\ q.item \in missed' \cup Waiting'
             ELSE q.item \in Entries'
  <2>1. CASE q \in pending
    <3>1. q.item \in Items /\ q.to \in {"collapsed", "expanded"}
      BY <2>1 DEF TypeInv, AppType
    <3>2. q.to = "expanded" => q.item \in missed /\ q.item # n
      BY <1>3, <1>4, <2>1 DEF ChangedInv
    <3> QED
      BY <1>1, <1>3, <1>6, <2>1, <3>1, <3>2 DEF ChangedInv
  <2>2. CASE q \notin pending
    <3>1. q = [item |-> n, to |-> "expanded"] /\ state' = state
      BY <2>2 DEF Expand, n
    <3> QED
      BY <1>3, <1>5, <3>1
  <2> QED
    BY <2>1, <2>2
<1>9. \A m \in Entries' \cup missed' \cup Waiting' : before'[m] = "collapsed" /\ expandAll'
  BY <1>1, <1>3, <1>4 DEF ChangedInv
<1>10. Entries' \cup missed' \cup Waiting' \subseteq Visited'
  BY <1>1, <1>2, <1>3 DEF ChangedInv, n
<1>11. Entries' \cap missed' = {} /\ Entries' \cap Waiting' = {} /\ missed' \cap Waiting' = {}
  BY <1>1, <1>3, <1>4 DEF ChangedInv
<1> QED
  BY <1>1, <1>7, <1>8, <1>9, <1>10, <1>11 DEF ChangedInv

\* What was waited for is remembered when it is seen open, and missed otherwise.
LEMMA SeenChanged ==
  ASSUME TypeInv, WayInv, OnceInv, ChangedInv, SeenOpen \/ NotSeenOpen
  PROVE  ChangedInv'
<1> DEFINE n == Top.item
<1>1. /\ pc = "wait" /\ pc' = "enumerate" /\ Walking
      /\ UNCHANGED <<state, pending, before, expandAll>>
  BY DEF SeenOpen, NotSeenOpen, app, arguments, Walking
<1>2. n \in Items /\ Tree \notin Items /\ Len(expanded) \in Nat
  BY TopOnWay, TreeAssumption DEF TypeInv, WayInv, StackType, AtItem, CountType, SeenOpen, NotSeenOpen
<1>3. Waiting = {n} /\ Waiting' = {}
  BY <1>1 DEF Waiting
<1>4. n \notin Entries /\ n \notin missed /\ Entries \cap missed = {}
  BY <1>3 DEF ChangedInv
<1>5. Visited' = Visited
  <2>1. CASE SeenOpen
    BY <2>1, SameKidsOnce
  <2>2. CASE NotSeenOpen
    BY <2>2 DEF NotSeenOpen, Visited, SubItems
  <2> QED
    BY <2>1, <2>2
<1>6. CASE SeenOpen
  <2>1. expanded' = Append(expanded, [item |-> n, locator |-> Top.locator]) /\ missed' = missed
    BY <1>6 DEF SeenOpen, history
  <2> DEFINE S == [item : Items, locator : Seq(LocatorStep)]
             entry == [item |-> n, locator |-> Top.locator]
  <2>2. expanded \in Seq(S) /\ entry \in S /\ entry.item = n
    BY <1>2, TopFrame DEF TypeInv, CountType, FrameType
  <2> HIDE DEF S, entry, n
  <2>3. /\ Len(expanded') = Len(expanded) + 1 /\ expanded'[Len(expanded) + 1].item = n
        /\ \A i \in 1..Len(expanded) : expanded'[i] = expanded[i]
    BY <2>1, <2>2 DEF entry
  <2>4. Entries' = Entries \cup {n}
    <3>1. \A i \in 1..(Len(expanded) + 1) : i \in 1..Len(expanded) \/ i = Len(expanded) + 1
      BY <1>2
    <3>2. Len(expanded) + 1 \in 1..(Len(expanded) + 1) /\ \A i \in 1..Len(expanded) : i \in 1..(Len(expanded) + 1)
      BY <1>2
    <3> QED
      BY <2>3, <3>1, <3>2 DEF Entries
  <2>5. ASSUME NEW i \in 1..Len(expanded'), NEW j \in 1..Len(expanded'), i # j
        PROVE  expanded'[i].item # expanded'[j].item
    <3>1. \A h \in 1..Len(expanded) : expanded'[h].item # n
      BY <1>4, <2>3 DEF Entries
    <3>2. CASE i \in 1..Len(expanded) /\ j \in 1..Len(expanded)
      BY <2>3, <2>5, <3>2 DEF ChangedInv
    <3>3. CASE i = Len(expanded) + 1
      <4>1. j \in 1..Len(expanded)
        BY <1>2, <2>3, <2>5, <3>3
      <4> QED
        BY <2>3, <3>1, <3>3, <4>1
    <3>4. CASE j = Len(expanded) + 1
      <4>1. i \in 1..Len(expanded)
        BY <1>2, <2>3, <2>5, <3>4
      <4> QED
        BY <2>3, <3>1, <3>4, <4>1
    <3> QED
      BY <1>2, <2>3, <3>2, <3>3, <3>4
  <2>6. state[n] # "collapsed"
    BY <1>2, <1>6 DEF SeenOpen, Open, OpenStates, n
  <2>7. \A q \in pending' : IF q.to = "expanded"
                              THEN state'[q.item] = "collapsed" /\ q.item \in missed' \cup Waiting'
                              ELSE q.item \in Entries'
    BY <1>1, <1>3, <2>1, <2>4, <2>6 DEF ChangedInv
  <2>8. /\ \A m \in Items : state'[m] # before'[m] => m \in Entries' \cup missed' \cup Waiting'
        /\ \A m \in Entries' \cup missed' \cup Waiting' : before'[m] = "collapsed" /\ expandAll'
        /\ Entries' \cup missed' \cup Waiting' \subseteq Visited'
    BY <1>1, <1>3, <1>5, <2>1, <2>4 DEF ChangedInv
  <2>9. Entries' \cap missed' = {} /\ Entries' \cap Waiting' = {} /\ missed' \cap Waiting' = {}
    BY <1>3, <1>4, <2>1, <2>4
  <2> QED
    BY <1>1, <2>5, <2>7, <2>8, <2>9 DEF ChangedInv
<1>7. CASE NotSeenOpen
  <2>1. expanded' = expanded /\ missed' = missed \cup {n} /\ Entries' = Entries
    BY <1>7 DEF NotSeenOpen, found, Entries
  <2> HIDE DEF n
  <2>2. \A q \in pending' : IF q.to = "expanded"
                              THEN state'[q.item] = "collapsed" /\ q.item \in missed' \cup Waiting'
                              ELSE q.item \in Entries'
    BY <1>1, <1>3, <2>1 DEF ChangedInv
  <2>3. /\ \A m \in Items : state'[m] # before'[m] => m \in Entries' \cup missed' \cup Waiting'
        /\ \A m \in Entries' \cup missed' \cup Waiting' : before'[m] = "collapsed" /\ expandAll'
        /\ Entries' \cup missed' \cup Waiting' \subseteq Visited'
    BY <1>1, <1>3, <1>5, <2>1 DEF ChangedInv
  <2>4. Entries' \cap missed' = {} /\ Entries' \cap Waiting' = {} /\ missed' \cap Waiting' = {}
    BY <1>3, <1>4, <2>1
  <2>5. \A i, j \in 1..Len(expanded') : i # j => expanded'[i].item # expanded'[j].item
    BY <2>1 DEF ChangedInv
  <2> QED
    BY <1>1, <2>2, <2>3, <2>4, <2>5 DEF ChangedInv
<1> QED
  BY <1>6, <1>7

\* Only items to be restored are collapsed, where siblings have different texts.
LEMMA CollapseChanges ==
  ASSUME TypeInv, WayInv, SiblingsDiffer, Collapse \/ CannotCollapse
  PROVE  /\ pc = "collapse" /\ todo \in 1..Len(expanded)
         /\ Collapse => target' = expanded[todo].item
         /\ state' \in {state, [state EXCEPT ![expanded[todo].item] = "collapsed"]}
         /\ pending' \subseteq pending \cup {[item |-> expanded[todo].item, to |-> "collapsed"]}
<1>1. pc = "collapse" /\ todo \in 1..Len(expanded)
  BY DEF Collapse, CannotCollapse, TypeInv, CountType
<1> DEFINE n == expanded[todo].item
           r == Resolve(expanded[todo].locator)
<1>2. r \in {n, NULL}
  BY <1>1, EntryResolves DEF TypeInv
<1> HIDE DEF r
<1>3. CASE Collapse
  <2>1. target' = n
    BY <1>2, <1>3 DEF Collapse, r
  <2> QED
    BY <1>1, <1>3, <2>1 DEF Collapse
<1>4. CASE CannotCollapse
  <2>1. state' \in {state} \cup {[state EXCEPT ![m] = "collapsed"] : m \in {r} \ {NULL}} /\ pending' = pending
    BY <1>4 DEF CannotCollapse, r
  <2>2. state' \in {state, [state EXCEPT ![n] = "collapsed"]}
    BY <1>2, <2>1
  <2>3. ~Collapse
    BY <1>4 DEF CannotCollapse, AttemptFails, Collapse
  <2> QED
    BY <1>1, <2>1, <2>2, <2>3
<1> QED
  BY <1>3, <1>4

LEMMA CollapseChanged ==
  ASSUME TypeInv, WayInv, ChangedInv, SiblingsDiffer, Collapse \/ CannotCollapse
  PROVE  ChangedInv'
<1>1. PICK n : n = expanded[todo].item
  OBVIOUS
<1>2. /\ pc = "collapse" /\ todo \in 1..Len(expanded)
      /\ state' \in {state, [state EXCEPT ![n] = "collapsed"]}
      /\ pending' \subseteq pending \cup {[item |-> n, to |-> "collapsed"]}
  BY <1>1, CollapseChanges
<1>3. /\ ~Walking' /\ pc' # "wait" /\ pc' # "expand" /\ pc # "wait"
      /\ UNCHANGED <<before, expandAll, expanded, missed>>
  BY <1>2 DEF Collapse, CannotCollapse, AttemptFails, arguments, found, history, Walking
<1>4. Entries' = Entries /\ Waiting' = {} /\ Waiting = {} /\ n \in Entries /\ n \in Items
  BY <1>1, <1>2, <1>3, EntryResolves DEF Entries, Waiting, TypeInv
<1>5. before[n] = "collapsed" /\ n \notin missed
  BY <1>4 DEF ChangedInv
<1>6. \A m \in Items : m # n => state'[m] = state[m]
  BY <1>2, <1>4 DEF TypeInv, AppType
<1>7. \A m \in Items : state'[m] # before'[m] => m \in Entries' \cup missed' \cup Waiting'
  BY <1>3, <1>4, <1>6 DEF ChangedInv
<1>8. ASSUME NEW q \in pending'
      PROVE  IF q.to = "expanded" THEN state'[q.item] = "collapsed" /\ q.item \in missed' \cup Waiting'
             ELSE q.item \in Entries'
  <2>1. CASE q \in pending
    <3>1. q.item \in Items
      BY <2>1 DEF TypeInv, AppType
    <3> QED
      BY <1>3, <1>4, <1>5, <1>6, <2>1, <3>1 DEF ChangedInv
  <2>2. CASE q = [item |-> n, to |-> "collapsed"]
    BY <1>4, <2>2
  <2> QED
    BY <1>2, <2>1, <2>2
<1> QED
  BY <1>3, <1>4, <1>7, <1>8 DEF ChangedInv

LEMMA ObeyChanged ==
  ASSUME TypeInv, ChangedInv, Obey
  PROVE  ChangedInv'
<1>1. PICK p \in pending : state' = [state EXCEPT ![p.item] = p.to] /\ pending' = pending \ {p}
  BY DEF Obey
<1>2. UNCHANGED <<before, expandAll, expanded, missed, stack, pc>>
  BY DEF Obey, arguments, found, history
<1>3. Entries' = Entries /\ Waiting' = Waiting /\ Visited' = Visited
  BY <1>2 DEF Entries, Waiting, Top, Visited, SubItems
<1>4. /\ pending \subseteq [item: Items, to: {"collapsed", "expanded"}] /\ state \in [Items -> States]
      /\ p.item \in Items /\ p.to \in {"collapsed", "expanded"}
  BY <1>1 DEF TypeInv, AppType
<1>5. state'[p.item] = p.to /\ \A m \in Items : m # p.item => state'[m] = state[m]
  BY <1>1, <1>4
<1>6. p.item \in Entries \cup missed \cup Waiting
  BY <1>1 DEF ChangedInv
<1>7. \A m \in Items : state'[m] # before'[m] => m \in Entries' \cup missed' \cup Waiting'
  BY <1>2, <1>3, <1>5, <1>6 DEF ChangedInv
<1>8. ASSUME NEW q \in pending'
      PROVE  IF q.to = "expanded" THEN state'[q.item] = "collapsed" /\ q.item \in missed' \cup Waiting'
             ELSE q.item \in Entries'
  <2>1. q \in pending /\ q # p /\ q.item \in Items /\ q.to \in {"collapsed", "expanded"}
    BY <1>1, <1>4
  <2>2. CASE q.to = "expanded"
    <3>1. q.item \in missed \cup Waiting /\ state[q.item] = "collapsed"
      BY <2>1, <2>2 DEF ChangedInv
    <3>2. CASE p.to = "collapsed"
      <4>1. p.item \in Entries
        BY <1>1, <3>2 DEF ChangedInv
      <4>2. p.item # q.item
        BY <3>1, <4>1 DEF ChangedInv
      <4> QED
        BY <1>2, <1>3, <1>5, <2>1, <2>2, <3>1, <4>2
    <3>3. CASE p.to = "expanded"
      <4>1. q.item # p.item
        BY <1>1, <1>4, <2>1, <2>2, <3>3
      <4> QED
        BY <1>2, <1>3, <1>5, <2>1, <2>2, <3>1, <4>1
    <3> QED
      BY <1>4, <3>2, <3>3
  <2>3. CASE q.to # "expanded"
    BY <1>3, <2>1, <2>3 DEF ChangedInv
  <2> QED
    BY <2>2, <2>3
<1>9. Top' = Top /\ Walking' = Walking
  BY <1>2 DEF Top, Walking
<1> QED
  BY <1>2, <1>3, <1>7, <1>8, <1>9 DEF ChangedInv

\* Every step visits only what is new.
LEMMA OnceStep ==
  ASSUME TypeInv, WayInv, OnceInv, [Next]_vars
  PROVE  OnceInv'
<1>1. CASE ListRoots \/ BreakOff \/ VisitTooLate \/ SeenOpen \/ Enumerate \/ CannotEnumerate \/ Visit \/ Leave
  BY <1>1, ListRootsOnce, SameKidsOnce, EnumeratedOnce, VisitOnce, LeaveOnce
<1>2. CASE Expand \/ LeaveAsIs \/ NotSeenOpen
  <2>1. UNCHANGED stack /\ Walking /\ AtItem
    BY <1>2 DEF Expand, LeaveAsIs, NotSeenOpen, Walking, AtItem
  <2> QED
    BY <2>1, OnceStands
<1>3. CASE Load \/ Expire \/ Obey \/ UNCHANGED vars
  <2>1. UNCHANGED stack /\ UNCHANGED pc
    BY <1>3 DEF Load, Expire, Obey, vars
  <2> QED
    BY <2>1, OnceStands DEF Walking, AtItem
<1>4. CASE NoRoots \/ WalkFails \/ WalkEnds \/ Collapse \/ CannotCollapse \/ SeenCollapsed
           \/ NotSeenCollapsed \/ Report \/ CannotReport
  <2>1. ~Walking'
    BY <1>4 DEF NoRoots, WalkFails, WalkEnds, BeginRestoring, Collapse, CannotCollapse, SeenCollapsed,
       NotSeenCollapsed, AttemptFails, Report, CannotReport, Walking
  <2> QED
    BY <2>1 DEF OnceInv
<1> QED
  BY <1>1, <1>2, <1>3, <1>4 DEF Next, Adapter, Application, Quiet

\* Every step accounts for what it changes.
LEMMA ChangedStep ==
  ASSUME TypeInv, WayInv, OnceInv, ChangedInv, SiblingsDiffer, [Next]_vars
  PROVE  ChangedInv'
<1>1. CASE Visit
  BY <1>1, VisitChanged
<1>2. CASE Expand
  BY <1>2, ExpandChanged
<1>3. CASE SeenOpen \/ NotSeenOpen
  BY <1>3, SeenChanged
<1>4. CASE Collapse \/ CannotCollapse
  BY <1>4, CollapseChanged
<1>5. CASE Obey
  BY <1>5, ObeyChanged
<1>6. CASE \/ ListRoots \/ NoRoots \/ BreakOff \/ VisitTooLate \/ LeaveAsIs \/ Enumerate \/ CannotEnumerate
           \/ Leave \/ WalkFails \/ WalkEnds \/ SeenCollapsed \/ NotSeenCollapsed \/ Report \/ CannotReport
           \/ Load \/ Expire \/ UNCHANGED vars
  BY <1>6, ChangedStays
<1> QED
  BY <1>1, <1>2, <1>3, <1>4, <1>5, <1>6 DEF Next, Adapter, Application, Quiet

-----------------------------------------------------------------------------
(* The restoration. *)

\* An item to restore that is collapsed stays so: no expand of it is pending.
LEMMA CollapsedStays ==
  ASSUME TypeInv, WayInv, ChangedInv, SiblingsDiffer, [Next]_vars, ~Walking,
         NEW i \in 1..Len(expanded), state[expanded[i].item] = "collapsed"
  PROVE  state'[expanded[i].item] = "collapsed"
<1>1. expanded[i].item \in Items /\ expanded[i].item \in Entries /\ state \in [Items -> States]
  BY EntryResolves DEF TypeInv, AppType, Entries
<1>2. CASE Obey
  <2>1. PICK p \in pending : state' = [state EXCEPT ![p.item] = p.to]
    BY <1>2 DEF Obey
  <2>2. p.to \in {"collapsed", "expanded"} /\ p.item \in Items
    BY <2>1 DEF TypeInv, AppType
  <2>3. p.to = "expanded" => p.item # expanded[i].item
    BY <1>1, <2>1 DEF ChangedInv
  <2> QED
    BY <1>1, <2>1, <2>2, <2>3
<1>3. CASE Collapse \/ CannotCollapse
  <2>1. state' \in {state, [state EXCEPT ![expanded[todo].item] = "collapsed"]}
    BY <1>3, CollapseChanges
  <2> QED
    BY <1>1, <2>1
<1>4. CASE UNCHANGED state
  BY <1>4
<1>5. ~Expand
  BY DEF Expand, Walking
<1> QED
  BY <1>2, <1>3, <1>4, <1>5, Zenon DEF Next, Adapter, Application, Quiet, ListRoots, NoRoots, Visit, BreakOff,
     VisitTooLate, LeaveAsIs, SeenOpen, NotSeenOpen, Enumerate, CannotEnumerate, Enumerated, Leave, WalkFails,
     WalkEnds, SeenCollapsed, NotSeenCollapsed, Report, CannotReport, Load, Expire, vars, app

\* Every step keeps the record of what is collapsed again.
LEMMA RestoreStep ==
  ASSUME TypeInv, WayInv, ChangedInv, RestoreInv, SiblingsDiffer, [Next]_vars
  PROVE  RestoreInv'
<1>1. /\ todo \in Nat /\ restored \in Nat /\ Len(expanded) \in Nat /\ restored + todo <= Len(expanded)
      /\ pc = "verify" => todo > 0
  BY DEF TypeInv, CountType
<1>2. ~Walking => UNCHANGED expanded
  BY Zenon DEF Walking, Next, Adapter, Application, Quiet, ListRoots, NoRoots, Visit, BreakOff,
     VisitTooLate, Expand, LeaveAsIs, SeenOpen, NotSeenOpen, Enumerate, CannotEnumerate, Enumerated, Leave,
     WalkFails, WalkEnds, Collapse, CannotCollapse, SeenCollapsed, NotSeenCollapsed, AttemptFails, Report,
     CannotReport, Obey, Load, Expire, vars, found
<1>3. ASSUME pc' = "verify"
      PROVE  target' = expanded'[todo'].item
  <2>1. CASE Collapse
    BY <2>1, CollapseChanges DEF Collapse, found
  <2>2. CASE Obey \/ Load \/ Expire \/ UNCHANGED vars
    BY <1>3, <2>2 DEF RestoreInv, Obey, Load, Expire, vars, found, restoring
  <2> QED
    BY <1>3, <2>1, <2>2 DEF Next, Adapter, Application, Quiet, ListRoots, NoRoots, Visit, BreakOff,
       VisitTooLate, Expand, LeaveAsIs, SeenOpen, NotSeenOpen, Enumerate, CannotEnumerate, Enumerated, Leave,
       WalkFails, WalkEnds, BeginRestoring, CannotCollapse, SeenCollapsed, NotSeenCollapsed, AttemptFails,
       Report, CannotReport
<1>4. ASSUME ~Walking', restored' + todo' = Len(expanded'), NEW i \in (todo' + 1)..Len(expanded')
      PROVE  state'[expanded'[i].item] = "collapsed"
  <2>1. CASE Walking
    <3>1. NoRoots \/ WalkFails \/ WalkEnds
      BY <1>4, <2>1 DEF Walking, Next, Adapter, Application, Quiet, ListRoots, Visit, BreakOff,
         VisitTooLate, Expand, LeaveAsIs, SeenOpen, NotSeenOpen, Enumerate, CannotEnumerate, Enumerated, Leave,
         Collapse, CannotCollapse, SeenCollapsed, NotSeenCollapsed, Report, CannotReport, Obey, Load, Expire, vars
    <3>2. todo' = Len(expanded) /\ expanded' = expanded
      BY <3>1 DEF NoRoots, WalkFails, WalkEnds, BeginRestoring, found
    <3> QED
      BY <1>1, <3>2
  <2>2. CASE ~Walking
    <3>1. expanded' = expanded
      BY <1>2, <2>2
    <3>2. CASE SeenCollapsed
      <4>1. /\ restored' = restored + 1 /\ todo' = todo - 1 /\ state' = state /\ pc = "verify"
            /\ state[target] = "collapsed" /\ target = expanded[todo].item
        BY <3>2 DEF SeenCollapsed, RestoreInv, app
      <4>2. restored + todo = Len(expanded) /\ i \in todo..Len(expanded)
        BY <1>1, <1>4, <3>1, <4>1
      <4>3. CASE i = todo
        BY <3>1, <4>1, <4>3
      <4>4. CASE i \in (todo + 1)..Len(expanded)
        BY <2>2, <3>1, <4>1, <4>2, <4>4 DEF RestoreInv
      <4> QED
        BY <1>1, <4>2, <4>3, <4>4
    <3>3. CASE restored' = restored /\ todo' = todo
      <4>1. i \in (todo + 1)..Len(expanded) /\ i \in 1..Len(expanded)
        BY <1>1, <1>4, <3>1, <3>3
      <4>2. state[expanded[i].item] = "collapsed"
        BY <1>4, <2>2, <3>1, <3>3, <4>1 DEF RestoreInv
      <4> QED
        BY <2>2, <3>1, <4>1, <4>2, CollapsedStays
    <3>4. CASE restored' = restored /\ todo' = todo - 1
      BY <1>1, <1>4, <3>1, <3>4
    <3>5. (restored' = restored /\ todo' = todo) \/ (restored' = restored /\ todo' = todo - 1) \/ SeenCollapsed
      <4>1. CASE CannotCollapse \/ NotSeenCollapsed
        BY <4>1 DEF CannotCollapse, NotSeenCollapsed, AttemptFails
      <4>2. ~(ListRoots \/ NoRoots \/ Visit \/ BreakOff \/ VisitTooLate \/ Expand \/ LeaveAsIs
              \/ SeenOpen \/ NotSeenOpen \/ Enumerate \/ CannotEnumerate \/ Leave \/ WalkFails \/ WalkEnds)
        BY <2>2 DEF Walking, ListRoots, NoRoots, Visit, BreakOff, VisitTooLate, Expand, LeaveAsIs,
           SeenOpen, NotSeenOpen, Enumerate, CannotEnumerate, Leave, WalkFails, WalkEnds
      <4>3. CASE Collapse \/ Report \/ CannotReport \/ Obey \/ Load \/ Expire \/ UNCHANGED vars
        BY <4>3 DEF Collapse, Report, CannotReport, Obey, Load, Expire, vars, restoring
      <4> QED
        BY <4>1, <4>2, <4>3 DEF Next, Adapter, Application, Quiet
    <3> QED
      BY <3>2, <3>3, <3>4, <3>5
  <2> QED
    BY <2>1, <2>2
<1>5. ASSUME report' # NULL, report'.restoration
      PROVE  todo' = 0 /\ restored' = Len(expanded')
  <2>1. CASE Report
    <3>1. report'.restoration = (restored = Len(expanded))
      BY <2>1 DEF Report
    <3>2. todo = 0 /\ UNCHANGED <<todo, restored, expanded>>
      BY <2>1 DEF Report, found
    <3> QED
      BY <1>5, <3>1, <3>2
  <2>2. CASE UNCHANGED vars
    BY <1>5, <2>2 DEF RestoreInv, vars, restoring, found
  <2> QED
    BY <1>5, <2>1, <2>2, ReportOnce
<1> QED
  BY <1>3, <1>4, <1>5 DEF RestoreInv

\* The restoration's invariants hold at the beginning.
LEMMA InitOnce ==
  ASSUME Init
  PROVE  OnceInv /\ ChangedInv /\ RestoreInv
<1> DEFINE root == Frame(Tree, << >>, "expanded")
<1>1. Len(stack) = 1 /\ stack[1] = root /\ root.sub = {} /\ root.kids = << >> /\ Len(expanded) = 0
  BY DEF Init, Frame
<1> HIDE DEF root
<1>2. 2..Len(stack) = {} /\ \A i \in 1..Len(stack) : i = 1
  BY <1>1
<1>3. Visited = {}
  <2>1. \A i \in 1..Len(stack) : SubItems(i) = {}
    BY <1>1, <1>2 DEF SubItems
  <2> QED
    BY <1>2, <2>1 DEF Visited
<1>4. \A i \in 1..Len(stack) : Ahead(i)
  BY <1>1, <1>2 DEF Ahead
<1>5. OnceInv
  BY <1>2, <1>3, <1>4 DEF OnceInv, Init, AtItem
<1>6. Entries = {} /\ Waiting = {} /\ missed = {} /\ pending = {} /\ before = state
  BY <1>1 DEF Entries, Waiting, Init
<1>7. ChangedInv
  BY <1>1, <1>6 DEF ChangedInv, Init
<1>8. RestoreInv
  BY <1>1 DEF RestoreInv, Init, Walking
<1> QED
  BY <1>5, <1>7, <1>8

(***************************************************************************)
(* Where siblings have different texts, an item that was open stays as it is, *)
(* late loading and shifted places notwithstanding, and without expand_all     *)
(* nothing changes.                                                         *)
(***************************************************************************)
THEOREM OwnExpansionsOnly ==
  ASSUME SiblingsDiffer
  PROVE  Spec => []OnlyOwnExpansions
<1>1. ChangedInv => OnlyOwnExpansions
  BY DEF ChangedInv, OnlyOwnExpansions
<1>2. TypeInv /\ WayInv /\ OnceInv /\ ChangedInv /\ [Next]_vars => (OnceInv /\ ChangedInv)'
  BY OnceStep, ChangedStep
<1>3. Init => OnceInv /\ ChangedInv
  BY InitOnce
<1> QED
  BY <1>1, <1>2, <1>3, InitType, StepKeeps, PTL DEF Spec

(***************************************************************************)
(* Where siblings have different texts, a restoration that is called complete *)
(* left the tree as it was, except for items whose expansion was missed.      *)
(***************************************************************************)
THEOREM RestorationTrue ==
  ASSUME SiblingsDiffer
  PROVE  Spec => []RestorationHolds
<1>1. ASSUME TypeInv, ChangedInv, RestoreInv
      PROVE  RestorationHolds
  <2> SUFFICES ASSUME report # NULL, report.restoration, NEW n \in Items, state[n] # before[n]
               PROVE  n \in missed
    BY DEF RestorationHolds
  <2>1. todo = 0 /\ restored = Len(expanded) /\ Len(expanded) \in Nat
    BY <1>1 DEF RestoreInv, TypeInv, CountType
  <2>2. pc = "done"
    BY <1>1 DEF TypeInv, PlaceType
  <2>3. Waiting = {} /\ ~Walking
    BY <1>1, <2>2 DEF Waiting, Walking
  <2>4. \A i \in 1..Len(expanded) : state[expanded[i].item] = "collapsed"
    BY <1>1, <2>1, <2>3 DEF RestoreInv
  <2>5. n \notin Entries
    BY <1>1, <2>4 DEF ChangedInv, Entries
  <2> QED
    BY <1>1, <2>3, <2>5 DEF ChangedInv
<1>2. TypeInv /\ WayInv /\ OnceInv /\ ChangedInv /\ RestoreInv /\ [Next]_vars
        => (OnceInv /\ ChangedInv /\ RestoreInv)'
  BY OnceStep, ChangedStep, RestoreStep
<1>3. Init => OnceInv /\ ChangedInv /\ RestoreInv
  BY InitOnce
<1> QED
  BY <1>1, <1>2, <1>3, InitType, StepKeeps, PTL DEF Spec
=============================================================================
