--------------------------- MODULE TokenProtection ---------------------------
(***************************************************************************)
(* How protected tokens (device addresses, command names) come back into a   *)
(* translation: markers are replaced by the tokens, delimiters are inserted    *)
(* where prose touches them, and the result is validated.  A text is a         *)
(* sequence of symbols, a token is one symbol; prose may hold the same symbol   *)
(* as a token ("Mode M").                                                     *)
(***************************************************************************)
EXTENDS Integers, Sequences, FiniteSets, SequencesExt, FiniteSetsExt

CONSTANTS
  Atoms,       \* tokens that are identifiers, "K" and "18K" among them
  Signs,       \* tokens that are not
  Letters,     \* prose: ASCII letters and digits
  Markers      \* the markers in ascending order

Tokens == Atoms \cup Signs
Delimiters == {"space", "comma", "semicolon"}
Symbols == Tokens \cup Letters \cup Delimiters \cup {"han", "gold"}
AnswerSymbols == Symbols \cup {Markers[n] : n \in DOMAIN Markers}

\* Markers are different from each other and from everything else.
ASSUME SymbolAssumption ==
  /\ Len(Markers) \in Nat /\ DOMAIN Markers = 1..Len(Markers)
  /\ \A m, n \in DOMAIN Markers : Markers[m] = Markers[n] => m = n
  /\ \A n \in DOMAIN Markers : Markers[n] \notin Symbols
  /\ (Tokens \cup Letters) \cap (Delimiters \cup {"han", "gold", "end"}) = {}

IsCJK(x) == x \in {"han", "gold"}
IsIdentifier(x) == x \in Letters \cup Atoms

At(s, i) == IF i \in DOMAIN s THEN s[i] ELSE "end"

\* "K" before "gold" is karat, not a token.
IsToken(s, i) == s[i] \in Tokens /\ ~(s[i] = "K" /\ At(s, i + 1) = "gold")

\* The elements of a set of numbers from the least to the greatest.
Ascending(S) ==
  [n \in 1..Cardinality(S) |-> CHOOSE i \in S : Cardinality({j \in S : j <= i}) = n]

Places(s) == Ascending({i \in DOMAIN s : IsToken(s, i)})

\* protect_tokens
Protected(s) ==
  [i \in DOMAIN s |->
     IF IsToken(s, i) THEN Markers[CHOOSE n \in DOMAIN Places(s) : Places(s)[n] = i] ELSE s[i]]

\* restore_tokens: the markers 0..n-1, each once, in order.  (An answer holds whole
\* markers here; a fragment of one, which it refuses too, is not a symbol.)
IsMarker(x) == \E n \in DOMAIN Markers : Markers[n] = x
Restorable(s, answer) ==
  LET marked == Ascending({i \in DOMAIN answer : IsMarker(answer[i])})
  IN Len(marked) = Len(Places(s)) /\ \A n \in DOMAIN marked : answer[marked[n]] = Markers[n]
Restored(s, answer) ==
  [i \in DOMAIN answer |->
     IF IsMarker(answer[i])
     THEN s[Places(s)[CHOOSE n \in DOMAIN Markers : Markers[n] = answer[i]]] ELSE answer[i]]

\* The first place of x behind another one, or the one behind the end.
Find(t, x, place) ==
  LET hits == {p \in (place + 1)..Len(t) : t[p] = x}
  IN IF hits = {} THEN Len(t) + 1 ELSE Min(hits)

\* Where each token is found behind the one before.
Spans(s, t) ==
  LET found[n \in 0..Len(Places(s))] ==
        IF n = 0 THEN 0 ELSE Find(t, s[Places(s)[n]], found[n-1])
  IN found

Missing(s, t) == \E n \in DOMAIN Places(s) : Spans(s, t)[n] > Len(t)
Gaps(s) == {n \in 1..(Len(Places(s)) - 1) : Places(s)[n] + 1 < Places(s)[n + 1]}
GapText(s, n) == SubSeq(s, Places(s)[n] + 1, Places(s)[n + 1] - 1)
Joined(s, t, n) == Spans(s, t)[n] + 1 = Spans(s, t)[n + 1]

\* The source has CJK text at the edge of an identifier and the target prose.
GluedLeft(s, t, n) ==
  /\ IsCJK(At(s, Places(s)[n] - 1)) /\ s[Places(s)[n]] \in Atoms
  /\ IsIdentifier(At(t, Spans(s, t)[n] - 1))
GluedRight(s, t, n) ==
  /\ IsCJK(At(s, Places(s)[n] + 1)) /\ s[Places(s)[n]] \in Atoms
  /\ ~(s[Places(s)[n]] = "18K" /\ At(s, Places(s)[n] + 1) = "gold")
  /\ IsIdentifier(At(t, Spans(s, t)[n] + 1))

\* validate_protected_tokens
Validated(s, t) ==
  /\ ~Missing(s, t)
  /\ \A n \in Gaps(s) : ~Joined(s, t, n)
  /\ \A n \in DOMAIN Places(s) : ~GluedLeft(s, t, n) /\ ~GluedRight(s, t, n)

\* separate_protected_tokens: what goes in front of which place of the target.
\* Tokens joined where the source has CJK text between them are left alone.
Delimiter(gap) ==
  IF Contains(gap, "semicolon") THEN "semicolon" ELSE IF Contains(gap, "comma") THEN "comma" ELSE "space"
Blocked(s, t) ==
  {Spans(s, t)[n + 1] : n \in {m \in Gaps(s) : Joined(s, t, m) /\ \E x \in Range(GapText(s, m)) : IsCJK(x)}}
\* Mutant: only the left edges are looked at.
SpacedLeft(s, t) ==
  {Spans(s, t)[n] : n \in {m \in DOMAIN Places(s) : GluedLeft(s, t, m)}} \ Blocked(s, t)

Spaced(s, t) ==
  ({Spans(s, t)[n] : n \in {m \in DOMAIN Places(s) : GluedLeft(s, t, m)}}
    \cup {Spans(s, t)[n] + 1 : n \in {m \in DOMAIN Places(s) : GluedRight(s, t, m)}}) \ Blocked(s, t)

Insertion(s, t, p) ==
  LET here == {n \in Gaps(s) : Joined(s, t, n) /\ Spans(s, t)[n + 1] = p}
  IN IF here # {} /\ p \notin Blocked(s, t) THEN <<Delimiter(GapText(s, CHOOSE n \in here : TRUE))>>
     ELSE IF p \in Spaced(s, t) THEN <<"space">> ELSE << >>

Separated(s, t) ==
  LET upto[p \in 0..Len(t)] ==
        IF p = 0 THEN << >> ELSE upto[p-1] \o Append(Insertion(s, t, p), t[p])
  IN IF Missing(s, t) THEN t ELSE upto[Len(t)]

-----------------------------------------------------------------------------
(* Properties of a source and a provider's answer. *)

\* An answer that leaves everything as it was sent gives back the source.
ProtectionLossless(s) == Restorable(s, Protected(s)) /\ Restored(s, Protected(s)) = s

\* The prose of an answer does not happen to contain a token.
Distinct(answer) == \A i \in DOMAIN answer : answer[i] \notin Tokens
\* No CJK text between two tokens was translated into nothing.
NothingLeftOut(s, answer) == Blocked(s, Restored(s, answer)) = {}

Undelimited(t) ==
  LET kept == Ascending({i \in DOMAIN t : t[i] \notin Delimiters})
  IN [n \in DOMAIN kept |-> t[kept[n]]]

\* Prose that touches tokens is always repaired: an answer with the right
\* markers is valid once separated, unless a text between two tokens was left
\* out, and only delimiters were added.
SeparationRepairs(s, answer) ==
  LET target == Restored(s, answer)
  IN Restorable(s, answer) /\ Distinct(answer) =>
       /\ (NothingLeftOut(s, answer) <=> Validated(s, Separated(s, target)))
       /\ Undelimited(Separated(s, target)) = Undelimited(target)
=============================================================================
