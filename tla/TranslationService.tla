------------------------- MODULE TranslationService -------------------------
(***************************************************************************)
(* TranslationService: propose for one record, propose_batch for many, over  *)
(* a glossary and a memory that lives as long as the service.  An answer is   *)
(* of one of four classes for its source:                                    *)
(*   ok       no CJK text is left, the protected tokens are in place         *)
(*   cjk      CJK text is left                                               *)
(*   joined   the markers are right, the restored tokens stand wrong         *)
(*   markers  markers are missing, duplicated or reordered                   *)
(***************************************************************************)
EXTENDS Integers, Sequences, SequencesExt

CONSTANTS
  Texts,      \* source texts
  Plain,      \* those without CJK text
  Answers,    \* the classes
  Unknown,    \* no target is known
  Terms,      \* glossaries
  Batches,    \* sequences of records [id, text]
  GroupSize, MaxSegments,
  MaxCalls    \* bound: calls of the service

ASSUME ServiceAssumption ==
  /\ Plain \subseteq Texts /\ Answers \subseteq {"ok", "cjk", "joined", "markers"}
  /\ Terms \subseteq [Texts -> {"ok", "cjk", "joined", Unknown}]
  /\ \A b \in Batches : b \in Seq([id : Nat, text : Texts])
  /\ Unknown \notin {"ok", "cjk", "joined", "markers"}
  /\ GroupSize \in Nat \ {0} /\ MaxSegments \in Nat \ {0} /\ MaxCalls \in Nat

VARIABLES
  terms, memory,
  phase,      \* "idle", "single", "batch", "take", "retry", "segment" or "collect"
  records, queue, group, reply, segments,
  decisions,  \* what the last call returned; << >> if it raised
  calls,
  singles,    \* history: texts propose asked for
  answered    \* history: texts an answer was accepted for

service == <<terms, memory, phase, records, queue, group, reply, segments, decisions, calls, singles, answered>>

Lookup(t) == IF terms[t] # Unknown THEN terms[t] ELSE memory[t]
Remember(t, answer) == memory' = [memory EXCEPT ![t] = answer]
Decision(t) == [text |-> t, target |-> IF t \in Plain THEN "skipped" ELSE Lookup(t)]

ServiceInit ==
  /\ terms \in Terms /\ memory = [t \in Texts |-> Unknown] /\ phase = "idle"
  /\ records = << >> /\ queue = << >> /\ group = << >> /\ reply = [t \in Texts |-> "ok"] /\ segments = 0
  /\ decisions = << >> /\ calls = 0 /\ singles = {} /\ answered = {}

Called == phase = "idle" /\ calls < MaxCalls /\ calls' = calls + 1
Returned(list) == phase' = "idle" /\ decisions' = list
Raised == Returned(<< >>)

\* Mutant: what is known is returned without validation.
ProposeTrusting(t) ==
  /\ Called /\ records' = <<[id |-> 1, text |-> t]>>
  /\ IF t \in Plain \/ Lookup(t) # Unknown THEN Returned(<<Decision(t)>>) /\ UNCHANGED singles
     ELSE phase' = "single" /\ singles' = singles \cup {t} /\ UNCHANGED decisions
  /\ UNCHANGED <<terms, memory, queue, group, reply, segments, answered>>

Propose(t) ==
  /\ Called /\ records' = <<[id |-> 1, text |-> t]>>
  /\ IF t \in Plain \/ Lookup(t) = "ok" THEN Returned(<<Decision(t)>>) /\ UNCHANGED singles
     ELSE IF Lookup(t) # Unknown THEN Raised /\ UNCHANGED singles
     ELSE phase' = "single" /\ singles' = singles \cup {t} /\ UNCHANGED decisions
  /\ UNCHANGED <<terms, memory, queue, group, reply, segments, answered>>

\* Remembered before the tokens are validated.
SingleAnswered(answer) ==
  LET t == records[1].text
  IN /\ phase = "single"
     /\ IF answer \in {"ok", "joined"} THEN Remember(t, answer) ELSE UNCHANGED memory
     /\ IF answer = "ok"
        THEN Returned(<<[text |-> t, target |-> answer]>>) /\ answered' = answered \cup {t}
        ELSE Raised /\ UNCHANGED answered
     /\ UNCHANGED <<terms, records, queue, group, reply, segments, calls, singles>>

\* The first record of each text that must be asked for.
Open(b) ==
  {i \in DOMAIN b :
     b[i].text \notin Plain /\ Lookup(b[i].text) = Unknown /\ \A j \in 1..(i-1) : b[j].text # b[i].text}

\* queue holds their texts in the order of the records.
Enqueued(b) ==
  \E order \in [1..Cardinality(Open(b)) -> Open(b)] :
    /\ \A i, j \in DOMAIN order : i < j => order[i] < order[j]
    /\ queue' = [i \in DOMAIN order |-> b[order[i]].text]

\* A record id given twice, or a known target that does not fit.
Inadmissible(b) ==
  \/ \E i, j \in DOMAIN b : i # j /\ b[i].id = b[j].id
  \/ \E i \in DOMAIN b : b[i].text \notin Plain /\ Lookup(b[i].text) \notin {"ok", Unknown}

ProposeBatch(b) ==
  /\ Called /\ records' = b
  /\ IF Inadmissible(b) THEN Raised /\ UNCHANGED queue
     ELSE Enqueued(b) /\ phase' = (IF Open(b) = {} THEN "collect" ELSE "batch") /\ UNCHANGED decisions
  /\ UNCHANGED <<terms, memory, group, reply, segments, singles, answered>>

First(n, s) == SubSeq(s, 1, IF n < Len(s) THEN n ELSE Len(s))

BatchAnswered(answers) ==
  /\ phase = "batch" /\ phase' = "take" /\ reply' = answers
  /\ group' = First(GroupSize, queue) /\ queue' = SubSeq(queue, GroupSize + 1, Len(queue))
  /\ UNCHANGED <<terms, memory, records, segments, decisions, calls, singles, answered>>

\* Mutant: remembered first, as in propose.
AcceptUnvalidated(answer) ==
  IF answer # "markers"
  THEN /\ Remember(Head(group), answer) /\ answered' = answered \cup {Head(group)}
       /\ group' = Tail(group) /\ phase' = "take" /\ UNCHANGED decisions
  ELSE Raised /\ UNCHANGED <<memory, group, answered>>

\* The target of the group's first text, validated before it is remembered.
Accept(answer) ==
  IF answer = "ok"
  THEN /\ Remember(Head(group), answer) /\ answered' = answered \cup {Head(group)}
       /\ group' = Tail(group) /\ phase' = "take" /\ UNCHANGED decisions
  ELSE Raised /\ UNCHANGED <<memory, group, answered>>

Take ==
  /\ phase = "take"
  /\ IF group = << >>
     THEN phase' = (IF queue = << >> THEN "collect" ELSE "batch") /\ UNCHANGED <<memory, group, answered, decisions>>
     ELSE IF reply[Head(group)] = "markers"
          THEN phase' = "retry" /\ UNCHANGED <<memory, group, answered, decisions>>
          ELSE Accept(reply[Head(group)])
  /\ UNCHANGED <<terms, records, queue, reply, segments, calls, singles>>

\* Asked for alone, and when the markers are wrong again, piece by piece.
RetryAnswered(answer) ==
  /\ phase = "retry"
  /\ IF answer = "markers"
     THEN phase' = "segment" /\ segments' \in 1..MaxSegments /\ UNCHANGED <<memory, group, answered, decisions>>
     ELSE Accept(answer) /\ UNCHANGED segments
  /\ UNCHANGED <<terms, records, queue, reply, calls, singles>>

\* A piece with CJK text or a marker raises; pieces may be joined wrongly.
SegmentAnswered(answer) ==
  /\ phase = "segment"
  /\ IF answer \in {"cjk", "markers"} THEN Raised /\ UNCHANGED <<memory, group, answered, segments>>
     ELSE IF segments > 1 THEN segments' = segments - 1 /\ UNCHANGED <<memory, group, answered, phase, decisions>>
     ELSE Accept(answer) /\ UNCHANGED segments
  /\ UNCHANGED <<terms, records, queue, reply, calls, singles>>

Collect ==
  /\ phase = "collect"
  /\ Returned([i \in DOMAIN records |-> Decision(records[i].text)])
  /\ UNCHANGED <<terms, memory, records, queue, group, reply, segments, calls, singles, answered>>

Asking == phase \in {"single", "batch", "retry", "segment"}

\* Mutant: a call that raises drops what the service remembers.
ProviderRaisesForgetting ==
  /\ Asking /\ Raised /\ memory' = [t \in Texts |-> Unknown]
  /\ UNCHANGED <<terms, records, queue, group, reply, segments, calls, singles, answered>>

ProviderRaises ==
  /\ Asking /\ Raised
  /\ UNCHANGED <<terms, memory, records, queue, group, reply, segments, calls, singles, answered>>

Calls == (\E t \in Texts : Propose(t)) \/ (\E b \in Batches : ProposeBatch(b))

ProviderAnswers ==
  \/ \E a \in Answers : SingleAnswered(a) \/ RetryAnswered(a) \/ SegmentAnswered(a)
  \/ \E answers \in [Texts -> Answers] :
       (\A t \in Texts : ~Contains(First(GroupSize, queue), t) => answers[t] = "ok") /\ BatchAnswered(answers)

-----------------------------------------------------------------------------
(* Properties. *)

\* Whatever the provider, the glossary or a poisoned memory says, a call
\* returns a target only if it fits; only texts without CJK are skipped.
DecisionsFit ==
  \A i \in DOMAIN decisions :
    decisions[i].target = IF decisions[i].text \in Plain THEN "skipped" ELSE "ok"

\* A batch remembers only targets that fit: the entry that makes every later
\* call for its text raise comes from propose.
OnlyProposePoisons == \A t \in Texts : memory[t] \notin {"ok", Unknown} => t \in singles

\* The texts the request under way asks for.
AskedFor ==
  {t \in Texts :
     \/ phase = "single" /\ t = records[1].text
     \/ phase = "batch" /\ Contains(First(GroupSize, queue), t)
     \/ phase \in {"retry", "segment"} /\ t = Head(group)}

\* A text an answer was accepted for is never asked for again, by the same call
\* or a later one, whatever raised in between: neither the rest of a batch nor a
\* call that failed costs the answers that were paid for (service.py 128-157).
\* Nor does a batch hold a text twice.
NothingAskedTwice ==
  /\ AskedFor \cap answered = {}
  /\ \A i, j \in DOMAIN queue : i # j => queue[i] # queue[j]
=============================================================================
