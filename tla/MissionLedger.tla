--------------------------- MODULE MissionLedger ---------------------------
(***************************************************************************)
(* What a mission promises its operator: an input is intended once, taken   *)
(* by the desktop at most once and only after it was intended, reported as  *)
(* performed only when it was taken, and the goals are proven one by one.   *)
(* Nothing is said about turns, files, the network, failures or restarts.   *)
(***************************************************************************)
EXTENDS Naturals, Sequences

CONSTANTS
  Inputs,  \* what the desktop can be asked to do
  Goals    \* how many goals the mission has

VARIABLES
  intended,  \* inputs somebody has committed to
  taken,     \* inputs the desktop took, in order
  performed, \* inputs reported as performed
  proven     \* goals proven so far

ledgerVars == <<intended, taken, performed, proven>>

LedgerInit == intended = {} /\ taken = << >> /\ performed = {} /\ proven = 0

TakenAlready(i) == \E k \in 1..Len(taken) : taken[k] = i

\* Commit to an input, for the only time.
Commit(i) ==
  /\ i \notin intended
  /\ intended' = intended \cup {i}
  /\ UNCHANGED <<taken, performed, proven>>

\* The desktop takes an input somebody committed to, for the only time.
Take(i) ==
  /\ i \in intended /\ ~TakenAlready(i)
  /\ taken' = Append(taken, i)
  /\ UNCHANGED <<intended, performed, proven>>

\* Nothing is reported that the desktop did not take.
Report(i) ==
  /\ TakenAlready(i)
  /\ performed' = performed \cup {i}
  /\ UNCHANGED <<intended, taken, proven>>

\* The next goal is proven.
Prove ==
  /\ proven < Goals
  /\ proven' = proven + 1
  /\ UNCHANGED <<intended, taken, performed>>

LedgerNext == (\E i \in Inputs : Commit(i) \/ Take(i) \/ Report(i)) \/ Prove

LedgerSpec == LedgerInit /\ [][LedgerNext]_ledgerVars
=============================================================================
