----------------------------- MODULE ActionGate -----------------------------
(***************************************************************************)
(* What the worker promises the people who let it drive a desktop: only     *)
(* authorised requests act on the desktop, one at a time and each in one    *)
(* go, and the intent of each is on record before it acts.  Nothing is said *)
(* about threads, locks, files, failures or restarts.                       *)
(***************************************************************************)
EXTENDS Naturals, Sequences

CONSTANTS Requests, NULL

VARIABLES
  authorised, \* requests that may act, from the start
  intents,    \* requests whose intent is durably recorded
  active,     \* the request acting on the desktop, or NULL
  inputs      \* whose input the desktop took, in order

gateVars == <<authorised, intents, active, inputs>>

GateInit == authorised \subseteq Requests /\ intents = {} /\ active = NULL /\ inputs = << >>

\* Intents are only ever added; one that is never acted upon does no harm.
Record ==
  /\ intents \subseteq intents'
  /\ intents' \subseteq Requests
  /\ UNCHANGED <<authorised, active, inputs>>

\* An authorised and recorded request that has not acted yet begins to act.
Enter(r) ==
  /\ active = NULL
  /\ r \in authorised \cap intents
  /\ \A i \in 1..Len(inputs) : inputs[i] # r
  /\ active' = r
  /\ UNCHANGED <<authorised, intents, inputs>>

Input(r) ==
  /\ active = r
  /\ inputs' = Append(inputs, r)
  /\ active' \in {r, NULL}
  /\ UNCHANGED <<authorised, intents>>

\* The request stops acting; a restart may also harden records on the way.
Leave ==
  /\ active # NULL
  /\ active' = NULL
  /\ intents \subseteq intents'
  /\ intents' \subseteq Requests
  /\ UNCHANGED <<authorised, inputs>>

GateNext == Record \/ (\E r \in Requests : Enter(r) \/ Input(r)) \/ Leave

GateSpec == GateInit /\ [][GateNext]_gateVars
=============================================================================
