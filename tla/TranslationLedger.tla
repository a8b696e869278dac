-------------------------- MODULE TranslationLedger --------------------------
(***************************************************************************)
(* What a resumable translation promises whoever pays for the model's       *)
(* answers: the file of translations only grows, a translation in it never   *)
(* changes, and each one is fit for the PLC.                                 *)
(***************************************************************************)
CONSTANTS Sources, Valid, NULL

VARIABLE stored  \* what the file holds for each source, or NULL

LedgerInit == stored = [s \in Sources |-> NULL]

LedgerNext ==
  /\ stored' \in [Sources -> Valid \cup {NULL}]
  /\ \A s \in Sources : stored[s] # NULL => stored'[s] = stored[s]

LedgerSpec == LedgerInit /\ [][LedgerNext]_stored
=============================================================================
