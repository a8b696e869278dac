------------------------ MODULE ResumableTranslation ------------------------
(***************************************************************************)
(* The scripts that have the sources of an inventory translated batch by    *)
(* batch, and can be stopped and started again at any time:                  *)
(*   comments  translate-device-comments-resumable.py                        *)
(*   spans     translate-english-spans-resumable.py                          *)
(*   local     translate-local-device-comments.py, which writes an inventory  *)
(*             with the targets it found and runs the script of "comments"   *)
(* Sources are numbered in the order of the inventory.  Targets are classes   *)
(* of texts: Valid ones fit the PLC, Shorten is the deterministic            *)
(* abbreviation of too long ones.  The operator may edit the inputs at any    *)
(* time and starts the script again until everything is translated.           *)
(***************************************************************************)
EXTENDS Integers, FiniteSets

CONSTANTS
  NULL,
  Size,       \* number of sources
  Targets, Valid, Shorten,
  Kinds,      \* the scripts
  Reuses,     \* targets the inventory may bring along, per source
  Glossaries, \* targets the glossary, memory or seed maps may hold, per source
  BatchSize, MaxBatches,
  MaxEdits, MaxFaults  \* bounds: edits of the inputs; failed writes, kills, unfit answers

Sources == 1..Size
TargetMaps == [Sources -> Targets \cup {NULL}]
Nothing == [s \in Sources |-> NULL]

ASSUME SizeAssumption == Size \in Nat
ASSUME TargetAssumption ==
  /\ NULL \notin Targets /\ Valid \subseteq Targets /\ Shorten \in [Targets -> Targets]
  /\ Reuses \subseteq TargetMaps /\ Glossaries \subseteq TargetMaps
ASSUME KindAssumption == Kinds \subseteq {"comments", "spans", "local"}
\* What a file of translations holds.
FileType == [trans : [Sources -> Valid \cup {NULL}], hash : TargetMaps, total : Nat]

ASSUME NullAssumption == NULL \notin FileType /\ NULL \notin TargetMaps
ASSUME BatchAssumption == BatchSize \in Nat \ {0} /\ MaxBatches \in Nat \ {0}
ASSUME BoundAssumption == MaxEdits \in Nat /\ MaxFaults \in Nat

VARIABLES
  kind,      \* the script
  reuse,     \* the inventory's reuse_target of each source
  glossary,  \* the glossary; for "local" the seed maps, the first one winning
  enriched,  \* "local": the inventory file it wrote, NULL if absent or torn
  file,      \* the file of translations, or NULL
  temp,      \* the temporary file of an atomic write, or NULL
  pc,
  trans, total,                  \* translations and batches counted so far
  todo, batch, retry, attempt, results, runBatches,
  refused,   \* the last run was refused while loading
  edits, faults,
  edited     \* history: an input was edited since the last accepted run read it

inputs == <<kind, reuse, glossary>>
files == <<enriched, file, temp>>
progress == <<trans, total, todo, batch, retry, attempt, results, runBatches>>
vars == <<inputs, files, pc, progress, refused, edits, faults, edited>>

-----------------------------------------------------------------------------
(* What a run makes of its inputs. *)

Spend == faults < MaxFaults /\ faults' = faults + 1

Fit(t) == t \in Valid
Clean(t) == IF kind = "spans" THEN t ELSE Shorten[t]
Attempts == IF kind = "spans" THEN 1 ELSE 3

\* Unfit terms are dropped; the spans script refuses them instead.
Term(s) == IF Fit(glossary[s]) THEN glossary[s] ELSE NULL

FitTerms == [s \in Sources |-> Term(s)]

\* The inventory whose hash binds the file of translations.
Inventory == IF kind = "local" THEN enriched ELSE reuse

Seeds(s) ==
  IF kind = "local" THEN {enriched[s]} \ {NULL} ELSE {reuse[s], Term(s)} \ {NULL}

Stored == IF file = NULL THEN Nothing ELSE file.trans

Unreadable ==
  \/ Inventory = NULL
  \/ \E s \in Sources : kind # "local" /\ reuse[s] # NULL /\ ~Fit(reuse[s])
  \/ \E s \in Sources : kind = "spans" /\ glossary[s] # NULL /\ ~Fit(glossary[s])

Conflicting == \E s \in Sources : \E t, u \in Seeds(s) : t # u

Foreign ==
  file # NULL /\ (file.hash # Inventory \/ \E s \in Sources : Stored[s] # NULL /\ ~Fit(Stored[s]))

\* Mutant: a seed silently replaces a stored translation.
NeverSuperseded == FALSE

Superseded == \E s \in Sources : Stored[s] # NULL /\ \E t \in Seeds(s) : t # Stored[s]

Refusable == Unreadable \/ Conflicting \/ Foreign \/ Superseded

Known == [s \in Sources |-> IF Seeds(s) # {} THEN CHOOSE t \in Seeds(s) : TRUE ELSE Stored[s]]

\* The first sources of the pending ones.
FirstBatch == {s \in todo : Cardinality({r \in todo : r <= s}) <= BatchSize}

\* Mutant: the hash of the original inventory instead of the enriched one.
PayloadOfOriginal == [trans |-> trans, hash |-> reuse, total |-> total]

Payload == [trans |-> trans, hash |-> Inventory, total |-> total]

-----------------------------------------------------------------------------

Init ==
  /\ kind \in Kinds /\ reuse \in Reuses /\ glossary \in Glossaries
  /\ enriched = NULL /\ file = NULL /\ temp = NULL
  /\ pc = "idle" /\ trans = Nothing /\ total = 0
  /\ todo = {} /\ batch = {} /\ retry = {} /\ attempt = 1 /\ results = Nothing /\ runBatches = 0
  /\ refused = FALSE /\ edits = 0 /\ faults = 0 /\ edited = TRUE

Start ==
  /\ pc = "idle" /\ pc' = IF kind = "local" THEN "enrich" ELSE "load"
  /\ UNCHANGED <<inputs, files, progress, refused, edits, faults, edited>>

\* Written in place, and before anything reads it.
Enrich ==
  /\ pc = "enrich" /\ enriched' = FitTerms /\ pc' = "load"
  /\ UNCHANGED <<inputs, file, temp, progress, refused, edits, faults, edited>>

LoadRefused ==
  /\ pc = "load" /\ Refusable /\ refused' = TRUE /\ pc' = "idle"
  /\ UNCHANGED <<inputs, files, progress, edits, faults, edited>>

\* Mutant: an existing file is taken for a complete one.
LoadComplete ==
  /\ pc = "load" /\ ~Refusable /\ refused' = FALSE
  /\ edited' = (kind = "local" /\ enriched # FitTerms)
  /\ trans' = Known /\ total' = (IF file = NULL THEN 0 ELSE file.total)
  /\ todo' = (IF file = NULL THEN {s \in Sources : Known[s] = NULL} ELSE {}) /\ runBatches' = 0
  /\ pc' = "write"
  /\ UNCHANGED <<inputs, files, batch, retry, attempt, results, edits, faults>>

\* The script reads the inventory and then hashes it; here both see the same one.
Load ==
  /\ pc = "load" /\ ~Refusable /\ refused' = FALSE
  /\ edited' = (kind = "local" /\ enriched # FitTerms)
  /\ trans' = Known /\ total' = (IF file = NULL THEN 0 ELSE file.total)
  /\ todo' = {s \in Sources : Known[s] = NULL} /\ runBatches' = 0
  /\ pc' = "write"
  /\ UNCHANGED <<inputs, files, batch, retry, attempt, results, edits, faults>>

\* The hash is taken again from the inventory on the disk.
WriteTemp ==
  /\ pc = "write" /\ temp' = Payload /\ pc' = "replace"
  /\ UNCHANGED <<inputs, enriched, file, progress, refused, edits, faults, edited>>

Replace ==
  /\ pc = "replace" /\ file' = temp /\ temp' = NULL /\ pc' = "batch"
  /\ UNCHANGED <<inputs, enriched, progress, refused, edits, faults, edited>>

NextBatch ==
  /\ pc = "batch" /\ todo # {} /\ runBatches < MaxBatches
  /\ batch' = FirstBatch /\ retry' = FirstBatch /\ attempt' = 1 /\ results' = Nothing /\ pc' = "ask"
  /\ UNCHANGED <<inputs, files, trans, total, todo, runBatches, refused, edits, faults, edited>>

Finish ==
  /\ pc = "batch" /\ (todo = {} \/ runBatches = MaxBatches) /\ pc' = "idle"
  /\ UNCHANGED <<inputs, files, progress, refused, edits, faults, edited>>

\* Only the unfit answers are asked for again; after the last attempt the
\* answers of the whole batch are lost.
Answered(answers) ==
  LET unfit == {s \in retry : ~Fit(Clean(answers[s]))}
  IN /\ pc = "ask"
     /\ results' = [s \in Sources |-> IF s \in retry \ unfit THEN Clean(answers[s]) ELSE results[s]]
     /\ IF unfit = {} THEN pc' = "merge" /\ UNCHANGED <<retry, attempt, faults>>
        ELSE IF attempt = Attempts THEN pc' = "idle" /\ Spend /\ UNCHANGED <<retry, attempt>>
        ELSE pc' = "ask" /\ retry' = unfit /\ attempt' = attempt + 1 /\ Spend
     /\ UNCHANGED <<inputs, files, trans, total, todo, batch, runBatches, refused, edits, edited>>

\* A failed request; what was translated in this batch is lost.
ProviderFails ==
  /\ pc = "ask" /\ pc' = "idle"
  /\ UNCHANGED <<inputs, files, progress, refused, edits, faults, edited>>

Merge ==
  /\ pc = "merge"
  /\ IF \E s \in Sources : results[s] # NULL /\ trans[s] \notin {NULL, results[s]}
     THEN pc' = "idle" /\ UNCHANGED progress
     ELSE /\ trans' = [s \in Sources |-> IF results[s] # NULL THEN results[s] ELSE trans[s]]
          /\ total' = total + 1 /\ runBatches' = runBatches + 1 /\ todo' = todo \ batch
          /\ pc' = "write"
          /\ UNCHANGED <<batch, retry, attempt, results>>
  /\ UNCHANGED <<inputs, files, refused, edits, faults, edited>>

\* The temporary file is removed when the writing fails.
WriteFails ==
  /\ pc \in {"write", "replace"} /\ Spend /\ temp' = NULL /\ pc' = "idle"
  /\ UNCHANGED <<inputs, enriched, file, progress, refused, edits, edited>>

\* A temporary file left behind has its own name and is never read.
Kill ==
  /\ pc # "idle" /\ Spend /\ pc' = "idle" /\ temp' = NULL
  /\ enriched' \in IF pc = "enrich" THEN {enriched, NULL} ELSE {enriched}
  /\ UNCHANGED <<inputs, file, progress, refused, edits, edited>>

Edit ==
  /\ edits < MaxEdits /\ edits' = edits + 1 /\ edited' = TRUE
  /\ \/ reuse' \in Reuses /\ UNCHANGED glossary
     \/ glossary' \in Glossaries /\ UNCHANGED reuse
  /\ UNCHANGED <<kind, files, pc, progress, refused, faults>>

Steps == Start \/ Enrich \/ LoadRefused \/ Load \/ WriteTemp \/ Replace \/ NextBatch \/ Finish \/ Merge
Ask == \E answers \in [retry -> Targets] : Answered(answers)

Next == Steps \/ Ask \/ ProviderFails \/ WriteFails \/ Kill \/ Edit

Spec == Init /\ [][Next]_vars
-----------------------------------------------------------------------------
(* Properties. *)

\* Every variable has its type; only fit targets are in memory or on disk.
TypeOK ==
  /\ kind \in Kinds /\ reuse \in TargetMaps /\ glossary \in TargetMaps
  /\ enriched \in [Sources -> Valid \cup {NULL}] \cup {NULL}
  /\ file \in FileType \cup {NULL} /\ temp \in FileType \cup {NULL}
  /\ pc \in {"idle", "enrich", "load", "write", "replace", "batch", "ask", "merge"}
  /\ trans \in [Sources -> Valid \cup {NULL}] /\ results \in [Sources -> Valid \cup {NULL}]
  /\ total \in Nat /\ todo \subseteq Sources /\ batch \subseteq Sources /\ retry \subseteq Sources
  /\ attempt \in 1..3 /\ runBatches \in 0..MaxBatches
  /\ refused \in BOOLEAN /\ edits \in 0..MaxEdits /\ faults \in 0..MaxFaults /\ edited \in BOOLEAN

Ledger == INSTANCE TranslationLedger WITH stored <- Stored

\* The file only gains fit translations and never changes one, whatever fails,
\* is killed, answered or edited (_load_existing, the seed conflict check and
\* _atomic_write_json).
LedgerRefinement == Ledger!LedgerSpec

\* The model is asked only for sources the file has no translation of, and
\* again only for those it gave no fit answer to.
AskedOnlyMissing == pc = "ask" => \A s \in retry : Stored[s] = NULL /\ results[s] = NULL

\* Before the model is asked again, all it answered for earlier batches is on
\* the disk: a kill loses the open batch at most.
SavedBeforeAsking == pc = "ask" => file # NULL /\ file.trans = trans

\* A run is refused only if an input was edited since a run accepted them: a
\* file the script wrote, a torn inventory or a crash never stop a restart.
RefusedOnlyIfEdited == refused => edited

Complete == \A s \in Sources : Stored[s] # NULL
=============================================================================
