----------------------------- MODULE ModelClient -----------------------------
(***************************************************************************)
(* OpenAICompatibleProvider: one request at a time to a chat model.  With    *)
(* the model "auto" it asks the endpoint which models it serves, remembers    *)
(* them, and goes on to the next one when a model is unknown or refuses the    *)
(* request; when all it remembers are used up it asks for the list again.      *)
(***************************************************************************)
EXTENDS Integers, Sequences, SequencesExt

CONSTANTS
  Models,     \* the configured one and those the endpoint serves
  Configured, \* the configured model, unless it is "auto"
  NonChat,    \* names that do not look like chat models
  Listings,   \* the lists the endpoint may give
  MaxListed   \* entries of a list that are looked at

ASSUME ModelAssumption == Configured \in Models /\ NonChat \subseteq Models /\ Listings \subseteq Seq(Models) /\ MaxListed \in Nat

VARIABLES
  auto,       \* the configured model is "auto"
  cache,      \* _candidate_models
  at,         \* "idle", "list", "next" or "post"
  refresh, candidates, tried, model,
  bare,       \* the request is sent without response_format
  outcome,    \* of the last request: "none", "answered", "invalid", "failed", "no model"
  refusals    \* history: models that refused this request, since the list was last taken

client == <<auto, cache, at, refresh, candidates, tried, model, bare, outcome, refusals>>

\* Entries beyond the limit are ignored, duplicates dropped, chat models first.
ParseModelIds(entries) ==
  LET looked == SubSeq(entries, 1, IF Len(entries) < MaxListed THEN Len(entries) ELSE MaxListed)
      fresh(found, m) == IF Contains(found, m) THEN found ELSE Append(found, m)
      discovered == FoldLeft(fresh, << >>, looked)
  IN SelectSeq(discovered, LAMBDA m : m \notin NonChat) \o SelectSeq(discovered, LAMBDA m : m \in NonChat)

ClientInit ==
  /\ auto \in BOOLEAN /\ cache = << >> /\ at = "idle"
  /\ refresh = FALSE /\ candidates = << >> /\ tried = {} /\ model = Configured /\ bare = FALSE
  /\ outcome = "none" /\ refusals = {}

Ends(result) == at' = "idle" /\ outcome' = result

Request ==
  /\ at = "idle" /\ outcome = "none"
  /\ tried' = {} /\ refresh' = FALSE /\ bare' = FALSE /\ refusals' = {}
  /\ candidates' = IF auto THEN cache ELSE << >>
  /\ at' = IF ~auto THEN "post" ELSE IF cache = << >> THEN "list" ELSE "next"
  /\ UNCHANGED <<auto, cache, model, outcome>>

\* GET /models.
List ==
  /\ at = "list"
  /\ \/ \E entries \in Listings :
          LET found == ParseModelIds(entries)
          IN IF found = << >> THEN Ends("failed") /\ UNCHANGED <<cache, candidates>>
             ELSE cache' = found /\ candidates' = found /\ at' = "next" /\ UNCHANGED outcome
     \/ Ends("failed") /\ UNCHANGED <<cache, candidates>>
  /\ UNCHANGED <<auto, refresh, tried, model, bare, refusals>>

\* The places of the candidates this request has not tried; the first one is next.
Untried == {i \in DOMAIN candidates : candidates[i] \notin tried}

TryNext ==
  /\ at = "next"
  /\ \E i \in Untried :
       (\A j \in Untried : i <= j) /\ model' = candidates[i] /\ tried' = tried \cup {candidates[i]}
  /\ bare' = FALSE /\ at' = "post"
  /\ UNCHANGED <<auto, cache, refresh, candidates, outcome, refusals>>

\* Mutant: what is remembered is taken for all there is.
GiveUpAtOnce ==
  /\ at = "next" /\ Untried = {} /\ Ends("no model")
  /\ UNCHANGED <<auto, cache, refresh, candidates, tried, model, bare, refusals>>

\* All remembered ones refused; after a fresh list nothing is left to try.
Exhausted ==
  /\ at = "next" /\ Untried = {}
  /\ IF refresh THEN Ends("no model") /\ UNCHANGED refresh
     ELSE at' = "list" /\ refresh' = TRUE /\ UNCHANGED outcome
  /\ UNCHANGED <<auto, cache, candidates, tried, model, bare, refusals>>

\* POST /chat/completions.  A model that answered is asked first from now on,
\* whether or not its answer has the records asked for.
Posted ==
  /\ at = "post"
  /\ \E result \in {"answered", "invalid"} : Ends(result)
  /\ cache' = IF auto THEN <<model>> \o SelectSeq(candidates, LAMBDA m : m # model) ELSE cache
  /\ UNCHANGED <<auto, refresh, candidates, tried, model, bare, refusals>>

\* 400 and 422: once more without the response format.
PostBare ==
  /\ at = "post" /\ ~bare /\ bare' = TRUE
  /\ UNCHANGED <<auto, cache, at, refresh, candidates, tried, model, outcome, refusals>>

\* 400 or 422 again, or 404.
Unsuited ==
  /\ at = "post" /\ refusals' = refusals \cup {model}
  /\ IF auto THEN at' = "next" /\ UNCHANGED outcome ELSE Ends("failed")
  /\ UNCHANGED <<auto, cache, refresh, candidates, tried, model, bare>>

\* Any other status, no connection, no JSON: the request may have been carried
\* out and is not sent again.
PostFails ==
  /\ at = "post" /\ Ends("failed")
  /\ UNCHANGED <<auto, cache, refresh, candidates, tried, model, bare, refusals>>

ClientNext == List \/ TryNext \/ Exhausted \/ Posted \/ PostBare \/ Unsuited \/ PostFails

-----------------------------------------------------------------------------
(* Properties. *)

\* "no responding chat model was found" is said only after every model of a
\* list taken during this request refused it: a model that was remembered and
\* is gone, or one served only lately, never lets a request fail so.
NoModelIsTruthful ==
  outcome = "no model" => refresh /\ \A i \in DOMAIN candidates : candidates[i] \in refusals
=============================================================================
