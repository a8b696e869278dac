-------------------------- MODULE TranslationStack --------------------------
(***************************************************************************)
(* The users of the model client put together with it: the resumable scripts *)
(* ("script"), the translation service ("service"), and the restoration of    *)
(* protected tokens as a function of a source and an answer ("tokens").        *)
(* A request of a script or of the service is an exchange of the client; its   *)
(* outcome decides whether the user is answered or the exception reaches it.   *)
(***************************************************************************)
EXTENDS ResumableTranslation, TranslationService, ModelClient, TokenProtection

CONSTANTS Users, SourceTexts, Proses

\* protect_tokens refuses a source that holds a marker.
ASSUME TextAssumption ==
  /\ SourceTexts \subseteq Seq(Symbols) /\ Proses \subseteq Seq(AnswerSymbols)
  /\ \A s \in SourceTexts : Len(Places(s)) <= Len(Markers)

VARIABLES user, text, answer

stack == <<user, text, answer>>
allVars == <<stack, vars, service, client>>

Failures == {"invalid", "failed", "no model"}

\* The answers to a source: prose in front of, between and behind its markers.
AnswersTo(source) ==
  LET tokens == Len(Places(source))
      woven(proses) ==
        LET upto[n \in 0..tokens] ==
              IF n = 0 THEN proses[0] ELSE Append(upto[n-1], Markers[n]) \o proses[n]
        IN upto[tokens]
  IN {woven(proses) : proses \in [0..tokens -> Proses]}

StackInit ==
  /\ user \in Users /\ Init /\ ServiceInit /\ ClientInit
  /\ IF user = "tokens" THEN text \in SourceTexts /\ answer \in AnswersTo(text)
     ELSE text = << >> /\ answer = << >>
  /\ user # "script" => kind = "comments" /\ reuse = Nothing /\ glossary = Nothing
  /\ user # "service" => terms = [t \in Texts |-> Unknown]
  /\ user = "tokens" => ~auto

\* The exchange of a waiting user.
Exchange ==
  /\ (user = "script" /\ pc = "ask") \/ (user = "service" /\ Asking)
  /\ Request \/ ClientNext
  /\ UNCHANGED <<stack, vars, service>>

Taken ==
  at = "idle" /\ outcome' = "none"
    /\ UNCHANGED <<auto, cache, at, refresh, candidates, tried, model, bare, refusals>>

\* A run is a process of its own with a new client.
NewClient ==
  /\ at' = "idle" /\ outcome' = "none" /\ cache' = << >> /\ tried' = {} /\ candidates' = << >>
  /\ refusals' = {} /\ refresh' = FALSE /\ bare' = FALSE /\ model' = Configured /\ UNCHANGED auto

ScriptAnswered ==
  user = "script" /\ outcome = "answered" /\ Ask /\ (IF pc' = "idle" THEN NewClient ELSE Taken)
ScriptFailed == user = "script" /\ outcome \in Failures /\ ProviderFails /\ NewClient

ScriptSteps ==
  /\ user = "script"
  /\ \/ (Steps \/ WriteFails \/ Edit) /\ (IF pc' = "idle" THEN NewClient ELSE UNCHANGED client)
     \/ ScriptAnswered
     \/ ScriptFailed
     \/ Kill /\ NewClient
  /\ UNCHANGED <<stack, service>>

ServiceSteps ==
  /\ user = "service"
  /\ \/ (Calls \/ Take \/ Collect) /\ UNCHANGED client
     \/ outcome = "answered" /\ ProviderAnswers /\ Taken
     \/ outcome \in Failures /\ ProviderRaises /\ Taken
  /\ UNCHANGED <<stack, vars>>

StackNext == Exchange \/ ScriptSteps \/ ServiceSteps

Progress == Exchange \/ ServiceSteps \/ ((Steps \/ ScriptAnswered \/ ScriptFailed) /\ ScriptSteps)

StackSpec == StackInit /\ [][StackNext]_allVars /\ WF_allVars(Progress)

-----------------------------------------------------------------------------
(* Properties. *)

\* Started again and again, a script ends with everything translated, unless
\* its inputs are refused again and again or the endpoint keeps failing.
ScriptCompletes ==
  user = "script" => <>[]Complete \/ []<>refused \/ []<>(outcome \in Failures)

\* For all short sources and answers: protecting loses nothing, and an answer with
\* the right markers is repaired unless a text between two tokens was left out
\* (protect_tokens, restore_tokens, separate_ and validate_protected_tokens).
TokensRepaired == user = "tokens" => ProtectionLossless(text) /\ SeparationRepairs(text, answer)
=============================================================================
