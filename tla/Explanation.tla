-------------------------------- MODULE Explanation --------------------------------
(***************************************************************************)
(* POST /ui/api/findings/{id}/explain (api_finding_explain in app/web.py)  *)
(* for one finding: the stored text if there is one, else the answer of    *)
(* the model, which takes up to ollama_timeout seconds and is then stored. *)
(* The drawer asks once, and again after an error (renderDrawer in         *)
(* app/static/app.js).                                                     *)
(***************************************************************************)
CONSTANT Analysts    \* the users whose drawers show the finding

NoText == "none"

ASSUME ExplanationAssumption == NoText \notin Analysts

VARIABLES
  ai_explanation,  \* the column: the analyst whose request wrote it, or NoText
  drawer,          \* where each analyst's request is
  shown,           \* the text each analyst reads
  overlapped       \* two requests have asked the model at once

explainVars == <<ai_explanation, drawer, shown, overlapped>>

ExplainInit ==
  /\ ai_explanation = NoText
  /\ drawer = [a \in Analysts |-> "closed"]
  /\ shown = [a \in Analysts |-> NoText]
  /\ overlapped = FALSE

Cached(a) ==
  /\ drawer[a] = "closed" /\ ai_explanation # NoText
  /\ drawer' = [drawer EXCEPT ![a] = "explained"]
  /\ shown' = [shown EXCEPT ![a] = ai_explanation]
  /\ UNCHANGED <<ai_explanation, overlapped>>

(* The stored text is not looked at.                                         *)
MutToExplain == TRUE

(* if f.ai_explanation: the model is not called.                             *)
ToExplain == ai_explanation = NoText

AskModel(a) ==
  /\ drawer[a] = "closed" /\ ToExplain
  /\ drawer' = [drawer EXCEPT ![a] = "asking"]
  /\ overlapped' = (overlapped \/ \E b \in Analysts : drawer[b] = "asking")
  /\ UNCHANGED <<ai_explanation, shown>>

(* The answer is committed whatever the column holds by then.                *)
Explain(a) ==
  /\ drawer[a] = "asking"
  /\ drawer' = [drawer EXCEPT ![a] = "explained"]
  /\ ai_explanation' = a
  /\ shown' = [shown EXCEPT ![a] = a]
  /\ UNCHANGED overlapped

(* 502: the button asks again.                                               *)
ModelFails(a) ==
  /\ drawer[a] = "asking"
  /\ drawer' = [drawer EXCEPT ![a] = "closed"]
  /\ UNCHANGED <<ai_explanation, shown, overlapped>>

ExplainNext == \E a \in Analysts : Cached(a) \/ AskModel(a) \/ Explain(a) \/ ModelFails(a)

--------------------------------------------------------------------------------
ExplainTypeOK ==
  /\ ai_explanation \in Analysts \cup {NoText}
  /\ drawer \in [Analysts -> {"closed", "asking", "explained"}]
  /\ shown \in [Analysts -> Analysts \cup {NoText}]
  /\ overlapped \in BOOLEAN

(* "mise en cache (colonne ai_explanation) pour ne solliciter le LLM qu'une  *)
(* seule fois par finding" (web.py:853-854): all read the one stored text.   *)
ExplainedOnce == \A a \in Analysts : shown[a] \in {NoText, ai_explanation}

(* That holds unless two requests have asked the model at the same time: a   *)
(* failed call, or any number of later readers, never replaces what was read.*)
OneExplanation == overlapped \/ ExplainedOnce
================================================================================
