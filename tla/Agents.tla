-------------------------------- MODULE Agents --------------------------------
(***************************************************************************)
(* The three agents: what an input, a prompt and a model's answer must be  *)
(* like for a run to end with an output, and the exception it ends with    *)
(* otherwise.  A rule table gives the code of the first rule that fires,   *)
(* or "ok".                                                                *)
(*                                                                         *)
(* An answer is                                                            *)
(*   form     "json" an object, perhaps in a fence; "blank"; "prose";      *)
(*            "array"; "huge" over the size limit; "deep" nested too far,  *)
(*            "overdeep" too far for the parser itself                     *)
(*   outcome, panels, punchline, status   the fields the stages look at    *)
(*   text     "mustache" if a text the next stage reads has {{...}} in it  *)
(*   valid    the rest of the stage's JSON schema                          *)
(***************************************************************************)
EXTENDS Providers

CONSTANTS
  MaxTopicCandidates,   \* MAX_TOPIC_CANDIDATES
  PanelMin, PanelMax    \* SCENARIO_PANEL_MIN, SCENARIO_PANEL_MAX

ASSUME AgentsAssumption ==
  /\ MaxTopicCandidates \in Nat \ {0}
  /\ PanelMin \in Nat \ {0} /\ PanelMax \in Nat /\ PanelMin <= PanelMax

Stage == {"COLLECT", "SELECT_TOPIC", "GENERATE_SCENARIO", "REVIEW_SCENARIO"}

\* InputValidator: candidates, the topic, or the scenario of the stage before.
ValidateInput(stage, input) ==
  CASE stage = "SELECT_TOPIC" ->
         IF Len(input) \in 1 .. MaxTopicCandidates THEN "ok" ELSE "AGT_INPUT"
    [] stage = "GENERATE_SCENARIO" ->
         IF input.outcome = "topic_selected" THEN "ok" ELSE "AGT_INPUT"
    [] stage = "REVIEW_SCENARIO" ->
         IF input.panels = 0 \/ input.punchline = "blank" THEN "AGT_INPUT" ELSE "ok"

(***************************************************************************)
(* PromptLoader.load.  A prompt file is "good", "missing", "large",        *)
(* "unreadable", "binary" (no UTF-8) or has an unknown "placeholder".  A   *)
(* text once read is served for its path and mtime, readable or not; hit   *)
(* is that text, or "none".                                                *)
(***************************************************************************)
LoadPrompt(file, hit) ==
  CASE file \in {"missing", "large"}           -> "AGT_PROMPT"
    [] file = "unreadable" /\ hit = "none"     -> "AGT_PROMPT"
    [] file = "binary"                         -> "UnicodeDecodeError"
    [] OTHER                                   -> "ok"

PromptText(file, hit) == IF file = "unreadable" THEN hit ELSE file

\* What a builder substitutes may itself look like a variable: a story's
\* title, or a text of the topic or the scenario that a model wrote.
Mustache(stage, input) ==
  IF stage = "SELECT_TOPIC" THEN \E i \in DOMAIN input : input[i].title = "mustache"
  ELSE input.text = "mustache"

\* MessageBuilder._substitute_mustache: whatever looks like a variable after
\* the substitution counts as an unresolved one.
Substitute(stage, input, text) ==
  IF text = "placeholder" \/ Mustache(stage, input) THEN "AGT_PROMPT" ELSE "ok"

\* BaseAgent._run_pipeline up to the call; the agent's configuration has
\* been validated and its provider built from it.
Prepare(stage, input, file, hit) ==
  First(<<
    <<ValidateInput(stage, input) # "ok",      ValidateInput(stage, input)>>,
    <<LoadPrompt(file, hit) # "ok",            LoadPrompt(file, hit)>>,
    <<TRUE,                     Substitute(stage, input, PromptText(file, hit))>> >>)

\* SchemaValidator.parse_provider_content: json.loads recurses, and nobody
\* maps what it raises when it cannot go deeper.
ParseContent(a) ==
  CASE a.form = "json"      -> "ok"
    [] a.form = "overdeep"  -> "RecursionError"
    [] OTHER                -> "AGT_OUTPUT"

\* validate_topic_output
ValidateTopic(a) ==
  IF a.valid /\ a.outcome \in {"topic_selected", "no_suitable_topic"} THEN "ok" ELSE "AGT_OUTPUT"

\* Mutant: an empty list of panels is a list of panels.
ValidateScenarioNoMin(a) ==
  IF a.valid /\ a.panels <= PanelMax THEN "ok" ELSE "AGT_OUTPUT"

\* validate_scenario_output: a punchline is any string.
ValidateScenario(a) ==
  IF a.valid /\ a.panels \in PanelMin .. PanelMax THEN "ok" ELSE "AGT_OUTPUT"

\* validate_critic_output
ValidateCritic(a) ==
  IF a.valid /\ a.status \in {"PASS", "REVISE"} THEN "ok" ELSE "AGT_OUTPUT"

\* parse_and_validate_output of the three agents.
ValidateOutput(stage, a) ==
  IF ParseContent(a) # "ok" THEN ParseContent(a)
  ELSE CASE stage = "SELECT_TOPIC"      -> ValidateTopic(a)
         [] stage = "GENERATE_SCENARIO" -> ValidateScenario(a)
         [] stage = "REVIEW_SCENARIO"   -> ValidateCritic(a)

\* RetryClassifier.classify_exception: nothing an agent says about its input,
\* its output or its prompt is retried, and no exception it does not know.
Retryable(code) ==
  code \in RetryableProviderError \cup {"COL_FETCH", "COL_TIMEOUT"}

\* The exceptions HandlerSupport.run_agent_stage catches, audits (inside the
\* transaction that they roll back) and raises again.  A provider that cannot
\* be built is found out before.
Audited(code) ==
  code \in (ProviderError \ {"PRV_CONFIG"}) \cup {"AGT_INPUT", "AGT_OUTPUT"}
==============================================================================
