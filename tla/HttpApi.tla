------------------------------- MODULE HttpApi -------------------------------
(***************************************************************************)
(* The pure parts of the REST API and of its command line client: what a   *)
(* request must be like, which status and class an error gets, and the     *)
(* exit code the client makes of an answer.                                *)
(*                                                                         *)
(* A command is                                                            *)
(*   cmd      the subcommand; "ready" is the probe of an orchestrator      *)
(*   cli      it comes from the CLI, not from another HTTP client          *)
(*   id       "given", "none", "blank", "odd" (characters, or too long),   *)
(*            "number", or "keylike" for one that looks like an API key    *)
(*   wf       the workflow that a given id names                           *)
(*   actor    "none", "text", "blank", "odd" or "number"                   *)
(*   action   of an approval, perhaps "bogus"                              *)
(*   body     "object", "array" or "malformed"                             *)
(*   config   the CLI is given a configuration file                        *)
(***************************************************************************)
EXTENDS WorkflowTable

Mutating == {"initiate", "approve"}
ReadModels == {"status", "history", "timeline", "output"}

\* The commands about workflows of a set.
Asked(workflows) ==
  [cmd : Mutating \cup ReadModels \cup {"ready"}, cli : BOOLEAN,
   id : {"given", "none", "blank", "odd", "number", "keylike"}, wf : workflows,
   actor : {"none", "text", "blank", "odd", "number"},
   action : ApprovalAction \cup {"none", "bogus"},
   body : {"object", "array", "malformed"}, config : BOOLEAN]

\* _sanitize_string; a JSON number has no strip(): AttributeError.
Sanitize(text) ==
  CASE text \in {"none", "text", "given", "keylike"} -> "ok"
    [] text = "number"                              -> "raises"
    [] OTHER                                        -> "API_VALIDATION"

\* validate_initiate_body: no id at all is fine.
ValidateInitiate(c) ==
  IF Sanitize(c.id) # "ok" THEN Sanitize(c.id) ELSE Sanitize(c.actor)

\* validate_approval_body, then validate_workflow_id of the path.
ValidateApproval(c) ==
  IF c.action \notin ApprovalAction THEN "API_VALIDATION"
  ELSE IF Sanitize(c.actor) # "ok" THEN Sanitize(c.actor)
  ELSE Sanitize(c.id)

\* _json_body and the validation of the route: "ok", the class of the
\* ApiError, or "raises" for an exception no handler of the route catches.
ValidateRequest(c) ==
  IF c.cmd \in Mutating /\ c.body = "malformed" THEN "raises"
  ELSE IF c.cmd \in Mutating /\ c.body = "array" THEN "API_VALIDATION"
  ELSE CASE c.cmd = "initiate" -> ValidateInitiate(c)
         [] c.cmd = "approve"  -> ValidateApproval(c)
         [] c.cmd = "ready"    -> "ok"
         [] OTHER              -> Sanitize(c.id)

\* start_route_span with the id as an attribute refuses what it would have
\* to redact; initiate's span does not name the id, the engine's does.
RouteSpan(c) ==
  IF c.id = "keylike" /\ c.cmd \notin {"initiate", "ready"} THEN "raises" ELSE "ok"

\* _WORKFLOW_ERROR_HTTP_STATUS, and ApiError.http_status
HttpStatus(class) ==
  CASE class = "API_VALIDATION" -> 400
    [] class = "WF_NOT_FOUND"   -> 404
    [] class \in {"WF_CONFLICT", "WF_TERMINAL", "WF_INVALID_APPROVAL",
                  "WF_INVALID_TRANSITION"} -> 409
    [] class = "API_INTERNAL"   -> 500

\* _route_wrapper: an envelope, or the framework's bare 500.
Envelope(class) == [status |-> HttpStatus(class), class |-> class]
Bare500 == [status |-> 500, class |-> "none"]
Refusal(verdict) == IF verdict = "raises" THEN Bare500 ELSE Envelope(verdict)

Success(c) ==
  [status |-> IF c.cmd = "initiate" THEN 201 ELSE 200, class |-> "none"]

\* ReadinessAggregator.aggregate: every probe must be OK.
Readiness(ok) == [status |-> IF ok THEN 200 ELSE 503, class |-> "none"]

(***************************************************************************)
(* The client.                                                             *)
(***************************************************************************)
\* The checks of the parser and of InputValidator, with a usage error: an
\* initiate needs some field, and blank ones are none.
CliRefuses(c) ==
  \/ c.id \in {"odd", "number"} \/ c.actor \in {"odd", "number"}
  \/ c.id = "blank"
  \/ c.cmd = "initiate" /\ c.id = "none" /\ c.actor \in {"none", "blank"}
  \/ c.cmd # "initiate" /\ c.id = "none"
  \/ c.cmd = "approve" /\ (c.action \notin ApprovalAction \/ c.actor = "blank")

\* What it sends: blank fields of an initiate are left out.
Sent(c) == IF c.cli /\ c.actor = "blank" THEN [c EXCEPT !.actor = "none"] ELSE c

\* HttpTransport.request and DefaultApiClient._request, then DefaultCliApp:
\* an error answer is an ERROR with or without an envelope.
ExitCode(answer) == IF answer.status < 400 THEN "SUCCESS" ELSE "ERROR"
==============================================================================
