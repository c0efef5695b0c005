--------------------------- MODULE MCStageExecution ---------------------------
\* The stages with few answers of every kind.
EXTENDS StageExecution

Vendors ==
  [SELECT_TOPIC |-> "openai", GENERATE_SCENARIO |-> "anthropic", REVIEW_SCENARIO |-> "gemini"]

ReadOnly == [read |-> 2, connect |-> 0, total |-> 0]

SomeInjections ==
  {{}, {"FINJ_PRV_TIMEOUT", "FINJ_PRV_RATE"}, {"FINJ_PRV_ERROR", "FINJ_WKR_POST_AGENT"},
   {"FINJ_WKR_POST_AGENT"}}

Http(s) == [error |-> "http", status |-> s]
FeedErrors ==
  {Http(s) : s \in {304, 404, 408, 429, 500, 503}}
  \cup {[error |-> e, status |-> 0] : e \in {"timeout", "connection", "malformed"}}

Story(id, score, url, title) ==
  [error |-> "none", body |-> "object",
   item |-> [type |-> "story", deleted |-> FALSE, id |-> id, title |-> title, url |-> url,
             time |-> id, clean |-> TRUE, score |-> score, comments |-> 1]]
NoItem(error, body) == [error |-> error, body |-> body, item |-> [type |-> "none"]]
With(r, field, value) == [r EXCEPT !.item = [@ EXCEPT ![field] = value]]

Plain == Story(1, 1, "http", "text")
Items ==
  {Plain, Story(1, 2, "none", "text"), Story(2, 1, "other", "text"),
   Story(3, 1, "http", "mustache"),
   Story(3, 1, "raises", "text"), Story(3, 1, "bad", "text"), Story(3, 1, "http", "blank"),
   With(Plain, "deleted", TRUE), With(Plain, "type", "job"), With(Plain, "time", -1),
   With(Plain, "clean", FALSE),
   NoItem("none", "null"), NoItem("none", "malformed"), NoItem("timeout", "null"),
   NoItem("connection", "null"), NoItem("http", "malformed")}

Exc(name, sdk, status) == [name |-> name, sdk |-> sdk, status |-> status, schema |-> FALSE]
StatusErrors ==
  {Exc("InternalServerError", TRUE, s) : s \in {500, 502, 503, 504, 529}}
  \cup {Exc("APIStatusError", TRUE, s) : s \in {404, 408}}
  \cup {Exc("RateLimitError", TRUE, 429), Exc("AuthenticationError", TRUE, 401),
        Exc("PermissionDeniedError", TRUE, 403), Exc("BadRequestError", TRUE, 400),
        [Exc("BadRequestError", TRUE, 400) EXCEPT !.schema = TRUE],
        Exc("APITimeoutError", TRUE, 0), Exc("APIConnectionError", TRUE, 0),
        Exc("HTTPStatusError", FALSE, 408), Exc("AttributeError", FALSE, 0)}
GoogleErrors ==
  {Exc("ServerError", TRUE, s) : s \in {500, 502, 503, 504}}
  \cup {Exc("ClientError", TRUE, s) : s \in {400, 401, 403, 408, 429}}
  \cup {Exc(n, TRUE, 0) : n \in {"ReadTimeout", "ConnectError", "ServiceUnavailable",
                                 "ResourceExhausted", "Unauthenticated", "InvalidArgument",
                                 "AttributeError"}}
Raised == [openai |-> StatusErrors, kimi |-> StatusErrors, anthropic |-> StatusErrors,
           gemini |-> GoogleErrors]

Answered(outcome, panels, punchline, status) ==
  [form |-> "json", valid |-> TRUE, outcome |-> outcome, panels |-> panels,
   punchline |-> punchline, status |-> status, text |-> "plain"]
Mustached(a) == [a EXCEPT !.text = "mustache"]
Unusable ==
  {[Answered("-", 0, "-", "-") EXCEPT !.form = f] :
     f \in {"blank", "prose", "array", "huge", "deep", "overdeep"}}
  \cup {[Answered("-", 0, "-", "-") EXCEPT !.valid = FALSE]}
Answers ==
  [SELECT_TOPIC |-> Unusable \cup {Answered("topic_selected", 0, "-", "-"),
                                   Mustached(Answered("topic_selected", 0, "-", "-")),
                                   Answered("no_suitable_topic", 0, "-", "-")},
   GENERATE_SCENARIO |-> Unusable \cup {Answered("-", n, "text", "-") : n \in {0, 2, 3, 4, 5}}
                                  \cup {Answered("-", 3, "blank", "-"),
                                        Mustached(Answered("-", 3, "text", "-"))},
   REVIEW_SCENARIO |-> Unusable \cup {Answered("-", 0, "-", s) : s \in {"PASS", "REVISE", "MAYBE"}}]

Prompts == {"good", "missing", "large", "unreadable", "binary", "placeholder"}
==============================================================================
