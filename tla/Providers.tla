------------------------------ MODULE Providers ------------------------------
(***************************************************************************)
(* The model providers: what a vendor's exception is taken for, how long a *)
(* call may take, and what BaseRemoteProvider.generate makes of both.      *)
(*                                                                         *)
(* An exception of a vendor's SDK is a record                              *)
(*   name     the name of its class                                        *)
(*   sdk      the class is the SDK's own                                   *)
(*   status   the HTTP status it carries, 0 without one                    *)
(*   schema   its message is about the response schema                     *)
(* and a failure signal has at most one flag, so `is' names it.            *)
(***************************************************************************)
EXTENDS Integers, Sequences

ProviderId == {"openai", "anthropic", "gemini", "kimi", "fake"}

\* A sequence of <<condition, value>>: the value of the first that holds.
First(rules) ==
  rules[CHOOSE i \in DOMAIN rules :
          rules[i][1] /\ \A j \in 1 .. i - 1 : ~ rules[j][1]][2]

Signal(is, status) == [is |-> is, status |-> status]

ExtractOpenAI(e) ==
  First(<<
    <<e.name = "APITimeoutError" \/ (e.sdk /\ e.status = 408), Signal("timeout", e.status)>>,
    <<e.name = "APIConnectionError",                         Signal("connection", 0)>>,
    <<e.name = "RateLimitError" \/ e.status = 429,           Signal("rate_limit", 429)>>,
    <<e.name = "AuthenticationError" \/ e.status = 401,      Signal("auth", 401)>>,
    <<e.name = "PermissionDeniedError" \/ e.status = 403,    Signal("auth", 403)>>,
    <<e.name = "BadRequestError" \/ e.status = 400,
      Signal(IF e.schema THEN "schema" ELSE "none", 400)>>,
    <<e.name = "APIStatusError" \/ (e.sdk /\ e.status # 0),
      Signal(IF e.status \in {502, 503, 504, 529} THEN "unavailable" ELSE "none", e.status)>>,
    <<e.status = 408,                                        Signal("timeout", 408)>>,
    <<TRUE,                                                  Signal("none", 0)>> >>)

ExtractAnthropic(e) ==
  First(<<
    <<e.name = "APITimeoutError" \/ (e.sdk /\ e.status = 408), Signal("timeout", e.status)>>,
    <<e.name = "APIConnectionError",                         Signal("connection", 0)>>,
    <<e.name = "RateLimitError" \/ e.status = 429,           Signal("rate_limit", 429)>>,
    <<e.name = "AuthenticationError" \/ e.status = 401,      Signal("auth", 401)>>,
    <<e.name = "PermissionDeniedError" \/ e.status = 403,    Signal("auth", 403)>>,
    <<e.name = "BadRequestError" \/ e.status = 400,
      Signal(IF e.schema THEN "schema" ELSE "none", 400)>>,
    <<e.name = "APIStatusError" \/ (e.sdk /\ e.status # 0),
      Signal(IF e.status \in {502, 503, 504} THEN "unavailable" ELSE "none", e.status)>>,
    <<e.status = 408,                                        Signal("timeout", 408)>>,
    <<TRUE,                                                  Signal("none", 0)>> >>)

\* By names first: the classes of google.api_core carry no status.
ExtractGemini(e) ==
  First(<<
    <<e.name \in {"DeadlineExceeded", "TimeoutError", "TimeoutException", "ReadTimeout"},
      Signal("timeout", 0)>>,
    <<e.name \in {"ServiceUnavailable", "Unavailable"},    Signal("unavailable", 0)>>,
    <<e.name = "ResourceExhausted",                        Signal("rate_limit", 0)>>,
    <<e.name \in {"Unauthenticated", "PermissionDenied"},  Signal("auth", 0)>>,
    <<e.name = "InvalidArgument",
      Signal(IF e.schema THEN "schema" ELSE "none", 0)>>,
    <<e.name \in {"TransportError", "ConnectError", "ConnectionError"},
      Signal("connection", 0)>>,
    <<e.name \in {"GoogleAPICallError", "APIError", "ClientError", "ServerError"}
        \/ (e.sdk /\ e.status # 0),
      Signal(CASE e.status = 408                -> "timeout"
               [] e.status = 429                -> "rate_limit"
               [] e.status \in {401, 403}       -> "auth"
               [] e.status \in {502, 503, 504}  -> "unavailable"
               [] OTHER                         -> "none", e.status)>>,
    <<TRUE,                                                Signal("none", 0)>> >>)

(***************************************************************************)
(* How the SDKs raise.  What is temporary has a class of its own or one of *)
(* the statuses; an SDK wraps what another library raises; a class of a    *)
(* permanent error carries no other status; and what is not the SDK's own  *)
(* has no status that its extractor would not look at.                     *)
(***************************************************************************)
TransientStatus == {408, 429, 502, 503, 504, 529}
OpenAITransient == {"APITimeoutError", "APIConnectionError", "RateLimitError"}
GoogleTransient ==
  {"DeadlineExceeded", "TimeoutError", "TimeoutException", "ReadTimeout", "ServiceUnavailable",
   "Unavailable", "ResourceExhausted", "TransportError", "ConnectError", "ConnectionError"}
PermanentClass ==
  {"AuthenticationError", "PermissionDeniedError", "BadRequestError",
   "Unauthenticated", "PermissionDenied", "InvalidArgument"}

SdkException(vendor, e) ==
  /\ e.sdk \in BOOLEAN /\ e.schema \in BOOLEAN /\ e.status \in Nat
  /\ e.name \in GoogleTransient => vendor = "gemini"
  /\ e.name \in OpenAITransient => vendor # "gemini"
  /\ e.name \in PermanentClass => e.status \notin TransientStatus
  /\ ~ e.sdk =>
       e.status \notin TransientStatus \ (IF vendor = "gemini" THEN {} ELSE {408, 429})

\* VendorErrorMapper._map_generic_http
MapGenericHttp(status) ==
  IF 500 <= status /\ status < 600 THEN "PRV_UNKNOWN" ELSE "PRV_ERROR"

\* Mutant: the status decides before the flags do.
MapStatusFirst(vendor, s) ==
  First(<<
    <<s.status # 0,                              MapGenericHttp(s.status)>>,
    <<s.is = "timeout",                          "PRV_TIMEOUT">>,
    <<s.is = "connection",                       "PRV_NETWORK">>,
    <<TRUE,                                      "PRV_UNKNOWN">> >>)

\* VendorErrorMapper.map_vendor_failure: the code of the ProviderError.
MapVendorFailure(vendor, s) ==
  First(<<
    <<s.is = "timeout" \/ s.status = 408,                      "PRV_TIMEOUT">>,
    <<s.is = "rate_limit" \/ s.status = 429,                   "PRV_RATE">>,
    <<s.is = "auth" \/ s.status \in {401, 403},                "PRV_AUTH">>,
    <<s.is = "unavailable" \/ s.status \in {502, 503, 504},    "PRV_UNAVAILABLE">>,
    <<s.is = "connection",                                     "PRV_NETWORK">>,
    <<s.is = "schema",                                         "PRV_SCHEMA">>,
    <<s.status = 529,
      IF vendor = "openai" THEN "PRV_UNAVAILABLE" ELSE "PRV_ERROR">>,
    <<s.status = 500,                                          "PRV_ERROR">>,
    <<s.status # 0,                                            MapGenericHttp(s.status)>>,
    <<TRUE,                                                    "PRV_UNKNOWN">> >>)

\* The classes of errors.py that are retryable.
RetryableProviderError == {"PRV_TIMEOUT", "PRV_RATE", "PRV_UNAVAILABLE", "PRV_NETWORK"}

ProviderError ==
  RetryableProviderError \cup
  {"PRV_AUTH", "PRV_ERROR", "PRV_SCHEMA", "PRV_UNKNOWN", "PRV_CONFIG"}

(***************************************************************************)
(* Time is counted in steps.  A timeout configuration has read, connect    *)
(* and total, the last two 0 where they are not given.                     *)
(***************************************************************************)
Least(a, b) == IF a <= b THEN a ELSE b

\* TimeoutContext.resolve_budget: the time from __enter__ to the deadline,
\* and what the vendor's client is told.
Budget(t) ==
  IF t.total # 0
  THEN [overall |-> t.total, connect |-> Least(t.connect, t.total), read |-> Least(t.read, t.total)]
  ELSE [overall |-> t.connect + t.read, connect |-> t.connect, read |-> t.read]

\* TimeoutContext.check_deadline
Exceeded(t, elapsed) == elapsed >= Budget(t).overall

\* The code of a failure signal, or what the answer is made into: no choices,
\* no parts or no text is empty content.
Result(vendor, reply, signal) ==
  IF reply.raised THEN [ok |-> FALSE, code |-> MapVendorFailure(vendor, signal)]
  ELSE [ok |-> TRUE, content |-> reply.content]

\* The transports.  Kimi is another service behind OpenAI's SDK.
CompleteOpenAI(reply) == Result("openai", reply, ExtractOpenAI(reply.exc))
CompleteKimi(reply) == Result("kimi", reply, ExtractOpenAI(reply.exc))
CompleteAnthropic(reply) == Result("anthropic", reply, ExtractAnthropic(reply.exc))
CompleteGemini(reply) == Result("gemini", reply, ExtractGemini(reply.exc))

Complete(vendor, reply) ==
  CASE vendor = "openai"    -> CompleteOpenAI(reply)
    [] vendor = "kimi"      -> CompleteKimi(reply)
    [] vendor = "anthropic" -> CompleteAnthropic(reply)
    [] vendor = "gemini"    -> CompleteGemini(reply)

\* The vendor phase of generate: a late answer is a timeout, a late error
\* is the error.
VendorPhase(vendor, t, reply, elapsed) ==
  LET result == Complete(vendor, reply)
  IN IF result.ok /\ Exceeded(t, elapsed)
     THEN [ok |-> FALSE, code |-> "PRV_TIMEOUT"]
     ELSE result

\* ClientRateLimiter.acquire of a limiter with the given tokens (a limit of
\* 0 is none): the tokens left, or -1 for PRV_RATE.
Acquire(limit, tokens) ==
  IF limit = 0 THEN tokens ELSE IF tokens >= 1 THEN tokens - 1 ELSE -1
==============================================================================
