------------------------ MODULE StageExecutionProofs -------------------------
(***************************************************************************)
(* The stages for every configuration of timeouts, attempts, revisions and *)
(* injections, every answer of the news service and of the models, and     *)
(* every exception the SDKs raise.                                         *)
(***************************************************************************)
EXTENDS StageExecution, FiniteSetTheorems, TLAPS

\* The first rule that fires is the one before which none does.
LEMMA FirstIs ==
  ASSUME NEW r, NEW k \in Nat, DOMAIN r = 1 .. k, NEW n \in 1 .. k, r[n][1],
         \A j \in 1 .. n - 1 : ~ r[j][1]
  PROVE  First(r) = r[n][2]
  <1> DEFINE P(i) == r[i][1] /\ \A j \in 1 .. i - 1 : ~ r[j][1]
  <1>1. n \in DOMAIN r /\ P(n)
    OBVIOUS
  <1>2. \A i \in DOMAIN r : P(i) => i = n
    <2> TAKE i \in DOMAIN r
    <2>1. ~ (i < n /\ P(i))
      OBVIOUS
    <2>2. ~ (n < i /\ P(i))
      OBVIOUS
    <2> QED  BY <2>1, <2>2
  <1>3. (CHOOSE i \in DOMAIN r : P(i)) = n
    <2> HIDE DEF P
    <2> QED  BY <1>1, <1>2
  <1> QED  BY <1>3 DEF First

\* The tables have three to ten rules, the last of which fires always.
LEMMA FirstOf ==
  ASSUME NEW r, NEW k \in {3, 8, 9, 10}, DOMAIN r = 1 .. k, r[k][1]
  PROVE  First(r) = IF r[1][1] THEN r[1][2] ELSE IF r[2][1] THEN r[2][2]
               ELSE IF r[3][1] THEN r[3][2] ELSE IF r[4][1] THEN r[4][2]
               ELSE IF r[5][1] THEN r[5][2] ELSE IF r[6][1] THEN r[6][2]
               ELSE IF r[7][1] THEN r[7][2] ELSE IF r[8][1] THEN r[8][2]
               ELSE IF r[9][1] THEN r[9][2] ELSE r[10][2]
  <1>1. \A n \in 1 .. k : r[n][1] /\ (\A j \in 1 .. n - 1 : ~ r[j][1]) => First(r) = r[n][2]
    BY FirstIs
  <1>2. CASE k = 3   BY <1>1, <1>2
  <1>4. CASE k = 8   BY <1>1, <1>4
  <1>5. CASE k = 9   BY <1>1, <1>5
  <1>6. CASE k = 10  BY <1>1, <1>6
  <1> QED  BY <1>2, <1>4, <1>5, <1>6

------------------------------------------------------------------------------
\* The signals that VendorErrorMapper makes a retryable error of.
Recoverable(vendor, s) ==
  \/ s.is \in {"timeout", "rate_limit"} \/ s.status \in {408, 429}
  \/ /\ s.is # "auth" /\ s.status \notin {401, 403}
     /\ \/ s.is \in {"unavailable", "connection"} \/ s.status \in {502, 503, 504}
        \/ s.is # "schema" /\ s.status = 529 /\ vendor = "openai"

LEMMA MapperCodes ==
  ASSUME NEW vendor, NEW s, s.status \in Nat
  PROVE  /\ MapVendorFailure(vendor, s) \in ProviderError \ {"PRV_CONFIG"}
         /\ MapVendorFailure(vendor, s) \in RetryableProviderError <=> Recoverable(vendor, s)
  <1> DEFINE c1 == s.is = "timeout" \/ s.status = 408
             c2 == s.is = "rate_limit" \/ s.status = 429
             c3 == s.is = "auth" \/ s.status \in {401, 403}
             c4 == s.is = "unavailable" \/ s.status \in {502, 503, 504}
             c5 == s.is = "connection"
             c6 == s.is = "schema"
             c7 == s.status = 529
             c8 == s.status = 500
             c9 == s.status # 0
             v7 == IF vendor = "openai" THEN "PRV_UNAVAILABLE" ELSE "PRV_ERROR"
             v9 == MapGenericHttp(s.status)
             r == << <<c1, "PRV_TIMEOUT">>, <<c2, "PRV_RATE">>, <<c3, "PRV_AUTH">>,
                     <<c4, "PRV_UNAVAILABLE">>, <<c5, "PRV_NETWORK">>, <<c6, "PRV_SCHEMA">>,
                     <<c7, v7>>, <<c8, "PRV_ERROR">>, <<c9, v9>>, <<TRUE, "PRV_UNKNOWN">> >>
  <1>1. MapVendorFailure(vendor, s) = First(r)
    BY DEF MapVendorFailure
  <1> HIDE DEF c1, c2, c3, c4, c5, c6, c7, c8, c9, v7, v9
  <1>2. /\ DOMAIN r = 1 .. 10 /\ r[10][1] /\ (r[1][1] <=> c1) /\ (r[2][1] <=> c2)
        /\ (r[3][1] <=> c3) /\ (r[4][1] <=> c4) /\ (r[5][1] <=> c5) /\ (r[6][1] <=> c6)
        /\ (r[7][1] <=> c7) /\ (r[8][1] <=> c8) /\ (r[9][1] <=> c9)
    OBVIOUS
  <1>3. /\ r[1][2] = "PRV_TIMEOUT" /\ r[2][2] = "PRV_RATE" /\ r[3][2] = "PRV_AUTH"
        /\ r[4][2] = "PRV_UNAVAILABLE" /\ r[5][2] = "PRV_NETWORK" /\ r[6][2] = "PRV_SCHEMA"
        /\ r[7][2] = v7 /\ r[8][2] = "PRV_ERROR" /\ r[9][2] = v9 /\ r[10][2] = "PRV_UNKNOWN"
    OBVIOUS
  <1> HIDE DEF r
  <1>4. First(r) = IF c1 THEN "PRV_TIMEOUT" ELSE IF c2 THEN "PRV_RATE"
              ELSE IF c3 THEN "PRV_AUTH" ELSE IF c4 THEN "PRV_UNAVAILABLE"
              ELSE IF c5 THEN "PRV_NETWORK" ELSE IF c6 THEN "PRV_SCHEMA"
              ELSE IF c7 THEN v7 ELSE IF c8 THEN "PRV_ERROR"
              ELSE IF c9 THEN v9 ELSE "PRV_UNKNOWN"
    <2>1. First(r) = IF r[1][1] THEN r[1][2] ELSE IF r[2][1] THEN r[2][2]
                ELSE IF r[3][1] THEN r[3][2] ELSE IF r[4][1] THEN r[4][2]
                ELSE IF r[5][1] THEN r[5][2] ELSE IF r[6][1] THEN r[6][2]
                ELSE IF r[7][1] THEN r[7][2] ELSE IF r[8][1] THEN r[8][2]
                ELSE IF r[9][1] THEN r[9][2] ELSE r[10][2]
      BY <1>2, FirstOf
    <2> QED  BY <1>2, <1>3, <2>1
  <1>5. v9 \in {"PRV_UNKNOWN", "PRV_ERROR"}
    BY DEF v9, MapGenericHttp
  <1>6. MapVendorFailure(vendor, s) \in ProviderError \ {"PRV_CONFIG"}
    BY <1>1, <1>4, <1>5 DEF v7, ProviderError, RetryableProviderError
  <1>7. MapVendorFailure(vendor, s) \in RetryableProviderError <=>
          c1 \/ c2 \/ (~ c3 /\ (c4 \/ c5 \/ (~ c6 /\ c7 /\ vendor = "openai")))
    BY <1>1, <1>4, <1>5 DEF v7, RetryableProviderError
  <1> QED  BY <1>6, <1>7 DEF Recoverable, c1, c2, c3, c4, c5, c6, c7
------------------------------------------------------------------------------
\* The tables without their CHOOSE, one by one.
LEMMA OpenAIRules ==
  ASSUME NEW e
  PROVE  ExtractOpenAI(e) =
           IF e.name = "APITimeoutError" \/ (e.sdk /\ e.status = 408)
           THEN Signal("timeout", e.status)
           ELSE IF e.name = "APIConnectionError" THEN Signal("connection", 0)
           ELSE IF e.name = "RateLimitError" \/ e.status = 429 THEN Signal("rate_limit", 429)
           ELSE IF e.name = "AuthenticationError" \/ e.status = 401 THEN Signal("auth", 401)
           ELSE IF e.name = "PermissionDeniedError" \/ e.status = 403 THEN Signal("auth", 403)
           ELSE IF e.name = "BadRequestError" \/ e.status = 400
           THEN Signal(IF e.schema THEN "schema" ELSE "none", 400)
           ELSE IF e.name = "APIStatusError" \/ (e.sdk /\ e.status # 0)
           THEN Signal(IF e.status \in {502, 503, 504, 529} THEN "unavailable" ELSE "none",
                       e.status)
           ELSE IF e.status = 408 THEN Signal("timeout", 408)
           ELSE Signal("none", 0)
  <1> DEFINE c1 == e.name = "APITimeoutError" \/ (e.sdk /\ e.status = 408)
             c2 == e.name = "APIConnectionError"
             c3 == e.name = "RateLimitError" \/ e.status = 429
             c4 == e.name = "AuthenticationError" \/ e.status = 401
             c5 == e.name = "PermissionDeniedError" \/ e.status = 403
             c6 == e.name = "BadRequestError" \/ e.status = 400
             c7 == e.name = "APIStatusError" \/ (e.sdk /\ e.status # 0)
             c8 == e.status = 408
             v1 == Signal("timeout", e.status)
             v2 == Signal("connection", 0)
             v3 == Signal("rate_limit", 429)
             v4 == Signal("auth", 401)
             v5 == Signal("auth", 403)
             v6 == Signal(IF e.schema THEN "schema" ELSE "none", 400)
             v7 == Signal(IF e.status \in {502, 503, 504, 529} THEN "unavailable" ELSE "none",
                          e.status)
             v8 == Signal("timeout", 408)
             v9 == Signal("none", 0)
             r == << <<c1, v1>>, <<c2, v2>>, <<c3, v3>>, <<c4, v4>>, <<c5, v5>>,
                     <<c6, v6>>, <<c7, v7>>, <<c8, v8>>, <<TRUE, v9>> >>
  <1>1. ExtractOpenAI(e) = First(r)
    BY DEF ExtractOpenAI
  <1> HIDE DEF c1, c2, c3, c4, c5, c6, c7, c8
  <1> HIDE DEF v1, v2, v3, v4, v5, v6, v7, v8, v9
  <1>2. /\ DOMAIN r = 1 .. 9 /\ r[9][1] /\ (r[1][1] <=> c1) /\ (r[2][1] <=> c2)
        /\ (r[3][1] <=> c3) /\ (r[4][1] <=> c4) /\ (r[5][1] <=> c5)
        /\ (r[6][1] <=> c6) /\ (r[7][1] <=> c7) /\ (r[8][1] <=> c8)
    OBVIOUS
  <1>3. /\ r[1][2] = v1 /\ r[2][2] = v2 /\ r[3][2] = v3 /\ r[4][2] = v4
        /\ r[5][2] = v5 /\ r[6][2] = v6 /\ r[7][2] = v7 /\ r[8][2] = v8
        /\ r[9][2] = v9
    OBVIOUS
  <1> HIDE DEF r
  <1> QED
    <2>1. First(r) = IF r[1][1] THEN r[1][2] ELSE IF r[2][1] THEN r[2][2] ELSE
                IF r[3][1] THEN r[3][2] ELSE IF r[4][1] THEN r[4][2] ELSE
                IF r[5][1] THEN r[5][2] ELSE IF r[6][1] THEN r[6][2] ELSE
                IF r[7][1] THEN r[7][2] ELSE IF r[8][1] THEN r[8][2] ELSE
                IF r[9][1] THEN r[9][2] ELSE r[10][2]
      BY <1>2, FirstOf
    <2>2. First(r) = IF c1 THEN v1 ELSE IF c2 THEN v2 ELSE IF c3 THEN v3 ELSE
                IF c4 THEN v4 ELSE IF c5 THEN v5 ELSE IF c6 THEN v6 ELSE
                IF c7 THEN v7 ELSE IF c8 THEN v8 ELSE v9
      BY <1>2, <1>3, <2>1
    <2> QED  BY <1>1, <2>2 DEF c1, c2, c3, c4, c5, c6, c7, c8,
               v1, v2, v3, v4, v5, v6, v7, v8, v9

\* As OpenAI's, but for a status of 529.
LEMMA AnthropicRules ==
  ASSUME NEW e
  PROVE  ExtractAnthropic(e) =
           IF e.name = "APITimeoutError" \/ (e.sdk /\ e.status = 408)
           THEN Signal("timeout", e.status)
           ELSE IF e.name = "APIConnectionError" THEN Signal("connection", 0)
           ELSE IF e.name = "RateLimitError" \/ e.status = 429 THEN Signal("rate_limit", 429)
           ELSE IF e.name = "AuthenticationError" \/ e.status = 401 THEN Signal("auth", 401)
           ELSE IF e.name = "PermissionDeniedError" \/ e.status = 403 THEN Signal("auth", 403)
           ELSE IF e.name = "BadRequestError" \/ e.status = 400
           THEN Signal(IF e.schema THEN "schema" ELSE "none", 400)
           ELSE IF e.name = "APIStatusError" \/ (e.sdk /\ e.status # 0)
           THEN Signal(IF e.status \in {502, 503, 504} THEN "unavailable" ELSE "none", e.status)
           ELSE IF e.status = 408 THEN Signal("timeout", 408)
           ELSE Signal("none", 0)
  <1> DEFINE c1 == e.name = "APITimeoutError" \/ (e.sdk /\ e.status = 408)
             c2 == e.name = "APIConnectionError"
             c3 == e.name = "RateLimitError" \/ e.status = 429
             c4 == e.name = "AuthenticationError" \/ e.status = 401
             c5 == e.name = "PermissionDeniedError" \/ e.status = 403
             c6 == e.name = "BadRequestError" \/ e.status = 400
             c7 == e.name = "APIStatusError" \/ (e.sdk /\ e.status # 0)
             c8 == e.status = 408
             v1 == Signal("timeout", e.status)
             v2 == Signal("connection", 0)
             v3 == Signal("rate_limit", 429)
             v4 == Signal("auth", 401)
             v5 == Signal("auth", 403)
             v6 == Signal(IF e.schema THEN "schema" ELSE "none", 400)
             v7 == Signal(IF e.status \in {502, 503, 504} THEN "unavailable" ELSE "none", e.status)
             v8 == Signal("timeout", 408)
             v9 == Signal("none", 0)
             r == << <<c1, v1>>, <<c2, v2>>, <<c3, v3>>, <<c4, v4>>, <<c5, v5>>,
                     <<c6, v6>>, <<c7, v7>>, <<c8, v8>>, <<TRUE, v9>> >>
  <1>1. ExtractAnthropic(e) = First(r)
    BY DEF ExtractAnthropic
  <1> HIDE DEF c1, c2, c3, c4, c5, c6, c7, c8
  <1> HIDE DEF v1, v2, v3, v4, v5, v6, v7, v8, v9
  <1>2. /\ DOMAIN r = 1 .. 9 /\ r[9][1] /\ (r[1][1] <=> c1) /\ (r[2][1] <=> c2)
        /\ (r[3][1] <=> c3) /\ (r[4][1] <=> c4) /\ (r[5][1] <=> c5)
        /\ (r[6][1] <=> c6) /\ (r[7][1] <=> c7) /\ (r[8][1] <=> c8)
    OBVIOUS
  <1>3. /\ r[1][2] = v1 /\ r[2][2] = v2 /\ r[3][2] = v3 /\ r[4][2] = v4
        /\ r[5][2] = v5 /\ r[6][2] = v6 /\ r[7][2] = v7 /\ r[8][2] = v8
        /\ r[9][2] = v9
    OBVIOUS
  <1> HIDE DEF r
  <1> QED
    <2>1. First(r) = IF r[1][1] THEN r[1][2] ELSE IF r[2][1] THEN r[2][2] ELSE
                IF r[3][1] THEN r[3][2] ELSE IF r[4][1] THEN r[4][2] ELSE
                IF r[5][1] THEN r[5][2] ELSE IF r[6][1] THEN r[6][2] ELSE
                IF r[7][1] THEN r[7][2] ELSE IF r[8][1] THEN r[8][2] ELSE
                IF r[9][1] THEN r[9][2] ELSE r[10][2]
      BY <1>2, FirstOf
    <2>2. First(r) = IF c1 THEN v1 ELSE IF c2 THEN v2 ELSE IF c3 THEN v3 ELSE
                IF c4 THEN v4 ELSE IF c5 THEN v5 ELSE IF c6 THEN v6 ELSE
                IF c7 THEN v7 ELSE IF c8 THEN v8 ELSE v9
      BY <1>2, <1>3, <2>1
    <2> QED  BY <1>1, <2>2 DEF c1, c2, c3, c4, c5, c6, c7, c8,
               v1, v2, v3, v4, v5, v6, v7, v8, v9

\* By names first.
LEMMA GeminiRules ==
  ASSUME NEW e
  PROVE  ExtractGemini(e) =
           IF e.name \in {"DeadlineExceeded", "TimeoutError", "TimeoutException", "ReadTimeout"}
           THEN Signal("timeout", 0)
           ELSE IF e.name \in {"ServiceUnavailable", "Unavailable"}
           THEN Signal("unavailable", 0)
           ELSE IF e.name = "ResourceExhausted" THEN Signal("rate_limit", 0)
           ELSE IF e.name \in {"Unauthenticated", "PermissionDenied"} THEN Signal("auth", 0)
           ELSE IF e.name = "InvalidArgument"
           THEN Signal(IF e.schema THEN "schema" ELSE "none", 0)
           ELSE IF e.name \in {"TransportError", "ConnectError", "ConnectionError"}
           THEN Signal("connection", 0)
           ELSE IF e.name \in {"GoogleAPICallError", "APIError", "ClientError", "ServerError"}
                     \/ (e.sdk /\ e.status # 0)
           THEN Signal(CASE e.status = 408                -> "timeout"
                            [] e.status = 429                -> "rate_limit"
                            [] e.status \in {401, 403}       -> "auth"
                            [] e.status \in {502, 503, 504}  -> "unavailable"
                            [] OTHER                         -> "none", e.status)
           ELSE Signal("none", 0)
  <1> DEFINE c1 == e.name \in {"DeadlineExceeded", "TimeoutError", "TimeoutException",
                                "ReadTimeout"}
             c2 == e.name \in {"ServiceUnavailable", "Unavailable"}
             c3 == e.name = "ResourceExhausted"
             c4 == e.name \in {"Unauthenticated", "PermissionDenied"}
             c5 == e.name = "InvalidArgument"
             c6 == e.name \in {"TransportError", "ConnectError", "ConnectionError"}
             c7 == e.name \in {"GoogleAPICallError", "APIError", "ClientError", "ServerError"}
                     \/ (e.sdk /\ e.status # 0)
             v1 == Signal("timeout", 0)
             v2 == Signal("unavailable", 0)
             v3 == Signal("rate_limit", 0)
             v4 == Signal("auth", 0)
             v5 == Signal(IF e.schema THEN "schema" ELSE "none", 0)
             v6 == Signal("connection", 0)
             v7 == Signal(CASE e.status = 408                -> "timeout"
                            [] e.status = 429                -> "rate_limit"
                            [] e.status \in {401, 403}       -> "auth"
                            [] e.status \in {502, 503, 504}  -> "unavailable"
                            [] OTHER                         -> "none", e.status)
             v8 == Signal("none", 0)
             r == << <<c1, v1>>, <<c2, v2>>, <<c3, v3>>, <<c4, v4>>, <<c5, v5>>,
                     <<c6, v6>>, <<c7, v7>>, <<TRUE, v8>> >>
  <1>1. ExtractGemini(e) = First(r)
    BY DEF ExtractGemini
  <1> HIDE DEF c1, c2, c3, c4, c5, c6, c7
  <1> HIDE DEF v1, v2, v3, v4, v5, v6, v7, v8
  <1>2. /\ DOMAIN r = 1 .. 8 /\ r[8][1] /\ (r[1][1] <=> c1) /\ (r[2][1] <=> c2)
        /\ (r[3][1] <=> c3) /\ (r[4][1] <=> c4) /\ (r[5][1] <=> c5)
        /\ (r[6][1] <=> c6) /\ (r[7][1] <=> c7)
    OBVIOUS
  <1>3. /\ r[1][2] = v1 /\ r[2][2] = v2 /\ r[3][2] = v3 /\ r[4][2] = v4
        /\ r[5][2] = v5 /\ r[6][2] = v6 /\ r[7][2] = v7 /\ r[8][2] = v8
    OBVIOUS
  <1> HIDE DEF r
  <1> QED
    <2>1. First(r) = IF r[1][1] THEN r[1][2] ELSE IF r[2][1] THEN r[2][2] ELSE
                IF r[3][1] THEN r[3][2] ELSE IF r[4][1] THEN r[4][2] ELSE
                IF r[5][1] THEN r[5][2] ELSE IF r[6][1] THEN r[6][2] ELSE
                IF r[7][1] THEN r[7][2] ELSE IF r[8][1] THEN r[8][2] ELSE
                IF r[9][1] THEN r[9][2] ELSE r[10][2]
      BY <1>2, FirstOf
    <2>2. First(r) = IF c1 THEN v1 ELSE IF c2 THEN v2 ELSE IF c3 THEN v3 ELSE
                IF c4 THEN v4 ELSE IF c5 THEN v5 ELSE IF c6 THEN v6 ELSE
                IF c7 THEN v7 ELSE v8
      BY <1>2, <1>3, <2>1
    <2> QED  BY <1>1, <2>2 DEF c1, c2, c3, c4, c5, c6, c7,
               v1, v2, v3, v4, v5, v6, v7, v8

\* A run up to its call.
LEMMA PrepareRules ==
  ASSUME NEW s, NEW input, NEW file, NEW hit
  PROVE  Prepare(s, input, file, hit) =
           IF ValidateInput(s, input) # "ok" THEN ValidateInput(s, input)
           ELSE IF LoadPrompt(file, hit) # "ok" THEN LoadPrompt(file, hit)
           ELSE Substitute(s, input, PromptText(file, hit))
  <1> DEFINE c1 == ValidateInput(s, input) # "ok"
             c2 == LoadPrompt(file, hit) # "ok"
             v1 == ValidateInput(s, input)
             v2 == LoadPrompt(file, hit)
             v3 == Substitute(s, input, PromptText(file, hit))
             r == << <<c1, v1>>, <<c2, v2>>, <<TRUE, v3>> >>
  <1>1. Prepare(s, input, file, hit) = First(r)
    BY DEF Prepare
  <1> HIDE DEF c1, c2
  <1> HIDE DEF v1, v2, v3
  <1>2. /\ DOMAIN r = 1 .. 3 /\ r[3][1] /\ (r[1][1] <=> c1) /\ (r[2][1] <=> c2)
    OBVIOUS
  <1>3. /\ r[1][2] = v1 /\ r[2][2] = v2 /\ r[3][2] = v3
    OBVIOUS
  <1> HIDE DEF r
  <1> QED
    <2>1. First(r) = IF r[1][1] THEN r[1][2] ELSE IF r[2][1] THEN r[2][2] ELSE
                IF r[3][1] THEN r[3][2] ELSE IF r[4][1] THEN r[4][2] ELSE
                IF r[5][1] THEN r[5][2] ELSE IF r[6][1] THEN r[6][2] ELSE
                IF r[7][1] THEN r[7][2] ELSE IF r[8][1] THEN r[8][2] ELSE
                IF r[9][1] THEN r[9][2] ELSE r[10][2]
      BY <1>2, FirstOf
    <2>2. First(r) = IF c1 THEN v1 ELSE IF c2 THEN v2 ELSE v3
      BY <1>2, <1>3, <2>1
    <2> QED  BY <1>1, <2>2 DEF c1, c2,
               v1, v2, v3

\* What StageExecution's Temporary says of an exception.
TemporaryException(vendor, e) ==
  \/ e.name \in OpenAITransient \cup GoogleTransient
  \/ e.status \in TransientStatus \ {529}
  \/ e.status = 529 /\ vendor \in {"openai", "kimi"}

\* Every extractor tells the mapper of what is temporary, and of nothing else.
LEMMA OpenAISignals ==
  ASSUME NEW vendor \in {"openai", "kimi"}, NEW e, SdkException(vendor, e)
  PROVE  /\ ExtractOpenAI(e).status \in Nat
         /\ Recoverable(vendor, ExtractOpenAI(e)) <=> TemporaryException(vendor, e)
  <1> DEFINE s == ExtractOpenAI(e)
  <1>1. s = IF e.name = "APITimeoutError" \/ (e.sdk /\ e.status = 408)
            THEN Signal("timeout", e.status)
            ELSE IF e.name = "APIConnectionError" THEN Signal("connection", 0)
            ELSE IF e.name = "RateLimitError" \/ e.status = 429 THEN Signal("rate_limit", 429)
            ELSE IF e.name = "AuthenticationError" \/ e.status = 401 THEN Signal("auth", 401)
            ELSE IF e.name = "PermissionDeniedError" \/ e.status = 403 THEN Signal("auth", 403)
            ELSE IF e.name = "BadRequestError" \/ e.status = 400
            THEN Signal(IF e.schema THEN "schema" ELSE "none", 400)
            ELSE IF e.name = "APIStatusError" \/ (e.sdk /\ e.status # 0)
            THEN Signal(IF e.status \in {502, 503, 504, 529} THEN "unavailable" ELSE "none",
                        e.status)
            ELSE IF e.status = 408 THEN Signal("timeout", 408)
            ELSE Signal("none", 0)
    BY OpenAIRules
  <1> HIDE DEF s
  <1>2. s.status \in Nat
    BY <1>1 DEF Signal, SdkException
  <1>3. Recoverable(vendor, s) <=> TemporaryException(vendor, e)
    BY <1>1 DEF Signal, SdkException, Recoverable, TemporaryException, TransientStatus,
                OpenAITransient, GoogleTransient, PermanentClass
  <1> QED  BY <1>2, <1>3 DEF s

\* As before, for Anthropic's extractor.
LEMMA AnthropicSignals ==
  ASSUME NEW e, SdkException("anthropic", e)
  PROVE  /\ ExtractAnthropic(e).status \in Nat
         /\ Recoverable("anthropic", ExtractAnthropic(e)) <=> TemporaryException("anthropic", e)
  <1> DEFINE s == ExtractAnthropic(e)
  <1>1. s = IF e.name = "APITimeoutError" \/ (e.sdk /\ e.status = 408)
            THEN Signal("timeout", e.status)
            ELSE IF e.name = "APIConnectionError" THEN Signal("connection", 0)
            ELSE IF e.name = "RateLimitError" \/ e.status = 429 THEN Signal("rate_limit", 429)
            ELSE IF e.name = "AuthenticationError" \/ e.status = 401 THEN Signal("auth", 401)
            ELSE IF e.name = "PermissionDeniedError" \/ e.status = 403 THEN Signal("auth", 403)
            ELSE IF e.name = "BadRequestError" \/ e.status = 400
            THEN Signal(IF e.schema THEN "schema" ELSE "none", 400)
            ELSE IF e.name = "APIStatusError" \/ (e.sdk /\ e.status # 0)
            THEN Signal(IF e.status \in {502, 503, 504} THEN "unavailable" ELSE "none", e.status)
            ELSE IF e.status = 408 THEN Signal("timeout", 408)
            ELSE Signal("none", 0)
    BY AnthropicRules
  <1> HIDE DEF s
  <1>2. s.status \in Nat
    BY <1>1 DEF Signal, SdkException
  <1>3. Recoverable("anthropic", s) <=> TemporaryException("anthropic", e)
    BY <1>1 DEF Signal, SdkException, Recoverable, TemporaryException, TransientStatus,
                OpenAITransient, GoogleTransient, PermanentClass
  <1> QED  BY <1>2, <1>3 DEF s

\* As before, for Gemini's extractor.
LEMMA GeminiSignals ==
  ASSUME NEW e, SdkException("gemini", e)
  PROVE  /\ ExtractGemini(e).status \in Nat
         /\ Recoverable("gemini", ExtractGemini(e)) <=> TemporaryException("gemini", e)
  <1> DEFINE s == ExtractGemini(e)
             flag == CASE e.status = 408                -> "timeout"
                       [] e.status = 429                -> "rate_limit"
                       [] e.status \in {401, 403}       -> "auth"
                       [] e.status \in {502, 503, 504}  -> "unavailable"
                       [] OTHER                         -> "none"
  <1>1. s = IF e.name \in {"DeadlineExceeded", "TimeoutError", "TimeoutException", "ReadTimeout"}
            THEN Signal("timeout", 0)
            ELSE IF e.name \in {"ServiceUnavailable", "Unavailable"} THEN Signal("unavailable", 0)
            ELSE IF e.name = "ResourceExhausted" THEN Signal("rate_limit", 0)
            ELSE IF e.name \in {"Unauthenticated", "PermissionDenied"} THEN Signal("auth", 0)
            ELSE IF e.name = "InvalidArgument"
            THEN Signal(IF e.schema THEN "schema" ELSE "none", 0)
            ELSE IF e.name \in {"TransportError", "ConnectError", "ConnectionError"}
            THEN Signal("connection", 0)
            ELSE IF e.name \in {"GoogleAPICallError", "APIError", "ClientError", "ServerError"}
                      \/ (e.sdk /\ e.status # 0)
            THEN Signal(flag, e.status)
            ELSE Signal("none", 0)
    BY GeminiRules
  <1>2. flag = IF e.status = 408 THEN "timeout" ELSE IF e.status = 429 THEN "rate_limit"
               ELSE IF e.status \in {401, 403} THEN "auth"
               ELSE IF e.status \in {502, 503, 504} THEN "unavailable" ELSE "none"
    BY DEF SdkException
  <1> HIDE DEF s, flag
  <1>3. s.status \in Nat
    BY <1>1 DEF Signal, SdkException
  <1>4. Recoverable("gemini", s) <=> TemporaryException("gemini", e)
    BY <1>1, <1>2 DEF Signal, SdkException, Recoverable, TemporaryException, TransientStatus,
                OpenAITransient, GoogleTransient, PermanentClass
  <1> QED  BY <1>3, <1>4 DEF s

\* A vendor's exception, through transport and mapper.
LEMMA ExceptionClassified ==
  ASSUME NEW vendor \in ProviderId \ {"fake"}, NEW e, SdkException(vendor, e), NEW t, NEW elapsed,
         NEW reply, reply.raised, reply.exc = e
  PROVE  LET v == VendorPhase(vendor, t, reply, elapsed)
         IN /\ ~ v.ok
            /\ v.code \in ProviderError \ {"PRV_CONFIG"}
            /\ v.code \in RetryableProviderError <=> TemporaryException(vendor, e)
  <1> DEFINE s == IF vendor \in {"openai", "kimi"} THEN ExtractOpenAI(e)
                  ELSE IF vendor = "anthropic" THEN ExtractAnthropic(e) ELSE ExtractGemini(e)
  <1>1. vendor \in {"openai", "kimi", "anthropic", "gemini"}
    BY DEF ProviderId
  <1>2. s.status \in Nat /\ (Recoverable(vendor, s) <=> TemporaryException(vendor, e))
    BY <1>1, OpenAISignals, AnthropicSignals, GeminiSignals
  <1>3. Complete(vendor, reply) = [ok |-> FALSE, code |-> MapVendorFailure(vendor, s)]
    BY <1>1 DEF Complete, CompleteOpenAI, CompleteKimi, CompleteAnthropic, CompleteGemini, Result
  <1> HIDE DEF s
  <1>4. /\ MapVendorFailure(vendor, s) \in ProviderError \ {"PRV_CONFIG"}
        /\ MapVendorFailure(vendor, s) \in RetryableProviderError <=> Recoverable(vendor, s)
    BY <1>2, MapperCodes
  <1> QED  BY <1>2, <1>3, <1>4 DEF VendorPhase

\* An answer is an answer in time and a timeout otherwise.
LEMMA AnswerTimed ==
  ASSUME NEW vendor \in ProviderId \ {"fake"}, NEW content, NEW t, NEW elapsed \in Int,
         NEW reply, ~ reply.raised, reply.content = content
  PROVE  VendorPhase(vendor, t, reply, elapsed) =
           IF elapsed >= Budget(t).overall THEN [ok |-> FALSE, code |-> "PRV_TIMEOUT"]
           ELSE [ok |-> TRUE, content |-> content]
  <1>1. vendor \in {"openai", "kimi", "anthropic", "gemini"}
    BY DEF ProviderId
  <1>2. Complete(vendor, reply) = [ok |-> TRUE, content |-> content]
    BY <1>1 DEF Complete, CompleteOpenAI, CompleteKimi, CompleteAnthropic, CompleteGemini, Result
  <1> QED  BY <1>2 DEF VendorPhase, Exceeded

\* The classes of failures of the news service.
LEMMA FeedClassified ==
  ASSUME NEW f \in FeedFailures
  PROVE  /\ ClassifyFeedFailure(f) \in {"COL_TIMEOUT", "COL_FETCH", "COL_RESPONSE"}
         /\ Retryable(ClassifyFeedFailure(f)) <=> Temporary([of |-> "feed", feed |-> f])
  <1>1. f.error \in {"timeout", "connection", "http", "malformed"} /\ f.status \in Nat
    BY StageAssumption
  <1>2. Temporary([of |-> "feed", feed |-> f]) <=>
          \/ f.error \in {"timeout", "connection"}
          \/ f.error = "http" /\ f.status \notin (400 .. 499) \ {408, 429}
    BY DEF Temporary
  <1>3. CASE f.error = "timeout"
    BY <1>2, <1>3 DEF ClassifyFeedFailure, Retryable, RetryableProviderError
  <1>4. CASE f.error = "connection"
    BY <1>2, <1>4 DEF ClassifyFeedFailure, Retryable, RetryableProviderError
  <1>5. CASE f.error = "http"
    <2>1. ClassifyFeedFailure(f) = IF f.status \in {408, 429} \/ f.status \notin 400 .. 499
                                   THEN "COL_FETCH" ELSE "COL_RESPONSE"
      BY <1>5 DEF ClassifyFeedFailure
    <2> QED  BY <1>1, <1>2, <1>5, <2>1 DEF Retryable, RetryableProviderError
  <1>6. CASE f.error = "malformed"
    BY <1>2, <1>6 DEF ClassifyFeedFailure, Retryable, RetryableProviderError
  <1> QED  BY <1>1, <1>3, <1>4, <1>5, <1>6

------------------------------------------------------------------------------
\* The decisions that the stages ask of the table.
LEMMA TableDecisions ==
  ASSUME NEW r \in Nat, NEW m \in Nat
  PROVE  /\ T!Lookup("COLLECTING", "STAGE_COMPLETED", r, m) =
              {T!Decide("COLLECTING", "COLLECTED", "SELECT_TOPIC", FALSE, FALSE)}
         /\ T!Lookup("SELECTING_TOPIC", "STAGE_COMPLETED", r, m) =
              {T!Decide("SELECTING_TOPIC", "TOPIC_SELECTED", "GENERATE_SCENARIO", FALSE, FALSE)}
         /\ T!Lookup("SELECTING_TOPIC", "NO_SUITABLE_TOPIC", r, m) =
              {T!Decide("SELECTING_TOPIC", "NO_SUITABLE_TOPIC", T!NoTask, FALSE, FALSE)}
         /\ T!Lookup("GENERATING_SCENARIO", "STAGE_COMPLETED", r, m) =
              {T!Decide("GENERATING_SCENARIO", "SCENARIO_GENERATED", "REVIEW_SCENARIO",
                        FALSE, FALSE)}
         /\ T!Lookup("REVIEWING", "CRITIC_PASS", r, m) =
              {T!Decide("REVIEWING", "REVIEW_PASSED", T!NoTask, FALSE, FALSE)}
         /\ T!Lookup("REVIEWING", "CRITIC_REVISE", r, m) =
              IF r >= m THEN {T!Decide("REVIEWING", "REVIEW_FAILED", T!NoTask, FALSE, FALSE)}
              ELSE {T!Decide("REVIEWING", "REVISION_REQUIRED", T!NoTask, TRUE, FALSE)}
  <1> DEFINE Busy == {"COLLECTING", "SELECTING_TOPIC", "GENERATING_SCENARIO", "REVIEWING"}
  <1>1. Busy \subseteq T!TRANSIENT_STATES
    BY DEF T!TRANSIENT_STATES
  <1>2. \A signal \in {"STAGE_COMPLETED", "NO_SUITABLE_TOPIC", "CRITIC_PASS"} :
          \A state \in Busy :
            T!Lookup(state, signal, r, m) = {d \in T!PRIMARY_MATRIX(signal) : d.from = state}
    BY <1>1 DEF T!Lookup, T!FailureState
  <1>3. T!PRIMARY_MATRIX("STAGE_COMPLETED") =
          {T!Decide("COLLECTING", "COLLECTED", "SELECT_TOPIC", FALSE, FALSE),
           T!Decide("COLLECTED", "SELECTING_TOPIC", T!NoTask, FALSE, FALSE),
           T!Decide("SELECTING_TOPIC", "TOPIC_SELECTED", "GENERATE_SCENARIO", FALSE, FALSE),
           T!Decide("TOPIC_SELECTED", "GENERATING_SCENARIO", T!NoTask, FALSE, FALSE),
           T!Decide("GENERATING_SCENARIO", "SCENARIO_GENERATED", "REVIEW_SCENARIO", FALSE, FALSE),
           T!Decide("SCENARIO_GENERATED", "REVIEWING", T!NoTask, FALSE, FALSE),
           T!Decide("REVISION_REQUIRED", "GENERATING_SCENARIO", "GENERATE_SCENARIO", FALSE, TRUE),
           T!Decide("REVIEW_PASSED", "AWAITING_HUMAN_APPROVAL", T!NoTask, FALSE, FALSE)}
    BY DEF T!PRIMARY_MATRIX, T!Move, T!MoveAndDispatch
  <1>4. /\ T!PRIMARY_MATRIX("NO_SUITABLE_TOPIC") =
             {T!Decide("SELECTING_TOPIC", "NO_SUITABLE_TOPIC", T!NoTask, FALSE, FALSE)}
        /\ T!PRIMARY_MATRIX("CRITIC_PASS") =
             {T!Decide("REVIEWING", "REVIEW_PASSED", T!NoTask, FALSE, FALSE)}
    BY DEF T!PRIMARY_MATRIX, T!Move
  <1>5. T!Lookup("REVIEWING", "CRITIC_REVISE", r, m) =
              IF r >= m THEN {T!Decide("REVIEWING", "REVIEW_FAILED", T!NoTask, FALSE, FALSE)}
              ELSE {T!Decide("REVIEWING", "REVISION_REQUIRED", T!NoTask, TRUE, FALSE)}
    BY <1>1 DEF T!Lookup, T!ReviseDecision, T!Move
  <1>6. T!Lookup("COLLECTING", "STAGE_COMPLETED", r, m) =
          {T!Decide("COLLECTING", "COLLECTED", "SELECT_TOPIC", FALSE, FALSE)}
    BY <1>2, <1>3 DEF T!Decide
  <1>7. T!Lookup("SELECTING_TOPIC", "STAGE_COMPLETED", r, m) =
          {T!Decide("SELECTING_TOPIC", "TOPIC_SELECTED", "GENERATE_SCENARIO", FALSE, FALSE)}
    BY <1>2, <1>3 DEF T!Decide
  <1>8. T!Lookup("GENERATING_SCENARIO", "STAGE_COMPLETED", r, m) =
          {T!Decide("GENERATING_SCENARIO", "SCENARIO_GENERATED", "REVIEW_SCENARIO", FALSE, FALSE)}
    BY <1>2, <1>3 DEF T!Decide
  <1>9. /\ T!Lookup("SELECTING_TOPIC", "NO_SUITABLE_TOPIC", r, m) =
             {T!Decide("SELECTING_TOPIC", "NO_SUITABLE_TOPIC", T!NoTask, FALSE, FALSE)}
        /\ T!Lookup("REVIEWING", "CRITIC_PASS", r, m) =
             {T!Decide("REVIEWING", "REVIEW_PASSED", T!NoTask, FALSE, FALSE)}
    BY <1>2, <1>4 DEF T!Decide
  <1> QED  BY <1>5, <1>6, <1>7, <1>8, <1>9

\* The error signals have one decision each.
LEMMA TableFailures ==
  ASSUME NEW r, NEW m,
         NEW state \in {"COLLECTING", "SELECTING_TOPIC", "GENERATING_SCENARIO", "REVIEWING"}
  PROVE  /\ T!Lookup(state, "RETRIES_EXHAUSTED", r, m) = {T!Move(state, "FAILED_PERMANENTLY")}
         /\ T!Lookup(state, "UNRECOVERABLE_ERROR", r, m) = {T!Move(state, "FAILED")}
  BY DEF T!Lookup, T!TRANSIENT_STATES, T!PRIMARY_MATRIX, T!FailureState

------------------------------------------------------------------------------
(***************************************************************************)
(* The collector.  Its loops are functions of the number of answers: what  *)
(* they compute is shown by induction over that number, which LeastOf      *)
(* provides.                                                               *)
(***************************************************************************)
\* A set of numbers has a least one.
LEMMA LeastOf ==
  ASSUME NEW Q \in SUBSET Nat, Q # {}
  PROVE  \E m \in Q : \A k \in Q : m <= k
  <1> DEFINE R == OpToRel(<, Nat)
  <1>1. \A x, y \in Nat : <<y, x>> \in R <=> y < x
    BY DEF OpToRel
  <1>2. IsWellFoundedOn(R, Nat)
    BY NatLessThanWellFounded
  <1> HIDE DEF R
  <1>3. PICK m \in Q : \A k \in Q : ~ (<<k, m>> \in R)
    BY <1>2, WFMin
  <1>4. ASSUME NEW k \in Q PROVE m <= k
    <2>1. m \in Nat /\ k \in Nat
      OBVIOUS
    <2>2. ~ (k < m)
      BY <1>1, <1>3, <2>1
    <2> QED  BY <2>1, <2>2
  <1> QED  BY <1>4

\* What holds of 0, and of n + 1 if it holds of n, holds up to any bound:
\* good is the set of the numbers it holds of.
LEMMA UpTo ==
  ASSUME NEW n \in Nat, NEW good, 0 \in good,
         \A i \in 0 .. n - 1 : i \in good => i + 1 \in good
  PROVE  \A i \in 0 .. n : i \in good
  <1> DEFINE bad == {i \in 0 .. n : i \notin good}
  <1>1. SUFFICES ASSUME bad # {} PROVE FALSE
    OBVIOUS
  <1>0. bad \in SUBSET Nat
    OBVIOUS
  <1>2. PICK m \in bad : \A k \in bad : m <= k
    <2> HIDE DEF bad
    <2> QED  BY <1>0, <1>1, LeastOf
  <1>3. m \in 1 .. n /\ m - 1 \in 0 .. n - 1
    BY <1>2
  <1>4. m - 1 \in good
    BY <1>2, <1>3
  <1>5. (m - 1) + 1 \in good
    BY <1>3, <1>4
  <1> QED  BY <1>2, <1>3, <1>5

\* The loop of dedupe has one value after every answer.
Turns(answers, f) ==
  f = [i \in 0 .. Len(answers) |-> IF i = 0 THEN <<>> ELSE Keep(f[i - 1], answers[i])]

LEMMA TurnsExist ==
  ASSUME NEW answers, Len(answers) \in Nat
  PROVE  \E f : Turns(answers, f)
  <1> DEFINE n == Len(answers)
             Upto(m, f) == f = [i \in 0 .. m |-> IF i = 0 THEN <<>> ELSE Keep(f[i - 1], answers[i])]
             good == {m \in 0 .. n : \E f : Upto(m, f)}
  <1>1. 0 \in good
    <2> DEFINE f == [i \in 0 .. 0 |-> <<>>]
    <2>1. Upto(0, f)
      OBVIOUS
    <2> HIDE DEF f, Upto
    <2> QED  BY <2>1
  <1>2. ASSUME NEW m \in 0 .. n - 1, m \in good
        PROVE  m + 1 \in good
    <2>1. PICK f : Upto(m, f)
      BY <1>2
    <2> DEFINE g == [i \in 0 .. m + 1 |-> IF i <= m THEN f[i] ELSE Keep(f[m], answers[m + 1])]
               h == [i \in 0 .. m + 1 |-> IF i = 0 THEN <<>> ELSE Keep(g[i - 1], answers[i])]
    <2>2. ASSUME NEW i \in 0 .. m + 1
          PROVE  g[i] = h[i]
      <3>1. CASE i = 0
        <4>1. f[0] = <<>>
          BY <2>1
        <4> QED  BY <3>1, <4>1
      <3>2. CASE i \in 1 .. m
        <4>1. f[i] = Keep(f[i - 1], answers[i])
          BY <2>1, <3>2
        <4>2. i - 1 \in 0 .. m + 1 /\ i - 1 <= m
          BY <3>2
        <4>3. g[i - 1] = f[i - 1]
          BY <4>2
        <4> QED  BY <3>2, <4>1, <4>3
      <3>3. CASE i = m + 1
        <4>1. g[m] = f[m] /\ (m + 1) - 1 = m
          OBVIOUS
        <4> QED  BY <3>3, <4>1
      <3> QED  BY <3>1, <3>2, <3>3
    <2>3. g = h
      BY <2>2
    <2>4. Upto(m + 1, g)
      BY <2>3
    <2> HIDE DEF g, Upto
    <2> QED  BY <2>4
  <1> HIDE DEF good
  <1>3. n \in good
    <2>1. \A m \in 0 .. n : m \in good
      BY <1>1, <1>2, UpTo
    <2> QED  BY <2>1
  <1>4. PICK f : Upto(n, f)
    BY <1>3 DEF good
  <1> QED  BY <1>4 DEF Turns

LEMMA DedupeTurns ==
  ASSUME NEW answers, Len(answers) \in Nat
  PROVE  \E f : Turns(answers, f) /\ Dedupe(answers) = f[Len(answers)]
  <1> DEFINE f == CHOOSE g : g = [i \in 0 .. Len(answers) |->
                               IF i = 0 THEN <<>> ELSE Keep(g[i - 1], answers[i])]
  <1>1. Turns(answers, f)
    BY TurnsExist DEF Turns
  <1>2. Dedupe(answers) = f[Len(answers)]
    BY DEF Dedupe
  <1> QED  BY <1>1, <1>2

\* The accepted of the first n answers, and the first of every id among them.
Accepted(answers, n) == {i \in 1 .. n : Outcome(answers[i]) = "accept"}
Firsts(answers, n) ==
  {i \in Accepted(answers, n) : \A j \in Accepted(answers, n) :
     j < i => answers[j].item.id # answers[i].item.id}

\* What dedupe keeps of them.
KeptOK(answers, n, kept) ==
  /\ kept \in Seq({answers[i].item : i \in Firsts(answers, n)})
  /\ \A i \in Firsts(answers, n) : \E k \in DOMAIN kept : kept[k] = answers[i].item
  /\ \A i \in Accepted(answers, n) : \E k \in DOMAIN kept : kept[k].id = answers[i].item.id
  /\ \A k, l \in DOMAIN kept : kept[k].id = kept[l].id => k = l
  /\ IsFiniteSet(Firsts(answers, n)) /\ Len(kept) = Cardinality(Firsts(answers, n))

LEMMA KeptStep ==
  ASSUME NEW answers, NEW n \in Nat, NEW kept, KeptOK(answers, n, kept)
  PROVE  KeptOK(answers, n + 1, Keep(kept, answers[n + 1]))
  <1> DEFINE r == answers[n + 1]
             F == Firsts(answers, n)
             G == Firsts(answers, n + 1)
             A == Accepted(answers, n)
             B == Accepted(answers, n + 1)
             seen == \E k \in DOMAIN kept : kept[k].id = r.item.id
  <1>1. B = IF Outcome(r) = "accept" THEN A \cup {n + 1} ELSE A
    BY DEF Accepted
  <1>2. A \subseteq 1 .. n /\ F \subseteq A /\ n + 1 \notin A
    BY DEF Accepted, Firsts
  <1>3. \A i \in A : i \in F <=> i \in G
    <2>1. \A i \in A : \A j \in B : j < i => j \in A
      BY <1>1, <1>2
    <2>2. A \subseteq B
      BY <1>1
    <2> QED  BY <2>1, <2>2 DEF Firsts
  <1>4. n + 1 \in G <=> Outcome(r) = "accept" /\ ~ seen
    <2>1. \A j \in B : j < n + 1 <=> j \in A
      BY <1>1, <1>2
    <2>2. (\E j \in A : answers[j].item.id = r.item.id) <=> seen
      <3>1. \A j \in A : answers[j].item.id = r.item.id => seen
        BY DEF KeptOK
      <3>2. \A k \in DOMAIN kept : \E j \in F : kept[k] = answers[j].item
        BY DEF KeptOK
      <3> QED  BY <1>2, <3>1, <3>2
    <2>3. n + 1 \in B <=> Outcome(r) = "accept"
      BY <1>1, <1>2
    <2> QED  BY <1>1, <2>1, <2>2, <2>3 DEF Firsts
  <1>5. G = IF Outcome(r) = "accept" /\ ~ seen THEN F \cup {n + 1} ELSE F
    <2>1. G \subseteq A \cup {n + 1}
      BY <1>1 DEF Firsts
    <2>2. F \subseteq A
      BY <1>2
    <2> DEFINE added == Outcome(r) = "accept" /\ ~ seen
    <2>3. n + 1 \in G <=> added
      BY <1>4
    <2> HIDE DEF added, F, G, A
    <2>4. ASSUME added PROVE G = F \cup {n + 1}
      BY <1>3, <2>1, <2>2, <2>3, <2>4
    <2>5. ASSUME ~ added PROVE G = F
      BY <1>3, <2>1, <2>2, <2>3, <2>5
    <2>6. G = IF added THEN F \cup {n + 1} ELSE F
      BY <2>4, <2>5
    <2> QED  BY <2>6 DEF added
  <1>6. CASE Outcome(r) # "accept" \/ seen
    <2>1. Keep(kept, r) = kept /\ G = F
      BY <1>5, <1>6 DEF Keep
    <2>2. \A i \in B : \E k \in DOMAIN kept : kept[k].id = answers[i].item.id
      BY <1>1, <1>6 DEF KeptOK
    <2> QED  BY <2>1, <2>2 DEF KeptOK
  <1>7. CASE Outcome(r) = "accept" /\ ~ seen
    <2> DEFINE new == Append(kept, r.item)
               I == {answers[i].item : i \in F}
               J == {answers[i].item : i \in G}
    <2>1. Keep(kept, r) = new /\ G = F \cup {n + 1} /\ B = A \cup {n + 1}
      BY <1>1, <1>5, <1>7 DEF Keep
    <2>2. kept \in Seq(J) /\ r.item \in J
      <3>1. kept \in Seq(I) /\ I \subseteq J
        BY <2>1 DEF KeptOK
      <3> QED  BY <2>1, <3>1
    <2>3. /\ new \in Seq(J) /\ DOMAIN new = 1 .. Len(kept) + 1 /\ DOMAIN kept = 1 .. Len(kept)
          /\ Len(kept) \in Nat /\ Len(new) = Len(kept) + 1
          /\ \A k \in DOMAIN kept : new[k] = kept[k]
          /\ new[Len(kept) + 1] = r.item
      <3> HIDE DEF J
      <3> QED  BY <2>2
    <2>4. \A i \in G : \E k \in DOMAIN new : new[k] = answers[i].item
      <3>1. \A i \in F : \E k \in DOMAIN kept : kept[k] = answers[i].item
        BY DEF KeptOK
      <3> HIDE DEF F, G, new
      <3> QED  BY <2>1, <2>3, <3>1
    <2>5. \A i \in B : \E k \in DOMAIN new : new[k].id = answers[i].item.id
      <3>1. \A i \in A : \E k \in DOMAIN kept : kept[k].id = answers[i].item.id
        BY DEF KeptOK
      <3> HIDE DEF A, B, new
      <3> QED  BY <2>1, <2>3, <3>1
    <2>6. \A k, l \in DOMAIN new : new[k].id = new[l].id => k = l
      <3>1. \A k, l \in DOMAIN kept : kept[k].id = kept[l].id => k = l
        BY DEF KeptOK
      <3>2. \A k \in DOMAIN kept : kept[k].id # r.item.id
        BY <1>7
      <3> HIDE DEF new, seen
      <3> QED  BY <2>3, <3>1, <3>2
    <2>7. IsFiniteSet(G) /\ Len(new) = Cardinality(G)
      <3>1. IsFiniteSet(F) /\ Len(kept) = Cardinality(F) /\ n + 1 \notin F
        BY <1>2 DEF KeptOK
      <3> HIDE DEF F, G, new
      <3>2. IsFiniteSet(F \cup {n + 1}) /\ Cardinality(F \cup {n + 1}) = Cardinality(F) + 1
        BY <3>1, FS_AddElement
      <3> QED  BY <2>1, <2>3, <3>1, <3>2
    <2>8. KeptOK(answers, n + 1, new)
      BY <2>3, <2>4, <2>5, <2>6, <2>7 DEF KeptOK
    <2> QED  BY <2>1, <2>8
  <1> QED  BY <1>6, <1>7

\* StoryDeduplicator.dedupe keeps the first accepted story of every id, and
\* nothing else, whatever the number of answers.
LEMMA DedupeKeepsFirsts ==
  ASSUME NEW answers, Len(answers) \in Nat
  PROVE  KeptOK(answers, Len(answers), Dedupe(answers))
  <1> DEFINE n == Len(answers)
  <1>1. PICK f : Turns(answers, f) /\ Dedupe(answers) = f[n]
    BY DedupeTurns
  <1>2. f[0] = <<>> /\ \A i \in 0 .. n - 1 : f[i + 1] = Keep(f[i], answers[i + 1])
    <2>1. f = [i \in 0 .. n |-> IF i = 0 THEN <<>> ELSE Keep(f[i - 1], answers[i])]
      BY <1>1 DEF Turns
    <2>2. f[0] = <<>>
      BY <2>1
    <2>3. ASSUME NEW i \in 0 .. n - 1 PROVE f[i + 1] = Keep(f[i], answers[i + 1])
      <3>1. i + 1 \in 0 .. n /\ i + 1 # 0 /\ (i + 1) - 1 = i
        OBVIOUS
      <3> QED  BY <2>1, <3>1
    <2> QED  BY <2>2, <2>3
  <1> DEFINE good == {i \in 0 .. n : KeptOK(answers, i, f[i])}
  <1>3. 0 \in good
    <2>1. Accepted(answers, 0) = {} /\ Firsts(answers, 0) = {}
      BY DEF Accepted, Firsts
    <2>2. IsFiniteSet({}) /\ Cardinality({}) = 0
      BY FS_EmptySet
    <2>3. f[0] \in Seq({answers[i].item : i \in Firsts(answers, 0)}) /\ DOMAIN f[0] = {}
          /\ Len(f[0]) = 0
      BY <1>2
    <2>4. KeptOK(answers, 0, f[0])
      BY <2>1, <2>2, <2>3 DEF KeptOK
    <2> QED  BY <2>4
  <1>4. \A i \in 0 .. n - 1 : i \in good => i + 1 \in good
    BY <1>2, KeptStep
  <1> HIDE DEF good
  <1>5. \A i \in 0 .. n : i \in good
    BY <1>3, <1>4, UpTo
  <1> QED  BY <1>1, <1>5 DEF good

------------------------------------------------------------------------------
\* The size of 1 .. n.
LEMMA Numbered ==
  ASSUME NEW n \in Nat
  PROVE  IsFiniteSet(1 .. n) /\ Cardinality(1 .. n) = n
  <1>1. IsFiniteSet(1 .. n) /\ Cardinality(1 .. n) = IF 1 > n THEN 0 ELSE n - 1 + 1
    BY FS_Interval
  <1> QED  BY <1>1

\* Whoever has k - 1 before him in a strict total order R of 1 .. n is the
\* k-th: everybody has a place, and the places are in the order.
LEMMA PlacesByCounting ==
  ASSUME NEW n \in Nat, NEW R,
         \A i \in 1 .. n : <<i, i>> \notin R,
         \A i, j \in 1 .. n : i # j => <<i, j>> \in R \/ <<j, i>> \in R,
         \A i, j, k \in 1 .. n : <<i, j>> \in R /\ <<j, k>> \in R => <<i, k>> \in R,
         NEW p, DOMAIN p = 1 .. n, p = [k \in 1 .. n |-> p[k]],
         \A k \in 1 .. n :
           (\E i \in 1 .. n : Cardinality({j \in 1 .. n : <<j, i>> \in R}) = k - 1) =>
             p[k] \in 1 .. n /\ Cardinality({j \in 1 .. n : <<j, p[k]>> \in R}) = k - 1
  PROVE  /\ p \in [1 .. n -> 1 .. n]
         /\ \A i \in 1 .. n : \E k \in 1 .. n : p[k] = i
         /\ \A k, l \in 1 .. n : k < l => <<p[k], p[l]>> \in R
  <1> DEFINE D == 1 .. n
             Before(i) == {j \in D : <<j, i>> \in R}
             f == [i \in D |-> Cardinality(Before(i)) + 1]
  <1>1. IsFiniteSet(D) /\ Cardinality(D) = n
    BY Numbered
  <1>2. ASSUME NEW i \in D
        PROVE  IsFiniteSet(Before(i)) /\ Cardinality(Before(i)) \in 0 .. n - 1
    <2>1. Before(i) \in SUBSET (D \ {i})
      OBVIOUS
    <2>2. IsFiniteSet(D \ {i}) /\ Cardinality(D \ {i}) = n - 1
      <3> HIDE DEF D
      <3> QED  BY <1>1, FS_RemoveElement
    <2>3. IsFiniteSet(Before(i)) /\ Cardinality(Before(i)) <= n - 1
      <3> HIDE DEF D, Before
      <3> QED  BY <2>1, <2>2, FS_Subset
    <2>4. Cardinality(Before(i)) \in Nat
      <3> HIDE DEF Before
      <3> QED  BY <2>3, FS_CardinalityType
    <2> QED  BY <2>3, <2>4
  <1>3. ASSUME NEW i \in D, NEW j \in D, <<i, j>> \in R
        PROVE  f[i] < f[j]
    <2>1. Before(i) \cup {i} \in SUBSET Before(j) /\ i \notin Before(i)
      BY <1>3
    <2>2. /\ IsFiniteSet(Before(i) \cup {i})
          /\ Cardinality(Before(i) \cup {i}) = Cardinality(Before(i)) + 1
      <3>1. IsFiniteSet(Before(i))
        BY <1>2
      <3> HIDE DEF Before
      <3> QED  BY <2>1, <3>1, FS_AddElement
    <2>3. Cardinality(Before(i) \cup {i}) <= Cardinality(Before(j))
      <3> HIDE DEF Before
      <3>1. IsFiniteSet(Before(j))
        BY <1>2
      <3> QED  BY <2>1, <3>1, FS_Subset
    <2> HIDE DEF Before
    <2>4. (Cardinality(Before(i)) \in 0 .. n - 1) /\ (Cardinality(Before(j)) \in 0 .. n - 1)
      BY <1>2
    <2> QED  BY <2>2, <2>3, <2>4
  <1>4. f \in [D -> D]
    <2> HIDE DEF Before
    <2>1. \A i \in D : Cardinality(Before(i)) + 1 \in D
      BY <1>2
    <2> HIDE DEF D
    <2> QED  BY <2>1
  <1> HIDE DEF f
  <1>5. ASSUME NEW i \in D, NEW j \in D, f[i] = f[j]
        PROVE  i = j
    <2>1. f[i] \in Nat /\ f[j] \in Nat
      BY <1>4
    <2>2. <<i, j>> \notin R
      <3>1. <<i, j>> \in R => f[i] < f[j]
        BY <1>3
      <3> QED  BY <1>5, <2>1, <3>1
    <2>3. <<j, i>> \notin R
      <3>1. <<j, i>> \in R => f[j] < f[i]
        BY <1>3
      <3> QED  BY <1>5, <2>1, <3>1
    <2> QED  BY <2>2, <2>3
  <1>6. \A k \in D : \E i \in D : f[i] = k
    <2>1. f \in Injection(D, D)
      BY <1>4, <1>5 DEF Injection, IsInjective
    <2>2. f \in Surjection(D, D)
      <3> HIDE DEF D
      <3> QED  BY <1>1, <2>1, FS_Injection
    <2> QED  BY <2>2 DEF Surjection
  <1>7. ASSUME NEW k \in D
        PROVE  p[k] \in D /\ f[p[k]] = k
    <2>1. PICK i \in D : f[i] = k
      BY <1>6
    <2>2. \A j \in D : f[j] = k <=> Cardinality(Before(j)) = k - 1
      <3> HIDE DEF Before
      <3>1. \A j \in D : f[j] = Cardinality(Before(j)) + 1 /\ Cardinality(Before(j)) \in Nat
        BY <1>2 DEF f
      <3> QED  BY <3>1
    <2>3. (\E j \in D : Cardinality(Before(j)) = k - 1) =>
            p[k] \in D /\ Cardinality(Before(p[k])) = k - 1
      OBVIOUS
    <2> HIDE DEF Before, D
    <2> QED  BY <2>1, <2>2, <2>3
  <1>8. p \in [D -> D]
    BY <1>7
  <1>9. ASSUME NEW i \in D PROVE \E k \in D : p[k] = i
    <2>1. f[i] \in D
      BY <1>4
    <2>2. p[f[i]] \in D /\ f[p[f[i]]] = f[i]
      BY <1>7, <2>1
    <2> QED  BY <1>5, <2>1, <2>2
  <1>10. ASSUME NEW k \in D, NEW l \in D, k < l
         PROVE  <<p[k], p[l]>> \in R
    <2>1. /\ p[k] \in D /\ f[p[k]] = k /\ p[l] \in D /\ f[p[l]] = l
      BY <1>7
    <2> HIDE DEF f
    <2>2. PICK i \in D, j \in D : i = p[k] /\ j = p[l]
      BY <2>1
    <2>3. f[i] = k /\ f[j] = l /\ i # j
      <3>1. f[i] = k /\ f[j] = l
        BY <2>1, <2>2
      <3> QED  BY <1>10, <3>1
    <2>4. <<j, i>> \in R => f[j] < f[i]
      BY <1>3
    <2>5. <<j, i>> \notin R
      BY <1>10, <2>3, <2>4
    <2> QED  BY <2>2, <2>3, <2>5
  <1> QED  BY <1>8, <1>9, <1>10

\* One of finitely many times is the newest.
LEMMA NewestOf ==
  ASSUME NEW n \in Nat \ {0}, NEW t \in [1 .. n -> Nat], NEW S, S = {t[i] : i \in 1 .. n}
  PROVE  Max(S) \in Nat /\ \A i \in 1 .. n : t[i] <= Max(S)
  <1> DEFINE good == {m \in 0 .. n - 1 : \E i \in 1 .. m + 1 : \A j \in 1 .. m + 1 : t[j] <= t[i]}
  <1>1. 0 \in good
    BY 1 \in 1 .. 0 + 1
  <1>2. ASSUME NEW m \in 0 .. n - 1 - 1, m \in good
        PROVE  m + 1 \in good
    <2>1. PICK i \in 1 .. m + 1 : \A j \in 1 .. m + 1 : t[j] <= t[i]
      BY <1>2
    <2>2. m + 2 \in 1 .. n /\ i \in 1 .. n /\ t[i] \in Nat /\ t[m + 2] \in Nat
      OBVIOUS
    <2>3. PICK k \in 1 .. m + 2 : t[i] <= t[k] /\ t[m + 2] <= t[k] /\ t[k] \in Nat
      <3>1. CASE t[i] <= t[m + 2]
        BY <2>2, <3>1
      <3>2. CASE t[m + 2] <= t[i]
        BY <2>2, <3>2
      <3> QED  BY <2>2, <3>1, <3>2
    <2>4. ASSUME NEW j \in 1 .. m + 2 PROVE t[j] <= t[k]
      <3>1. CASE j = m + 2
        BY <2>3, <3>1
      <3>2. CASE j \in 1 .. m + 1
        <4>1. t[j] \in Nat /\ t[j] <= t[i]
          BY <2>1, <3>2
        <4> QED  BY <2>2, <2>3, <4>1
      <3> QED  BY <3>1, <3>2
    <2> QED  BY <2>4
  <1> HIDE DEF good
  <1>3. n - 1 \in good
    <2>1. PICK b \in Nat : b = n - 1
      OBVIOUS
    <2>2. \A m \in 0 .. b : m \in good
      BY <1>1, <1>2, <2>1, UpTo
    <2> QED  BY <2>1, <2>2
  <1>4. PICK i \in 1 .. n : \A j \in 1 .. n : t[j] <= t[i]
    BY <1>3 DEF good
  <1>5. t[i] \in S /\ \A y \in S : t[i] >= y
    BY <1>4
  <1>6. Max(S) \in S /\ \A y \in S : Max(S) >= y
    BY <1>5 DEF Max
  <1> QED  BY <1>6

\* What a list of drafts is when it is ranked.
Drafts(drafts, n) ==
  /\ n \in Nat /\ DOMAIN drafts = 1 .. n
  /\ \A i \in 1 .. n : Numeric(drafts[i]) /\ drafts[i].time # -1
  /\ \A i, j \in 1 .. n : drafts[i].id = drafts[j].id => i = j

LEMMA ScoresAreNumbers ==
  ASSUME NEW drafts, NEW n, Drafts(drafts, n), NEW i \in 1 .. n
  PROVE  RankScore(drafts[i], drafts) \in Int
  <1> DEFINE t == [j \in 1 .. n |-> drafts[j].time]
             newest == Max({drafts[j].time : j \in DOMAIN drafts})
             d == drafts[i]
  <1>1. n \in Nat \ {0} /\ t \in [1 .. n -> Nat] /\ \A j \in 1 .. n : t[j] = drafts[j].time
    BY DEF Drafts, Numeric
  <1>2. {drafts[j].time : j \in DOMAIN drafts} = {t[j] : j \in 1 .. n}
    BY DEF Drafts
  <1> HIDE DEF t
  <1>3. newest \in Nat /\ t[i] <= newest
    BY <1>1, <1>2, NewestOf
  <1> HIDE DEF newest
  <1>4. d.time \in Nat /\ d.time <= newest /\ d.score \in Int /\ d.comments \in Int
    BY <1>1, <1>3 DEF Drafts, Numeric
  <1> HIDE DEF d
  <1>5. Recency(d, drafts) = IF d.time = 0 THEN 0 ELSE 60 \div (1 + newest - d.time)
    BY DEF Recency, newest
  <1>6. 60 \div (1 + newest - d.time) \in Int
    <2>1. PICK q \in Nat \ {0} : q = 1 + newest - d.time
      BY <1>3, <1>4
    <2>2. 60 \div q \in Int
      OBVIOUS
    <2> QED  BY <2>1, <2>2
  <1>7. Recency(d, drafts) \in Int
    BY <1>5, <1>6
  <1>8. RankScore(d, drafts) =
          60 * (WeightScore * d.score + WeightComments * d.comments)
          + WeightRecency * Recency(d, drafts)
    BY DEF RankScore
  <1>9. WeightScore \in Int /\ WeightComments \in Int /\ WeightRecency \in Int
    BY CollectorAssumption
  <1>10. RankScore(d, drafts) \in Int
    <2>1. WeightScore * d.score \in Int /\ WeightComments * d.comments \in Int
      BY <1>4, <1>9
    <2>2. 60 * (WeightScore * d.score + WeightComments * d.comments) \in Int
      BY <2>1
    <2>3. WeightRecency * Recency(d, drafts) \in Int
      BY <1>7, <1>9
    <2> QED  BY <1>8, <2>2, <2>3
  <1> QED  BY <1>10 DEF d

\* StoryRanker.rank lists the drafts in the order of their scores, each once.
LEMMA RankOrders ==
  ASSUME NEW drafts, NEW n, Drafts(drafts, n), NEW ranked, ranked = Rank(drafts)
  PROVE  \E p \in [1 .. n -> 1 .. n] :
           /\ \A i \in 1 .. n : \E k \in 1 .. n : p[k] = i
           /\ ranked = [k \in 1 .. n |-> drafts[p[k]]]
           /\ \A k, l \in 1 .. n :
                k < l => RankScore(ranked[k], drafts) >= RankScore(ranked[l], drafts)
  <1> DEFINE score == [i \in 1 .. n |-> RankScore(drafts[i], drafts)]
             id == [i \in 1 .. n |-> drafts[i].id]
             Over(i, j) == score[i] > score[j] \/ (score[i] = score[j] /\ id[i] < id[j])
             R == {x \in (1 .. n) \X (1 .. n) : Over(x[1], x[2])}
             Before(i) == {j \in DOMAIN drafts : Precedes(drafts[j], drafts[i], drafts)}
             p == [k \in 1 .. n |-> CHOOSE i \in 1 .. n : Cardinality(Before(i)) = k - 1]
  <1>1. n \in Nat /\ DOMAIN drafts = 1 .. n
    BY DEF Drafts
  <1>2. score \in [1 .. n -> Int] /\ id \in [1 .. n -> Int]
        /\ \A i, j \in 1 .. n : id[i] = id[j] => i = j
    <2>1. \A i \in 1 .. n : drafts[i].id \in Int
      BY DEF Drafts, Numeric
    <2>2. \A i \in 1 .. n : RankScore(drafts[i], drafts) \in Int
      BY ScoresAreNumbers
    <2>3. \A i, j \in 1 .. n : drafts[i].id = drafts[j].id => i = j
      BY DEF Drafts
    <2> QED  BY <2>1, <2>2, <2>3
  <1>3. \A i, j \in 1 .. n : Precedes(drafts[i], drafts[j], drafts) <=> Over(i, j)
    BY DEF Precedes
  <1> HIDE DEF score, id
  <1>4. \A i, j \in 1 .. n : <<i, j>> \in R <=> Over(i, j)
    OBVIOUS
  <1>5. /\ \A i \in 1 .. n : ~ Over(i, i)
        /\ \A i, j \in 1 .. n : i # j => Over(i, j) \/ Over(j, i)
        /\ \A i, j, k \in 1 .. n : Over(i, j) /\ Over(j, k) => Over(i, k)
    BY <1>2
  <1> HIDE DEF Over, R
  <1>6. \A i \in 1 .. n : Before(i) = {j \in 1 .. n : <<j, i>> \in R}
    BY <1>1, <1>3, <1>4
  <1>7. ranked = [k \in 1 .. n |-> drafts[p[k]]]
    BY <1>1 DEF Rank
  <1> HIDE DEF Before
  <1>8. \A k \in 1 .. n : (\E i \in 1 .. n : Cardinality(Before(i)) = k - 1) =>
          p[k] \in 1 .. n /\ Cardinality(Before(p[k])) = k - 1
    OBVIOUS
  <1>9. DOMAIN p = 1 .. n /\ p = [k \in 1 .. n |-> p[k]]
    OBVIOUS
  <1> HIDE DEF p
  <1>10. /\ p \in [1 .. n -> 1 .. n]
         /\ \A i \in 1 .. n : \E k \in 1 .. n : p[k] = i
         /\ \A k, l \in 1 .. n : k < l => <<p[k], p[l]>> \in R
    <2>1. /\ \A i \in 1 .. n : <<i, i>> \notin R
          /\ \A i, j \in 1 .. n : i # j => <<i, j>> \in R \/ <<j, i>> \in R
          /\ \A i, j, k \in 1 .. n : <<i, j>> \in R /\ <<j, k>> \in R => <<i, k>> \in R
      BY <1>4, <1>5
    <2>2. \A k \in 1 .. n :
            (\E i \in 1 .. n : Cardinality({j \in 1 .. n : <<j, i>> \in R}) = k - 1) =>
              p[k] \in 1 .. n /\ Cardinality({j \in 1 .. n : <<j, p[k]>> \in R}) = k - 1
      BY <1>6, <1>8
    <2> QED  BY <1>1, <1>9, <2>1, <2>2, PlacesByCounting
  <1>11. ASSUME NEW k \in 1 .. n, NEW l \in 1 .. n, k < l
        PROVE  RankScore(ranked[k], drafts) >= RankScore(ranked[l], drafts)
    <2>1. PICK i \in 1 .. n, j \in 1 .. n : i = p[k] /\ j = p[l] /\ <<i, j>> \in R
      BY <1>10, <1>11
    <2>2. Over(i, j)
      BY <1>4, <2>1
    <2>3. score[i] >= score[j]
      BY <1>2, <2>2 DEF Over
    <2>4. ranked[k] = drafts[i] /\ ranked[l] = drafts[j]
      BY <1>7, <2>1
    <2>5. score[i] = RankScore(drafts[i], drafts) /\ score[j] = RankScore(drafts[j], drafts)
      BY DEF score
    <2> QED  BY <2>3, <2>4, <2>5
  <1> QED  BY <1>7, <1>10, <1>11

------------------------------------------------------------------------------
\* The answers of an outcome, and that they are counted once.
Having(answers, S) == {i \in DOMAIN answers : Outcome(answers[i]) \in S}

LEMMA CountedOnce ==
  ASSUME NEW answers, NEW n \in Nat, DOMAIN answers = 1 .. n, NEW S, NEW Q, S \cap Q = {}
  PROVE  /\ Cardinality(Having(answers, S \cup Q)) =
              Cardinality(Having(answers, S)) + Cardinality(Having(answers, Q))
         /\ Cardinality(Having(answers, S)) \in Nat /\ Cardinality(Having(answers, Q)) \in Nat
         /\ IsFiniteSet(Having(answers, S))
  <1> DEFINE D == 1 .. n
             A == Having(answers, S)
             B == Having(answers, Q)
  <1>1. IsFiniteSet(D)
    BY Numbered
  <1>2. A \in SUBSET D /\ B \in SUBSET D /\ A \cap B = {} /\ Having(answers, S \cup Q) = A \cup B
    BY DEF Having
  <1> HIDE DEF D, A, B
  <1>3. IsFiniteSet(A) /\ IsFiniteSet(B)
    BY <1>1, <1>2, FS_Subset
  <1>4. Cardinality(A \cup B) = Cardinality(A) + Cardinality(B) - Cardinality(A \cap B)
    BY <1>3, FS_Union
  <1>5. Cardinality(A) \in Nat /\ Cardinality(B) \in Nat
    BY <1>3, FS_CardinalityType
  <1>6. Cardinality(A \cap B) = 0
    BY <1>2, FS_EmptySet
  <1>7. Cardinality(A \cup B) = Cardinality(A) + Cardinality(B)
    BY <1>4, <1>5, <1>6
  <1>8. Cardinality(Having(answers, S \cup Q)) = Cardinality(A) + Cardinality(B)
    BY <1>2, <1>7
  <1> QED  BY <1>3, <1>5, <1>8 DEF A, B

\* What an answer can come to.
LEMMA Outcomes ==
  ASSUME NEW r
  PROVE  /\ Outcome(r) \in {"skip", "reject_json", "null", "not_a_story", "reject", "accept", "raise"}
         /\ Outcome(r) = "accept" => ItemOutcome(r) = "story" /\ r.item.time # -1
  <1>1. UrlOutcome(r.item.url) \in {"reject", "raise", "ok"}
    BY DEF UrlOutcome
  <1>2. /\ Normalize(r.item) \in {"reject", "raise", "accept"}
        /\ Normalize(r.item) = "accept" => r.item.time # -1
    BY <1>1 DEF Normalize
  <1>3. ItemOutcome(r) \in {"skip", "reject_json", "null", "not_a_story", "reject", "story"}
    BY DEF ItemOutcome
  <1> QED  BY <1>2, <1>3 DEF Outcome

\* A list of answers, as the news service may give them.
Answers(answers, n) ==
  /\ n \in Nat /\ DOMAIN answers = 1 .. n /\ Len(answers) = n
  /\ \A i \in 1 .. n : ItemOutcome(answers[i]) = "story" => Numeric(answers[i].item)

LEMMA KeptDrafts ==
  ASSUME NEW answers, NEW n, Answers(answers, n), NEW kept, kept = Dedupe(answers)
  PROVE  KeptOK(answers, n, kept) /\ Drafts(kept, Len(kept))
  <1>1. n \in Nat /\ DOMAIN answers = 1 .. n /\ Len(answers) = n
    BY DEF Answers
  <1>2. KeptOK(answers, n, kept)
    BY <1>1, DedupeKeepsFirsts
  <1>3. kept \in Seq({answers[i].item : i \in Firsts(answers, n)})
    BY <1>2 DEF KeptOK
  <1>4. Len(kept) \in Nat /\ DOMAIN kept = 1 .. Len(kept)
    BY <1>3
  <1>5. ASSUME NEW k \in 1 .. Len(kept)
        PROVE  Numeric(kept[k]) /\ kept[k].time # -1
    <2>1. PICK i \in Firsts(answers, n) : kept[k] = answers[i].item
      BY <1>3
    <2>2. i \in 1 .. n /\ Outcome(answers[i]) = "accept"
      BY DEF Firsts, Accepted
    <2>3. ItemOutcome(answers[i]) = "story" /\ answers[i].item.time # -1
      BY <2>2, Outcomes
    <2> QED  BY <2>1, <2>2, <2>3 DEF Answers
  <1>6. \A k, l \in 1 .. Len(kept) : kept[k].id = kept[l].id => k = l
    BY <1>2, <1>4 DEF KeptOK
  <1> QED  BY <1>2, <1>4, <1>5, <1>6 DEF Drafts

\* Scores depend on the newest of the drafts only.
LEMMA SameScores ==
  ASSUME NEW a, NEW b,
         {a[i].time : i \in DOMAIN a} = {b[i].time : i \in DOMAIN b}, NEW d
  PROVE  RankScore(d, a) = RankScore(d, b)
  BY DEF RankScore, Recency

\* The smaller of two numbers.
LEMMA Smaller ==
  ASSUME NEW a \in Nat, NEW b \in Nat
  PROVE  Min({a, b}) = IF a <= b THEN a ELSE b
  <1> DEFINE m == IF a <= b THEN a ELSE b
  <1>1. m \in {a, b} /\ \A y \in {a, b} : m <= y
    OBVIOUS
  <1>2. \A x \in {a, b} : (\A y \in {a, b} : x <= y) => x = m
    OBVIOUS
  <1> HIDE DEF m
  <1>3. Min({a, b}) = m
    BY <1>1, <1>2 DEF Min
  <1> QED  BY <1>3 DEF m

\* The stories: the first accepted of every id, in the order of their scores.
StoriesOK(answers, n, stories) ==
  /\ {stories[k] : k \in DOMAIN stories} = {answers[i].item : i \in Firsts(answers, n)}
  /\ Len(stories) \in Nat /\ DOMAIN stories = 1 .. Len(stories)
  /\ stories \in Seq({stories[k] : k \in DOMAIN stories})
  /\ Len(stories) = Cardinality(Firsts(answers, n)) /\ Len(stories) = Len(Dedupe(answers))
  /\ \A k \in 1 .. Len(stories) - 1 :
       RankScore(stories[k], stories) >= RankScore(stories[k + 1], stories)

LEMMA StoriesRanked ==
  ASSUME NEW answers, NEW n, Answers(answers, n), NEW stories, stories = Rank(Dedupe(answers))
  PROVE  StoriesOK(answers, n, stories)
  <1>1. PICK kept : kept = Dedupe(answers)
    OBVIOUS
  <1>2. KeptOK(answers, n, kept) /\ Drafts(kept, Len(kept))
    BY <1>1, KeptDrafts
  <1>3. PICK m : m = Len(kept) /\ m \in Nat /\ DOMAIN kept = 1 .. m
    BY <1>2 DEF Drafts
  <1>4. stories = Rank(kept) /\ Drafts(kept, m)
    BY <1>1, <1>2, <1>3
  <1>5. PICK p \in [1 .. m -> 1 .. m] :
           /\ \A i \in 1 .. m : \E k \in 1 .. m : p[k] = i
           /\ stories = [k \in 1 .. m |-> kept[p[k]]]
           /\ \A k, l \in 1 .. m :
                k < l => RankScore(stories[k], kept) >= RankScore(stories[l], kept)
    BY <1>4, RankOrders
  <1> DEFINE set == {stories[k] : k \in DOMAIN stories}
  <1>6. DOMAIN stories = 1 .. m /\ \A k \in 1 .. m : stories[k] = kept[p[k]] /\ p[k] \in 1 .. m
    BY <1>5
  <1>7. ASSUME NEW i \in 1 .. m PROVE \E k \in 1 .. m : kept[i] = stories[k]
    <2>1. PICK k \in 1 .. m : p[k] = i
      BY <1>5
    <2> QED  BY <1>6, <2>1
  <1>8. \A k \in 1 .. m : \E i \in 1 .. m : kept[i] = stories[k]
    BY <1>6
  <1>9. stories \in Seq(set) /\ Len(stories) = m
    <2>1. stories = [k \in 1 .. m |-> stories[k]] /\ \A k \in 1 .. m : stories[k] \in set
      BY <1>5, <1>6
    <2> HIDE DEF set
    <2>2. stories \in [1 .. m -> set]
      BY <2>1
    <2> QED  BY <1>3, <2>2
  <1>10. set = {kept[i] : i \in 1 .. m}
    <2>1. ASSUME NEW k \in DOMAIN stories PROVE stories[k] \in {kept[i] : i \in 1 .. m}
      BY <1>6, <1>8
    <2>2. ASSUME NEW i \in 1 .. m PROVE kept[i] \in set
      <3>1. PICK k \in 1 .. m : kept[i] = stories[k]
        BY <1>7
      <3> QED  BY <1>6, <3>1
    <2> QED  BY <2>1, <2>2
  <1>11. {kept[i] : i \in 1 .. m} = {answers[i].item : i \in Firsts(answers, n)}
    <2>1. \A k \in 1 .. m : \E i \in Firsts(answers, n) : kept[k] = answers[i].item
      BY <1>2, <1>3 DEF KeptOK
    <2>2. \A i \in Firsts(answers, n) : \E k \in 1 .. m : kept[k] = answers[i].item
      BY <1>2, <1>3 DEF KeptOK
    <2> QED  BY <2>1, <2>2
  <1>12. {stories[k].time : k \in DOMAIN stories} = {kept[i].time : i \in DOMAIN kept}
    <2> DEFINE A == {stories[k].time : k \in DOMAIN stories}
               B == {kept[i].time : i \in DOMAIN kept}
    <2>1. ASSUME NEW k \in DOMAIN stories PROVE stories[k].time \in B
      <3>1. PICK i \in 1 .. m : kept[i] = stories[k]
        BY <1>6, <1>8
      <3> QED  BY <1>3, <3>1
    <2>2. ASSUME NEW i \in DOMAIN kept PROVE kept[i].time \in A
      <3>1. PICK k \in 1 .. m : kept[i] = stories[k]
        BY <1>3, <1>7
      <3> QED  BY <1>6, <3>1
    <2>3. A \subseteq B
      BY <2>1
    <2>4. B \subseteq A
      BY <2>2
    <2> QED  BY <2>3, <2>4
  <1>13. ASSUME NEW k \in 1 .. m - 1
         PROVE  RankScore(stories[k], stories) >= RankScore(stories[k + 1], stories)
    <2>1. RankScore(stories[k], kept) >= RankScore(stories[k + 1], kept)
      BY <1>3, <1>5
    <2>2. /\ RankScore(stories[k], stories) = RankScore(stories[k], kept)
          /\ RankScore(stories[k + 1], stories) = RankScore(stories[k + 1], kept)
      BY <1>12, SameScores
    <2> QED  BY <2>1, <2>2
  <1>14. m = Cardinality(Firsts(answers, n)) /\ m = Len(Dedupe(answers))
    BY <1>1, <1>2, <1>3 DEF KeptOK
  <1> HIDE DEF set
  <1> QED  BY <1>3, <1>6, <1>9, <1>10, <1>11, <1>13, <1>14 DEF set, StoriesOK

\* What is to hold of the collection of a list of answers.
InOrder(c, answers, n) ==
  LET firsts == {i \in Having(answers, {"accept"}) : \A j \in Having(answers, {"accept"}) :
                   j < i => answers[j].item.id # answers[i].item.id}
  IN /\ {c.stories[k] : k \in DOMAIN c.stories} = {answers[i].item : i \in firsts}
     /\ Len(c.stories) = Cardinality(firsts)
     /\ \A k \in 1 .. Len(c.stories) - 1 :
          RankScore(c.stories[k], c.stories) >= RankScore(c.stories[k + 1], c.stories)
     /\ c.candidates = SubSeq(c.stories, 1, Len(c.candidates))
     /\ Len(c.candidates) = Min({CandidateCount, Len(c.stories)})
     /\ c.fetched + Cardinality(Having(answers, {"skip", "reject_json"})) = n
     /\ Len(c.stories) + c.rejected + Cardinality(Having(answers, {"skip", "null", "not_a_story"}))
          = n

LEMMA CollectionIsInOrder ==
  ASSUME NEW answers, NEW n, Answers(answers, n), NEW c, c = CollectionOf(answers), c.ok
  PROVE  InOrder(c, answers, n) /\ Len(c.candidates) \in 0 .. CandidateCount
  <1> DEFINE Count(S) == Cardinality(Having(answers, S))
  <1>1. n \in Nat /\ DOMAIN answers = 1 .. n /\ Len(answers) = n
    BY DEF Answers
  <1>2. PICK stories : stories = Rank(Dedupe(answers))
    OBVIOUS
  <1>3. StoriesOK(answers, n, stories)
    BY <1>2, StoriesRanked
  <1>4. /\ ~ Count({"raise"}) > 0
        /\ c.stories = stories
        /\ c.candidates = SubSeq(stories, 1, Min({CandidateCount, Len(stories)}))
        /\ c.fetched = Count({"null", "not_a_story", "reject", "accept"})
        /\ c.rejected = Count({"reject_json", "reject"}) + Count({"accept"}) - Len(stories)
    BY <1>2, <1>3 DEF CollectionOf, Having, StoriesOK
  <1>5. PICK q \in 0 .. CandidateCount :
          q = Min({CandidateCount, Len(stories)}) /\ q <= Len(stories) /\ q \in Nat
    <2>1. Len(stories) \in Nat /\ CandidateCount \in Nat
      BY <1>3, CollectorAssumption DEF StoriesOK
    <2>2. Min({CandidateCount, Len(stories)}) =
            IF CandidateCount <= Len(stories) THEN CandidateCount ELSE Len(stories)
      BY <2>1, Smaller
    <2> QED  BY <2>1, <2>2
  <1>6. c.candidates = SubSeq(stories, 1, q) /\ Len(c.candidates) = q
    <2>1. PICK S : stories \in Seq(S)
      BY <1>3 DEF StoriesOK
    <2>2. Len(SubSeq(stories, 1, q)) = q
      BY <1>5, <2>1
    <2> QED  BY <1>4, <1>5, <2>2
  <1>7. Firsts(answers, n) = {i \in Having(answers, {"accept"}) : \A j \in Having(answers, {"accept"}) :
                                j < i => answers[j].item.id # answers[i].item.id}
    <2>1. Having(answers, {"accept"}) = Accepted(answers, n)
      BY <1>1 DEF Having, Accepted
    <2> QED  BY <2>1 DEF Firsts
  <1>8. Having(answers, {"raise"}) = {}
    <2>1. IsFiniteSet(Having(answers, {"raise"})) /\ Count({"raise"}) \in Nat
      <3>1. {"raise"} \cap {} = {}
        OBVIOUS
      <3> QED  BY <1>1, <3>1, CountedOnce
    <2>2. Count({"raise"}) = 0
      <3> HIDE DEF Count
      <3> QED  BY <1>4, <2>1
    <2> QED  BY <2>1, <2>2, FS_EmptySet
  <1> DEFINE six == {"skip", "reject_json", "null", "not_a_story", "reject", "accept"}
  <1>9. Count(six) = n
    <2>1. Having(answers, six) = 1 .. n
      <3>1. \A i \in 1 .. n : Outcome(answers[i]) # "raise"
        BY <1>1, <1>8 DEF Having
      <3>2. \A i \in 1 .. n : Outcome(answers[i]) \in six
        BY <3>1, Outcomes
      <3> QED  BY <1>1, <3>2 DEF Having
    <2> QED  BY <1>1, <2>1, Numbered
  <1>10. c.fetched + Count({"skip", "reject_json"}) = n
    <2> DEFINE S == {"null", "not_a_story", "reject", "accept"}
               Q == {"skip", "reject_json"}
    <2>1. S \cap Q = {} /\ S \cup Q = six
      OBVIOUS
    <2> HIDE DEF S, Q, six
    <2>2. Count(S \cup Q) = Count(S) + Count(Q)
      BY <1>1, <2>1, CountedOnce
    <2>3. Count(S) + Count(Q) = n
      BY <1>9, <2>1, <2>2
    <2> QED  BY <1>4, <2>3 DEF S, Q
  <1>11. Len(stories) + c.rejected + Count({"skip", "null", "not_a_story"}) = n
    <2> DEFINE R == {"reject_json", "reject"}
               A == {"accept"}
               S == {"skip", "null", "not_a_story"}
    <2>1. R \cap A = {} /\ (R \cup A) \cap S = {} /\ (R \cup A) \cup S = six
      OBVIOUS
    <2>2. c.rejected = Count(R) + Count(A) - Len(stories)
      BY <1>4
    <2> HIDE DEF R, A, S, six
    <2>3. Count(R \cup A) = Count(R) + Count(A) /\ Count(R) \in Nat /\ Count(A) \in Nat
      BY <1>1, <2>1, CountedOnce
    <2>4. PICK U : U = R \cup A
      OBVIOUS
    <2>5. Count(U \cup S) = Count(U) + Count(S) /\ Count(S) \in Nat
      BY <1>1, <2>1, <2>4, CountedOnce
    <2>6. Count(R) + Count(A) + Count(S) = n
      BY <1>9, <2>1, <2>3, <2>4, <2>5
    <2>7. Len(stories) + c.rejected + Count(S) = n
      <3> HIDE DEF Count
      <3> QED  BY <1>1, <1>3, <2>2, <2>3, <2>5, <2>6 DEF StoriesOK
    <2> QED  BY <2>7 DEF S
  <1> DEFINE firsts == {i \in Having(answers, {"accept"}) : \A j \in Having(answers, {"accept"}) :
                          j < i => answers[j].item.id # answers[i].item.id}
  <1>12. /\ {stories[k] : k \in DOMAIN stories} = {answers[i].item : i \in firsts}
         /\ Len(stories) = Cardinality(firsts)
    <2>1. PICK F : F = Firsts(answers, n) /\ F = firsts
      BY <1>7
    <2>2. /\ {stories[k] : k \in DOMAIN stories} = {answers[i].item : i \in F}
          /\ Len(stories) = Cardinality(F)
      BY <1>3, <2>1 DEF StoriesOK
    <2> HIDE DEF firsts
    <2> QED  BY <2>1, <2>2
  <1>13. \A k \in 1 .. Len(stories) - 1 :
           RankScore(stories[k], stories) >= RankScore(stories[k + 1], stories)
    BY <1>3 DEF StoriesOK
  <1>14. c.candidates = SubSeq(stories, 1, Len(c.candidates))
         /\ Len(c.candidates) = Min({CandidateCount, Len(stories)})
         /\ Len(c.candidates) \in 0 .. CandidateCount
    BY <1>5, <1>6
  <1>15. c.stories = stories
    BY <1>4
  <1> QED
    BY <1>1, <1>10, <1>11, <1>12, <1>13, <1>14, <1>15, Zenon DEF InOrder

------------------------------------------------------------------------------
(***************************************************************************)
(* The invariant: which spans are open at every point of a run, what the   *)
(* handlers of the later agents read, and what was made of a failure.      *)
(***************************************************************************)
ThreadInv ==
  /\ stage \in Stage /\ revision \in Nat /\ attempt \in Nat \ {0}
  /\ pc \in {"ready", "fetching", "calling", "waiting", "backoff", "over"}
  /\ pc = "fetching" => stage = "COLLECT"
  /\ pc \in {"calling", "waiting"} => stage \in Agent
  /\ pc # "over" => end = "none"
  /\ pc \notin {"backoff", "over"} => last = NoFailure

\* The failures after which nobody ends the agent's span.
LeftOpen(failure) == failure.cause.of = "injected" \/ failure.code = "RecursionError"

\* None of them is retried.
RetriedInv == pc = "backoff" => ~ LeftOpen(last)

SpansInv ==
  /\ RetriedInv
  /\ spans \in [collector : Int, agent : Int, provider : Int]
  /\ spans.provider = IF pc = "waiting" THEN 1 ELSE 0
  /\ spans.agent = IF pc \in {"calling", "waiting"} \/ LeftOpen(last) THEN 1 ELSE 0
  /\ stage = "COLLECT" =>
       spans.collector = IF pc \in {"fetching", "over"} THEN attempt ELSE attempt - 1

StoreInv ==
  /\ DOMAIN artifact = Stage /\ audits \in [Agent -> Nat]
  /\ stage \in {"GENERATE_SCENARIO", "REVIEW_SCENARIO"} =>
       artifact["SELECT_TOPIC"].content.outcome = "topic_selected"
  /\ stage = "REVIEW_SCENARIO" =>
       artifact["GENERATE_SCENARIO"].content.panels \in PanelMin .. PanelMax

\* An agent refuses what another agent wrote only for a blank punchline,
\* which validate_scenario_output lets through, or for a text that
\* _substitute_mustache takes for a variable.
OutputsAccepted ==
  /\ last.code = "AGT_INPUT" /\ stage # "SELECT_TOPIC" =>
       stage = "REVIEW_SCENARIO" /\ InputOf(stage).punchline = "blank"
  /\ last.code = "AGT_PROMPT" => last.cause.file # "good" \/ Mustache(stage, InputOf(stage))

FailureInv == RetriedIffTemporary /\ OutputsAccepted

StageInv == ThreadInv /\ SpansInv /\ StoreInv /\ FailureInv

------------------------------------------------------------------------------
\* Where a completed stage leads.
LEMMA AdvanceStep ==
  ASSUME ThreadInv, NEW signal, Advance(signal),
         \/ stage = "COLLECT" /\ signal = "STAGE_COMPLETED"
         \/ stage = "SELECT_TOPIC" /\ signal \in {"STAGE_COMPLETED", "NO_SUITABLE_TOPIC"}
         \/ stage = "GENERATE_SCENARIO" /\ signal = "STAGE_COMPLETED"
         \/ stage = "REVIEW_SCENARIO" /\ signal \in {"CRITIC_PASS", "CRITIC_REVISE"}
  PROVE  /\ revision' \in Nat
         /\ \/ /\ pc' = "over" /\ stage' = stage /\ attempt' = attempt /\ stage # "COLLECT"
               /\ revision' = revision
               /\ \/ stage = "SELECT_TOPIC" /\ end' = "NO_SUITABLE_TOPIC"
                  \/ stage = "REVIEW_SCENARIO" /\ end' = "REVIEW_PASSED"
                  \/ /\ stage = "REVIEW_SCENARIO" /\ end' = "REVIEW_FAILED"
                     /\ revision >= MaxRevisions
            \/ /\ pc' = "ready" /\ attempt' = 1 /\ end' = end
               /\ \/ stage = "COLLECT" /\ stage' = "SELECT_TOPIC" /\ revision' = revision
                  \/ /\ stage = "SELECT_TOPIC" /\ signal = "STAGE_COMPLETED"
                     /\ stage' = "GENERATE_SCENARIO" /\ revision' = revision
                  \/ /\ stage = "GENERATE_SCENARIO" /\ stage' = "REVIEW_SCENARIO"
                     /\ revision' = revision
                  \/ /\ stage = "REVIEW_SCENARIO" /\ stage' = "GENERATE_SCENARIO"
                     /\ revision < MaxRevisions /\ revision' = revision + 1
  <1> DEFINE d == Decision(signal)
  <1>1. revision \in Nat /\ MaxRevisions \in Nat
    BY StageAssumption DEF ThreadInv
  <1>2. ASSUME NEW x, T!Lookup(T!ExpectedStateForTask(stage), signal, revision, MaxRevisions) = {x}
        PROVE  d = x
    BY <1>2 DEF Decision
  <1> HIDE DEF d
  <1>3. \/ /\ stage = "COLLECT"
           /\ d = T!Decide("COLLECTING", "COLLECTED", "SELECT_TOPIC", FALSE, FALSE)
        \/ /\ stage = "SELECT_TOPIC" /\ signal = "STAGE_COMPLETED"
           /\ d = T!Decide("SELECTING_TOPIC", "TOPIC_SELECTED", "GENERATE_SCENARIO", FALSE, FALSE)
        \/ /\ stage = "SELECT_TOPIC"
           /\ d = T!Decide("SELECTING_TOPIC", "NO_SUITABLE_TOPIC", T!NoTask, FALSE, FALSE)
        \/ /\ stage = "GENERATE_SCENARIO"
           /\ d = T!Decide("GENERATING_SCENARIO", "SCENARIO_GENERATED", "REVIEW_SCENARIO",
                           FALSE, FALSE)
        \/ /\ stage = "REVIEW_SCENARIO"
           /\ \/ d = T!Decide("REVIEWING", "REVIEW_PASSED", T!NoTask, FALSE, FALSE)
              \/ /\ revision >= MaxRevisions
                 /\ d = T!Decide("REVIEWING", "REVIEW_FAILED", T!NoTask, FALSE, FALSE)
              \/ /\ revision < MaxRevisions
                 /\ d = T!Decide("REVIEWING", "REVISION_REQUIRED", T!NoTask, TRUE, FALSE)
    <2>1. CASE stage = "COLLECT"
      <3>1. T!ExpectedStateForTask(stage) = "COLLECTING"
        BY <2>1 DEF T!ExpectedStateForTask
      <3> QED  BY <1>1, <1>2, <2>1, <3>1, TableDecisions
    <2>2. CASE stage = "SELECT_TOPIC"
      <3>1. T!ExpectedStateForTask(stage) = "SELECTING_TOPIC"
        BY <2>2 DEF T!ExpectedStateForTask
      <3>2. CASE signal = "STAGE_COMPLETED"
        <4>1. T!Lookup("SELECTING_TOPIC", "STAGE_COMPLETED", revision, MaxRevisions) =
                {T!Decide("SELECTING_TOPIC", "TOPIC_SELECTED", "GENERATE_SCENARIO", FALSE, FALSE)}
          BY <1>1, TableDecisions
        <4>2. d = T!Decide("SELECTING_TOPIC", "TOPIC_SELECTED", "GENERATE_SCENARIO", FALSE, FALSE)
          BY <1>2, <3>1, <3>2, <4>1
        <4> QED  BY <2>2, <3>2, <4>2
      <3>3. CASE signal = "NO_SUITABLE_TOPIC"
        <4>1. T!Lookup("SELECTING_TOPIC", "NO_SUITABLE_TOPIC", revision, MaxRevisions) =
                {T!Decide("SELECTING_TOPIC", "NO_SUITABLE_TOPIC", T!NoTask, FALSE, FALSE)}
          BY <1>1, TableDecisions
        <4>2. d = T!Decide("SELECTING_TOPIC", "NO_SUITABLE_TOPIC", T!NoTask, FALSE, FALSE)
          BY <1>2, <3>1, <3>3, <4>1
        <4> QED  BY <2>2, <3>3, <4>2
      <3> QED  BY <2>2, <3>2, <3>3
    <2>3. CASE stage = "GENERATE_SCENARIO"
      <3>1. T!ExpectedStateForTask(stage) = "GENERATING_SCENARIO"
        BY <2>3 DEF T!ExpectedStateForTask
      <3> QED  BY <1>1, <1>2, <2>3, <3>1, TableDecisions
    <2>4. CASE stage = "REVIEW_SCENARIO"
      <3>1. T!ExpectedStateForTask(stage) = "REVIEWING"
        BY <2>4 DEF T!ExpectedStateForTask
      <3>2. CASE signal = "CRITIC_PASS"
        <4>1. T!Lookup("REVIEWING", "CRITIC_PASS", revision, MaxRevisions) =
                {T!Decide("REVIEWING", "REVIEW_PASSED", T!NoTask, FALSE, FALSE)}
          BY <1>1, TableDecisions
        <4>2. d = T!Decide("REVIEWING", "REVIEW_PASSED", T!NoTask, FALSE, FALSE)
          BY <1>2, <3>1, <3>2, <4>1
        <4> QED  BY <2>4, <3>2, <4>2
      <3>3. CASE signal = "CRITIC_REVISE" /\ revision >= MaxRevisions
        BY <1>1, <1>2, <2>4, <3>1, <3>3, TableDecisions
      <3>4. CASE signal = "CRITIC_REVISE" /\ ~ revision >= MaxRevisions
        <4>1. revision < MaxRevisions
          BY <1>1, <3>4
        <4>2. d = T!Decide("REVIEWING", "REVISION_REQUIRED", T!NoTask, TRUE, FALSE)
          <5>1. T!Lookup("REVIEWING", "CRITIC_REVISE", revision, MaxRevisions) =
                  {T!Decide("REVIEWING", "REVISION_REQUIRED", T!NoTask, TRUE, FALSE)}
            BY <1>1, <3>4, TableDecisions
          <5> QED  BY <1>2, <3>1, <3>4, <5>1
        <4> QED  BY <2>4, <4>1, <4>2
      <3> QED  BY <2>4, <3>2, <3>3, <3>4
    <2> QED  BY <2>1, <2>2, <2>3, <2>4
  <1>4. /\ revision' = IF d.incRev THEN revision + 1 ELSE revision
        /\ LET next == IF d.to = "REVISION_REQUIRED" THEN "GENERATE_SCENARIO"
                       ELSE T!ExpectedOutboxTask(d.to)
           IN IF next = T!NoTask
              THEN pc' = "over" /\ end' = d.to /\ UNCHANGED <<stage, attempt>>
              ELSE pc' = "ready" /\ stage' = next /\ attempt' = 1 /\ UNCHANGED end
    BY DEF Advance, d
  <1>5. revision' \in Nat
    BY <1>1, <1>4
  <1>6. /\ T!ExpectedOutboxTask("COLLECTED") = "SELECT_TOPIC"
        /\ T!ExpectedOutboxTask("TOPIC_SELECTED") = "GENERATE_SCENARIO"
        /\ T!ExpectedOutboxTask("SCENARIO_GENERATED") = "REVIEW_SCENARIO"
        /\ \A s \in {"NO_SUITABLE_TOPIC", "REVIEW_PASSED", "REVIEW_FAILED"} :
             T!ExpectedOutboxTask(s) = T!NoTask
    BY DEF T!ExpectedOutboxTask
  <1>7. CASE stage = "COLLECT"
    BY <1>3, <1>4, <1>5, <1>6, <1>7 DEF T!Decide, T!NoTask
  <1>8. CASE stage = "SELECT_TOPIC"
    BY <1>3, <1>4, <1>5, <1>6, <1>8 DEF T!Decide, T!NoTask
  <1>9. CASE stage = "GENERATE_SCENARIO"
    BY <1>3, <1>4, <1>5, <1>6, <1>9 DEF T!Decide, T!NoTask
  <1>10. CASE stage = "REVIEW_SCENARIO"
    BY <1>3, <1>4, <1>5, <1>6, <1>10 DEF T!Decide, T!NoTask
  <1> QED  BY <1>7, <1>8, <1>9, <1>10

\* What becomes of a failure.
LEMMA FailStep ==
  ASSUME ThreadInv, NEW code, NEW cause, Fail(code, cause)
  PROVE  /\ stage' = stage /\ revision' = revision /\ active' = active /\ repo' = repo
         /\ last'.cause = cause /\ last'.code = code
         /\ \/ /\ pc' = "backoff" /\ attempt' = attempt + 1 /\ end' = end
               /\ Retryable(code) /\ last'.retried = TRUE /\ attempt < MaxAttempts
            \/ /\ pc' = "over" /\ attempt' = attempt /\ last'.retried = FALSE
               /\ end' = IF Retryable(code) THEN "FAILED_PERMANENTLY" ELSE "FAILED"
               /\ Retryable(code) => ~ attempt < MaxAttempts
  <1>1. ASSUME NEW signal, NEW x,
               T!Lookup(T!ExpectedStateForTask(stage), signal, revision, MaxRevisions) = {x}
        PROVE  Decision(signal) = x
    BY <1>1 DEF Decision
  <1>2. T!ExpectedStateForTask(stage) \in
          {"COLLECTING", "SELECTING_TOPIC", "GENERATING_SCENARIO", "REVIEWING"}
    BY DEF ThreadInv, Stage, T!ExpectedStateForTask
  <1>3. PICK state \in {"COLLECTING", "SELECTING_TOPIC", "GENERATING_SCENARIO", "REVIEWING"} :
          state = T!ExpectedStateForTask(stage)
    BY <1>2
  <1>4. /\ Decision("RETRIES_EXHAUSTED") = T!Move(state, "FAILED_PERMANENTLY")
        /\ Decision("UNRECOVERABLE_ERROR") = T!Move(state, "FAILED")
    BY <1>1, <1>3, TableFailures
  <1>5. /\ Decision("RETRIES_EXHAUSTED").to = "FAILED_PERMANENTLY"
        /\ Decision("UNRECOVERABLE_ERROR").to = "FAILED"
    BY <1>4 DEF T!Move, T!Decide
  <1> DEFINE retried == Retryable(code) /\ attempt < MaxAttempts
  <1>6. stage' = stage /\ revision' = revision /\ active' = active /\ repo' = repo
    BY DEF Fail, config
  <1>7. /\ last' = [cause |-> cause, code |-> code, retried |-> retried]
        /\ IF retried
           THEN pc' = "backoff" /\ attempt' = attempt + 1 /\ end' = end
           ELSE /\ pc' = "over" /\ attempt' = attempt
                /\ end' = IF Retryable(code) THEN Decision("RETRIES_EXHAUSTED").to
                          ELSE Decision("UNRECOVERABLE_ERROR").to
    BY DEF Fail
  <1>8. retried <=> Retryable(code) /\ attempt < MaxAttempts
    OBVIOUS
  <1>9. retried \in BOOLEAN
    OBVIOUS
  <1> HIDE DEF retried
  <1>10. last'.cause = cause /\ last'.code = code /\ last'.retried = retried
    BY <1>7
  <1> QED  BY <1>5, <1>6, <1>7, <1>8, <1>9, <1>10

\* A failure keeps what is stored, and is retried or not for its cause.
LEMMA FailKeeps ==
  ASSUME StageInv, pc # "over", NEW code, NEW cause, Fail(code, cause),
         artifact' = artifact, audits' = audits,
         cause.of \in {"feed", "vendor"} /\ code # "InjectedFailureError" =>
           (Retryable(code) <=> Temporary(cause)),
         code = "AGT_INPUT" /\ stage # "SELECT_TOPIC" =>
           stage = "REVIEW_SCENARIO" /\ InputOf(stage).punchline = "blank",
         code = "AGT_PROMPT" => cause.file # "good" \/ Mustache(stage, InputOf(stage))
  PROVE  ThreadInv' /\ StoreInv' /\ FailureInv'
  <1> USE DEF StageInv
  <1>1. /\ stage' = stage /\ revision' = revision
        /\ last'.cause = cause /\ last'.code = code
        /\ \/ /\ pc' = "backoff" /\ attempt' = attempt + 1 /\ end' = end
              /\ Retryable(code) /\ last'.retried = TRUE
           \/ /\ pc' = "over" /\ attempt' = attempt /\ last'.retried = FALSE
              /\ end' = IF Retryable(code) THEN "FAILED_PERMANENTLY" ELSE "FAILED"
    BY FailStep
  <1>2. ThreadInv'
    BY <1>1 DEF ThreadInv
  <1>3. StoreInv'
    BY <1>1 DEF StoreInv
  <1>4. RetriedIffTemporary'
    <2>1. end = "none"
      BY DEF ThreadInv
    <2>2. cause.of \in {"feed", "vendor"} /\ code # "InjectedFailureError" =>
            /\ last'.retried => Temporary(cause)
            /\ end' = "FAILED" => ~ Temporary(cause)
      BY <1>1, <2>1
    <2> QED  BY <1>1, <2>2 DEF RetriedIffTemporary, Temporary
  <1>5. OutputsAccepted'
    <2>1. InputOf(stage)' = InputOf(stage)
      BY <1>1 DEF InputOf, TopicInput, ScenarioInput, CriticInput
    <2> QED  BY <1>1, <2>1 DEF OutputsAccepted
  <1> QED  BY <1>2, <1>3, <1>4, <1>5 DEF FailureInv

\* A step that leaves the failures and the store alone keeps them.
LEMMA QuietStep ==
  ASSUME StageInv, UNCHANGED <<stage, end, artifact, audits, last>>
  PROVE  StoreInv' /\ FailureInv'
  <1> USE DEF StageInv
  <1>1. StoreInv'
    BY DEF StoreInv
  <1>2. RetriedIffTemporary'
    BY DEF FailureInv, RetriedIffTemporary, Temporary
  <1>3. OutputsAccepted'
    BY DEF FailureInv, OutputsAccepted, InputOf, TopicInput, ScenarioInput, CriticInput
  <1> QED  BY <1>1, <1>2, <1>3 DEF FailureInv

\* A failed run leaves nothing in the database.
LEMMA RunFailsStep ==
  ASSUME NEW seen, NEW cause, RunFails(seen, cause), AfterAgent(seen) # "ok"
  PROVE  Fail(AfterAgent(seen), cause) /\ artifact' = artifact /\ audits' = audits
  BY DEF RunFails, Committed

\* Without a failure nothing is said of one.
LEMMA NoFailureStep ==
  ASSUME last' = NoFailure
  PROVE  FailureInv'
  BY DEF FailureInv, RetriedIffTemporary, OutputsAccepted, NoFailure

\* A collection starts its span, and a failed feed leaves it open.
LEMMA FetchFeedStep ==
  ASSUME StageInv, FetchFeed
  PROVE  StageInv'
  <1> USE DEF StageInv
  <1>1. pc = "ready" /\ stage = "COLLECT" /\ spans' = [spans EXCEPT !.collector = @ + 1]
    BY DEF FetchFeed
  <1>2. spans' \in [collector : Int, agent : Int, provider : Int] /\ attempt \in Nat
    BY <1>1 DEF SpansInv, ThreadInv
  <1>3. /\ spans'.collector = spans.collector + 1 /\ spans'.agent = spans.agent
        /\ spans'.provider = spans.provider
    BY <1>1 DEF SpansInv
  <1>4. CASE \E f \in FeedFailures : /\ Fail(ClassifyFeedFailure(f), [of |-> "feed", feed |-> f])
                                     /\ UNCHANGED <<artifact, audits>>
    <2>1. PICK f \in FeedFailures : /\ Fail(ClassifyFeedFailure(f), [of |-> "feed", feed |-> f])
                                    /\ UNCHANGED <<artifact, audits>>
      BY <1>4
    <2>2. /\ ClassifyFeedFailure(f) \notin {"AGT_INPUT", "AGT_PROMPT", "RecursionError"}
          /\ Retryable(ClassifyFeedFailure(f)) <=> Temporary([of |-> "feed", feed |-> f])
      BY FeedClassified
    <2>3. ThreadInv' /\ StoreInv' /\ FailureInv'
      BY <1>1, <2>1, <2>2, FailKeeps
    <2>4. /\ stage' = stage /\ last'.cause.of = "feed" /\ last'.code = ClassifyFeedFailure(f)
          /\ \/ pc' = "backoff" /\ attempt' = attempt + 1
             \/ pc' = "over" /\ attempt' = attempt
      <3>1. PICK code, cause : code = ClassifyFeedFailure(f) /\ cause = [of |-> "feed", feed |-> f]
        OBVIOUS
      <3>2. cause.of = "feed"
        BY <3>1
      <3> QED  BY <2>1, <3>1, <3>2, FailStep
    <2>5. SpansInv'
      BY <1>1, <1>2, <1>3, <2>2, <2>4 DEF SpansInv, RetriedInv, LeftOpen, ThreadInv, NoFailure
    <2> QED  BY <2>3, <2>5
  <1>5. CASE pc' = "fetching" /\ UNCHANGED <<task, artifact, audits, last, config>>
    <2>1. ThreadInv'
      BY <1>1, <1>5 DEF ThreadInv, task
    <2>2. SpansInv'
      BY <1>1, <1>2, <1>3, <1>5 DEF SpansInv, RetriedInv, LeftOpen, ThreadInv, NoFailure, task
    <2>3. StoreInv' /\ FailureInv'
      BY <1>5, QuietStep DEF task
    <2> QED  BY <2>1, <2>2, <2>3
  <1> QED  BY <1>4, <1>5 DEF FetchFeed

\* An item that arrives changes nothing else.
LEMMA FetchItemStep ==
  ASSUME StageInv, NEW i, FetchItem(i)
  PROVE  StageInv'
  <1> USE DEF StageInv
  <1>1. UNCHANGED <<stage, revision, attempt, end, pc, artifact, audits, spans, last>>
    BY DEF FetchItem, task
  <1>2. ThreadInv' /\ SpansInv'
    BY <1>1 DEF ThreadInv, SpansInv, RetriedInv, LeftOpen
  <1> QED  BY <1>1, <1>2, QuietStep

\* A retry starts without a failure.
LEMMA RetryDueStep ==
  ASSUME StageInv, RetryDue
  PROVE  StageInv'
  <1> USE DEF StageInv
  <1>1. /\ pc = "backoff" /\ pc' = "ready" /\ last' = NoFailure
        /\ UNCHANGED <<stage, revision, attempt, end, artifact, audits, spans>>
    BY DEF RetryDue, task
  <1>2. ThreadInv' /\ SpansInv'
    BY <1>1 DEF ThreadInv, SpansInv, RetriedInv, LeftOpen, NoFailure
  <1>3. StoreInv'
    BY <1>1 DEF StoreInv
  <1> QED  BY <1>1, <1>2, <1>3, NoFailureStep

\* The only exception of a whole collection is the URL library's.
LEMMA CollectionCode ==
  ASSUME NEW r, ~ CollectionOf(r).ok
  PROVE  CollectionOf(r).code = "ValueError"
  BY DEF CollectionOf

\* A collection ends its span if it is stored.
LEMMA CollectStep ==
  ASSUME StageInv, Collect
  PROVE  StageInv'
  <1> USE DEF StageInv
  <1>1. PICK c : c = CollectionOf(results)
    OBVIOUS
  <1>2. pc = "fetching" /\ stage = "COLLECT" /\ last = NoFailure /\ attempt \in Nat
    BY DEF Collect, ThreadInv
  <1>3. ASSUME NEW code, NEW cause, Fail(code, cause), UNCHANGED <<artifact, audits, spans>>,
               code \notin {"AGT_INPUT", "AGT_PROMPT", "RecursionError"}, cause.of # "injected",
               cause.of \in {"feed", "vendor"} => (Retryable(code) <=> Temporary(cause))
        PROVE  StageInv'
    <2>1. ThreadInv' /\ StoreInv' /\ FailureInv'
      BY <1>2, <1>3, FailKeeps
    <2>2. /\ stage' = stage /\ last'.cause = cause /\ last'.code = code
          /\ \/ pc' = "backoff" /\ attempt' = attempt + 1
             \/ pc' = "over" /\ attempt' = attempt
      BY <1>3, FailStep
    <2>3. SpansInv'
      BY <1>2, <1>3, <2>2 DEF SpansInv, RetriedInv, LeftOpen, NoFailure
    <2> QED  BY <2>1, <2>3
  <1>4. CASE /\ served[1].error = "connection"
             /\ Fail("COL_FETCH", [of |-> "feed", feed |-> served[1]])
             /\ UNCHANGED <<artifact, audits, spans>>
    <2>1. PICK f : f = served[1]
      OBVIOUS
    <2>2. Temporary([of |-> "feed", feed |-> f]) /\ Retryable("COL_FETCH")
      BY <1>4, <2>1 DEF Temporary, Retryable
    <2> QED  BY <1>3, <1>4, <2>1, <2>2
  <1>5. CASE /\ c.ok
             /\ artifact' = [artifact EXCEPT !["COLLECT"] = c]
             /\ spans' = [spans EXCEPT !.collector = @ - 1]
             /\ Advance("STAGE_COMPLETED")
             /\ UNCHANGED <<audits, last, config>>
    <2>1. /\ revision' \in Nat /\ pc' = "ready" /\ attempt' = 1 /\ end' = end
          /\ stage' = "SELECT_TOPIC"
      BY <1>2, <1>5, AdvanceStep
    <2>2. ThreadInv'
      BY <1>2, <1>5, <2>1 DEF ThreadInv, Stage, Agent
    <2>3. /\ spans' \in [collector : Int, agent : Int, provider : Int]
          /\ spans'.agent = spans.agent /\ spans'.provider = spans.provider
      BY <1>5 DEF SpansInv
    <2>4. SpansInv'
      BY <1>2, <1>5, <2>1, <2>3 DEF SpansInv, RetriedInv, LeftOpen, NoFailure
    <2>5. StoreInv'
      <3>1. DOMAIN artifact' = Stage /\ \A s \in Agent : artifact'[s] = artifact[s]
        BY <1>5 DEF StoreInv, Agent
      <3>2. audits' = audits
        BY <1>5
      <3> QED  BY <2>1, <3>1, <3>2 DEF StoreInv
    <2> QED  BY <1>2, <1>5, <2>2, <2>4, <2>5, NoFailureStep
  <1>6. CASE /\ ~ c.ok /\ Fail(c.code, [of |-> "item"])
             /\ UNCHANGED <<artifact, audits, spans>>
    <2>1. c.code = "ValueError"
      BY <1>1, <1>6, CollectionCode
    <2> QED  BY <1>3, <1>6, <2>1
  <1> QED  BY <1>1, <1>4, <1>5, <1>6 DEF Collect

\* What a run is refused before its call, and why.
LEMMA PrepareRefuses ==
  ASSUME NEW s \in Agent, NEW input, NEW file, NEW hit, NEW code,
         code = Prepare(s, input, file, hit)
  PROVE  /\ code \in {"ok", "AGT_INPUT", "AGT_PROMPT", "UnicodeDecodeError"}
         /\ code = "AGT_INPUT" => ValidateInput(s, input) = "AGT_INPUT"
         /\ code = "AGT_PROMPT" => file # "good" \/ Mustache(s, input)
  <1>1. /\ LoadPrompt(file, hit) \in {"ok", "AGT_PROMPT", "UnicodeDecodeError"}
        /\ LoadPrompt(file, hit) = "AGT_PROMPT" => file # "good"
    BY DEF LoadPrompt
  <1>2. /\ Substitute(s, input, PromptText(file, hit)) \in {"ok", "AGT_PROMPT"}
        /\ Substitute(s, input, PromptText(file, hit)) = "AGT_PROMPT" =>
             file # "good" \/ Mustache(s, input)
    BY DEF Substitute, PromptText
  <1>3. ValidateInput(s, input) \in {"ok", "AGT_INPUT"}
    BY DEF ValidateInput, Agent, Stage
  <1> QED  BY <1>1, <1>2, <1>3, PrepareRules

\* What InputValidator refuses of the other agents' outputs.
LEMMA RefusedInput ==
  ASSUME StageInv, stage \in Agent, stage # "SELECT_TOPIC",
         ValidateInput(stage, InputOf(stage)) = "AGT_INPUT"
  PROVE  stage = "REVIEW_SCENARIO" /\ InputOf(stage).punchline = "blank"
  <1> USE DEF StageInv
  <1>1. stage \in {"GENERATE_SCENARIO", "REVIEW_SCENARIO"}
    BY DEF Agent, Stage
  <1>2. stage # "GENERATE_SCENARIO"
    BY DEF ValidateInput, InputOf, ScenarioInput, StoreInv
  <1>3. CriticInput.panels # 0
    BY <1>1, <1>2, AgentsAssumption DEF StoreInv, CriticInput
  <1>4. stage = "REVIEW_SCENARIO" /\ InputOf(stage) = CriticInput
    BY <1>1, <1>2 DEF InputOf
  <1> QED  BY <1>3, <1>4 DEF ValidateInput

\* A run starts the agent's span once its input and prompt are good.
LEMMA BeginRunStep ==
  ASSUME StageInv, BeginRun
  PROVE  StageInv'
  <1> USE DEF StageInv
  <1>1. pc = "ready" /\ stage \in Agent /\ last = NoFailure
    BY DEF BeginRun, ThreadInv, Agent
  <1>2. PICK key, file, code :
          /\ code = IF key THEN Prepare(stage, InputOf(stage), file, cached[stage])
                    ELSE "PRV_CONFIG"
          /\ IF code = "ok"
             THEN /\ pc' = "calling"
                  /\ spans' = [spans EXCEPT !.agent = @ + 1]
                  /\ UNCHANGED <<task, artifact, audits, last, config>>
             ELSE /\ RunFails(code, [of |-> "run", file |-> file])
                  /\ UNCHANGED spans
    BY DEF BeginRun
  <1>3. CASE code = "ok"
    <2>1. /\ pc' = "calling" /\ spans' = [spans EXCEPT !.agent = @ + 1]
          /\ UNCHANGED <<stage, revision, attempt, end, artifact, audits, last>>
      BY <1>2, <1>3 DEF task
    <2>2. ThreadInv'
      BY <1>1, <2>1 DEF ThreadInv
    <2>3. /\ spans' \in [collector : Int, agent : Int, provider : Int]
          /\ spans'.agent = spans.agent + 1 /\ spans'.provider = spans.provider
      BY <2>1 DEF SpansInv
    <2>4. SpansInv'
      BY <1>1, <2>1, <2>3 DEF SpansInv, RetriedInv, LeftOpen, NoFailure, Agent
    <2> QED  BY <2>1, <2>2, <2>4, QuietStep
  <1>4. CASE code # "ok"
    <2>1. PICK s, input, hit :
            s \in Agent /\ s = stage /\ input = InputOf(stage) /\ hit = cached[stage]
      BY <1>1
    <2>2. /\ code \in {"AGT_INPUT", "AGT_PROMPT", "UnicodeDecodeError", "PRV_CONFIG"}
          /\ code = "AGT_INPUT" => ValidateInput(s, input) = "AGT_INPUT"
          /\ code = "AGT_PROMPT" => file # "good" \/ Mustache(s, input)
      BY <1>2, <1>4, <2>1, PrepareRefuses
    <2>3. PICK raised, cause : raised = AfterAgent(code) /\ cause = [of |-> "run", file |-> file]
      OBVIOUS
    <2>4. raised \in {code, "InjectedFailureError"}
      BY <2>3 DEF AfterAgent
    <2>5. Fail(raised, cause) /\ artifact' = artifact /\ audits' = audits /\ spans' = spans
      <3>1. RunFails(code, cause) /\ spans' = spans
        BY <1>2, <1>4, <2>3
      <3> QED  BY <1>4, <2>3, <2>4, <3>1, RunFailsStep
    <2>6. cause.of = "run" /\ cause.file = file
      BY <2>3
    <2>7. raised = "AGT_INPUT" /\ stage # "SELECT_TOPIC" =>
            stage = "REVIEW_SCENARIO" /\ InputOf(stage).punchline = "blank"
      BY <1>1, <2>1, <2>2, <2>4, RefusedInput
    <2>8. raised = "AGT_PROMPT" => cause.file # "good" \/ Mustache(stage, InputOf(stage))
      BY <2>1, <2>2, <2>4, <2>6
    <2>9. ThreadInv' /\ StoreInv' /\ FailureInv'
      BY <1>1, <2>5, <2>6, <2>7, <2>8, FailKeeps
    <2>10. /\ stage' = stage /\ last'.cause = cause /\ last'.code = raised
           /\ pc' \in {"backoff", "over"}
      BY <2>5, FailStep
    <2>11. SpansInv'
      BY <1>1, <2>2, <2>4, <2>5, <2>6, <2>10 DEF SpansInv, RetriedInv, LeftOpen, NoFailure, Agent
    <2> QED  BY <2>9, <2>11
  <1> QED  BY <1>3, <1>4

\* A call starts the provider's span, or ends the agent's, or leaves it to an injection.
LEMMA CallStep ==
  ASSUME StageInv, Call
  PROVE  StageInv'
  <1> USE DEF StageInv
  <1>1. pc = "calling" /\ stage \in Agent /\ stage # "COLLECT" /\ last = NoFailure
    BY DEF Call, ThreadInv, Agent
  <1>2. CASE InjectionGate # "ok" /\ RunFails(InjectionGate, [of |-> "injected"]) /\ UNCHANGED spans
    <2>1. PICK seen, cause :
            /\ seen = InjectionGate /\ seen \in {"TimeoutError", "InjectedFailureError"}
            /\ cause = [of |-> "injected"]
      BY <1>2 DEF InjectionGate
    <2>2. AfterAgent(seen) = seen /\ ~ Retryable(seen)
      BY <2>1 DEF AfterAgent, Audited, Retryable, ProviderError, RetryableProviderError
    <2>3. Fail(seen, cause) /\ artifact' = artifact /\ audits' = audits
      BY <1>2, <2>1, <2>2, RunFailsStep
    <2>4. cause.of = "injected"
      BY <2>1
    <2>5. ThreadInv' /\ StoreInv' /\ FailureInv'
      BY <1>1, <2>1, <2>3, <2>4, FailKeeps
    <2>6. stage' = stage /\ last'.cause = cause /\ pc' = "over"
      BY <2>2, <2>3, FailStep
    <2>7. SpansInv'
      BY <1>1, <1>2, <2>4, <2>6 DEF SpansInv, RetriedInv, LeftOpen
    <2> QED  BY <2>5, <2>7
  <1>3. CASE /\ RunFails("PRV_RATE", [of |-> "client"])
             /\ spans' = [spans EXCEPT !.agent = @ - 1]
    <2>1. PICK raised, cause :
            /\ raised = AfterAgent("PRV_RATE") /\ cause = [of |-> "client"]
            /\ raised \in {"PRV_RATE", "InjectedFailureError"}
      BY DEF AfterAgent
    <2>2. Fail(raised, cause) /\ artifact' = artifact /\ audits' = audits
      BY <1>3, <2>1, RunFailsStep
    <2>3. cause.of = "client"
      BY <2>1
    <2>4. ThreadInv' /\ StoreInv' /\ FailureInv'
      BY <1>1, <2>1, <2>2, <2>3, FailKeeps
    <2>5. /\ stage' = stage /\ last'.cause = cause /\ last'.code = raised
          /\ pc' \in {"backoff", "over"}
      BY <2>2, FailStep
    <2>6. /\ spans' \in [collector : Int, agent : Int, provider : Int]
          /\ spans'.agent = spans.agent - 1 /\ spans'.provider = spans.provider
      BY <1>3 DEF SpansInv
    <2>7. SpansInv'
      BY <1>1, <2>1, <2>3, <2>5, <2>6 DEF SpansInv, RetriedInv, LeftOpen, NoFailure
    <2> QED  BY <2>4, <2>7
  <1>4. CASE /\ pc' = "waiting"
             /\ spans' = [spans EXCEPT !.provider = @ + 1]
             /\ UNCHANGED <<task, artifact, audits, last, config>>
    <2>1. ThreadInv'
      BY <1>1, <1>4 DEF ThreadInv, task
    <2>2. /\ spans' \in [collector : Int, agent : Int, provider : Int]
          /\ spans'.agent = spans.agent /\ spans'.provider = spans.provider + 1
      BY <1>4 DEF SpansInv
    <2>3. SpansInv'
      BY <1>1, <1>4, <2>2 DEF SpansInv, RetriedInv, LeftOpen, NoFailure, task
    <2> QED  BY <1>4, <2>1, <2>3, QuietStep DEF task
  <1> QED  BY <1>2, <1>3, <1>4 DEF Call

\* What an agent makes of an answer.
LEMMA OutputCodes ==
  ASSUME NEW s \in Agent, NEW a
  PROVE  /\ ValidateOutput(s, a) \in {"ok", "AGT_OUTPUT", "RecursionError"}
         /\ ValidateOutput(s, a) = "ok" /\ s = "GENERATE_SCENARIO" =>
              a.panels \in PanelMin .. PanelMax
  <1>1. ValidateOutput(s, a) =
          IF ParseContent(a) # "ok" THEN ParseContent(a)
          ELSE IF s = "SELECT_TOPIC" THEN ValidateTopic(a)
          ELSE IF s = "GENERATE_SCENARIO" THEN ValidateScenario(a) ELSE ValidateCritic(a)
    BY DEF ValidateOutput, Agent, Stage
  <1> QED
    BY <1>1 DEF ParseContent, ValidateTopic, ValidateScenario, ValidateCritic

\* The transaction of a completed run: all of it, or nothing.
LEMMA StoreSplits ==
  ASSUME NEW content, Store(content)
  PROVE  \/ /\ CommitCode(SignalOf(stage, content)) = "ok"
            /\ artifact' = [artifact EXCEPT ![stage] = [content |-> content]]
            /\ audits' = [audits EXCEPT ![stage] = @ + 1]
            /\ Advance(SignalOf(stage, content))
            /\ UNCHANGED <<last, config>>
         \/ /\ artifact' = artifact /\ audits' = audits
            /\ \E code \in {"PersistenceDuplicateError", "TypeError"} :
                 Fail(code, [of |-> "repository"])
  <1>1. PICK code : code = CommitCode(SignalOf(stage, content))
    OBVIOUS
  <1>2. code \in {"ok", "PersistenceDuplicateError", "TypeError"}
    BY <1>1 DEF CommitCode
  <1>3. /\ artifact' = IF code = "ok" THEN [artifact EXCEPT ![stage] = [content |-> content]]
                       ELSE artifact
        /\ audits' = IF code = "ok" THEN [audits EXCEPT ![stage] = @ + 1] ELSE audits
        /\ IF code = "ok" THEN Advance(SignalOf(stage, content)) /\ UNCHANGED <<last, config>>
           ELSE Fail(code, [of |-> "repository"])
    BY <1>1 DEF Store, Committed, Invoked
  <1> QED  BY <1>1, <1>2, <1>3

\* A completed run: its artifact, and the next task.
LEMMA StoreStep ==
  ASSUME StageInv, stage \in Agent, pc = "waiting", NEW content,
         artifact' = [artifact EXCEPT ![stage] = [content |-> content]],
         audits' = [audits EXCEPT ![stage] = @ + 1],
         Advance(SignalOf(stage, content)), last' = last,
         ValidateOutput(stage, content) = "ok"
  PROVE  /\ ThreadInv' /\ StoreInv' /\ FailureInv'
         /\ stage' # "COLLECT" /\ pc' \in {"ready", "over"}
  <1> USE DEF StageInv
  <1>0. PICK s \in Agent : s = stage
    OBVIOUS
  <1>1. PICK signal : s = stage /\ signal = SignalOf(stage, content)
    BY <1>0
  <1>2. s \in {"SELECT_TOPIC", "GENERATE_SCENARIO", "REVIEW_SCENARIO"}
    BY DEF Agent, Stage
  <1>3. /\ s = "SELECT_TOPIC" =>
             \/ signal = "STAGE_COMPLETED" /\ content.outcome = "topic_selected"
             \/ signal = "NO_SUITABLE_TOPIC"
        /\ s = "GENERATE_SCENARIO" => signal = "STAGE_COMPLETED"
        /\ s = "REVIEW_SCENARIO" => signal \in {"CRITIC_PASS", "CRITIC_REVISE"}
    BY <1>1 DEF SignalOf, SelectTopicSignal, GenerateScenarioSignal, ReviewScenarioSignal
  <1>4. /\ revision' \in Nat
        /\ \/ pc' = "over" /\ stage' = s /\ attempt' = attempt
           \/ /\ pc' = "ready" /\ attempt' = 1 /\ end' = end
              /\ \/ s = "SELECT_TOPIC" /\ signal = "STAGE_COMPLETED" /\ stage' = "GENERATE_SCENARIO"
                 \/ s = "GENERATE_SCENARIO" /\ stage' = "REVIEW_SCENARIO"
                 \/ s = "REVIEW_SCENARIO" /\ stage' = "GENERATE_SCENARIO"
    <2>1. Advance(signal)
      BY <1>1
    <2> QED  BY <1>1, <1>2, <1>3, <2>1, AdvanceStep
  <1>5. s # "COLLECT" /\ stage' # "COLLECT" /\ pc' \in {"ready", "over"}
    BY <1>2, <1>4
  <1>6. ThreadInv'
    BY <1>1, <1>2, <1>4 DEF ThreadInv, Agent, Stage
  <1>7. FailureInv'
    BY NoFailureStep DEF ThreadInv
  <1>8. PICK row : row = [content |-> content]
    OBVIOUS
  <1>9. row.content = content
    BY <1>8
  <1>11. /\ DOMAIN artifact' = Stage /\ audits' \in [Agent -> Nat]
         /\ artifact'[s] = row
         /\ \A t \in Stage \ {s} : artifact'[t] = artifact[t]
    BY <1>1, <1>8 DEF StoreInv, Agent
  <1>13. stage' \in {"GENERATE_SCENARIO", "REVIEW_SCENARIO"} =>
           artifact'["SELECT_TOPIC"].content.outcome = "topic_selected"
    <2>1. CASE s = "SELECT_TOPIC"
      BY <1>3, <1>4, <1>9, <1>11, <2>1
    <2>2. CASE s # "SELECT_TOPIC"
      BY <1>1, <1>2, <1>11, <2>2 DEF StoreInv, Stage
    <2> QED  BY <2>1, <2>2
  <1>14. stage' = "REVIEW_SCENARIO" =>
           artifact'["GENERATE_SCENARIO"].content.panels \in PanelMin .. PanelMax
    <2>1. CASE s = "GENERATE_SCENARIO"
      <3>1. content.panels \in PanelMin .. PanelMax
        BY <1>1, <2>1, OutputCodes
      <3> QED  BY <1>9, <1>11, <2>1, <3>1
    <2>2. CASE s = "REVIEW_SCENARIO"
      BY <1>1, <1>11, <2>2 DEF StoreInv, Stage
    <2> QED  BY <1>2, <1>4, <2>1, <2>2
  <1>15. StoreInv'
    BY <1>11, <1>13, <1>14 DEF StoreInv
  <1> QED  BY <1>5, <1>6, <1>7, <1>15

\* The reply of a vendor that fails is temporary if its code is retryable.
LEMMA ReplyClassified ==
  ASSUME NEW vendor \in ProviderId \ {"fake"}, NEW s, NEW reply \in Replies(vendor, s),
         NEW elapsed \in Int, NEW v, v = VendorPhase(vendor, Timeouts, reply, elapsed),
         NEW cause, cause.of = "vendor", cause.vendor = vendor, cause.reply = reply,
         cause.elapsed = elapsed
  PROVE  \/ /\ v.ok /\ elapsed < Budget(Timeouts).overall
            /\ ~ Temporary(cause)
         \/ /\ ~ v.ok /\ v.code \in ProviderError \ {"PRV_CONFIG"}
            /\ Retryable(v.code) <=> Temporary(cause)
  <1>1. Budget(Timeouts).overall \in Nat
    BY StageAssumption DEF Budget
  <1>2. CASE \E e \in Exceptions[vendor] : reply = [raised |-> TRUE, exc |-> e]
    <2>1. PICK e \in Exceptions[vendor] : reply = [raised |-> TRUE, exc |-> e]
      BY <1>2
    <2>2. SdkException(vendor, e)
      BY StageAssumption
    <2>3. reply.raised /\ reply.exc = e
      BY <2>1
    <2>4. /\ ~ v.ok /\ v.code \in ProviderError \ {"PRV_CONFIG"}
          /\ v.code \in RetryableProviderError <=> TemporaryException(vendor, e)
      BY <2>2, <2>3, ExceptionClassified
    <2>5. Temporary(cause) <=> TemporaryException(vendor, e)
      BY <2>3 DEF Temporary, TemporaryException
    <2>6. Retryable(v.code) <=> v.code \in RetryableProviderError
      BY <2>4 DEF Retryable, ProviderError, RetryableProviderError
    <2> QED  BY <2>4, <2>5, <2>6
  <1>3. CASE \E c \in Contents[s] : reply = [raised |-> FALSE, content |-> c]
    <2>1. PICK c \in Contents[s] : reply = [raised |-> FALSE, content |-> c]
      BY <1>3
    <2>2. ~ reply.raised /\ reply.content = c
      BY <2>1
    <2>3. v = IF elapsed >= Budget(Timeouts).overall THEN [ok |-> FALSE, code |-> "PRV_TIMEOUT"]
              ELSE [ok |-> TRUE, content |-> c]
      BY <2>2, AnswerTimed
    <2>4. Temporary(cause) <=> elapsed >= Budget(Timeouts).overall
      BY <2>2 DEF Temporary
    <2> QED
      BY <1>1, <2>3, <2>4 DEF Retryable, ProviderError, RetryableProviderError
  <1> QED  BY <1>2, <1>3 DEF Replies

\* Both spans end with the answer, and an output is stored or the failure classified.
LEMMA AnswerStep ==
  ASSUME StageInv, Answer
  PROVE  StageInv'
  <1> USE DEF StageInv
  <1>1. pc = "waiting" /\ stage \in Agent /\ stage # "COLLECT" /\ last = NoFailure
    BY DEF Answer, ThreadInv, Agent
  <1>2. PICK s \in Agent, vendor \in ProviderId \ {"fake"} : s = stage /\ vendor = VendorOf[s]
    BY <1>1, StageAssumption DEF Agent
  <1> DEFINE Phase(reply, elapsed) == VendorPhase(vendor, Timeouts, reply, elapsed)
             Seen(o) == IF o.ok THEN ValidateOutput(s, o.content) ELSE o.code
  <1>0. PICK reply \in Replies(vendor, s),
             elapsed \in {Budget(Timeouts).overall - 1, Budget(Timeouts).overall} :
          /\ spans' = EndSpans(spans, Phase(reply, elapsed).ok, Seen(Phase(reply, elapsed)))
          /\ IF AfterAgent(Seen(Phase(reply, elapsed))) = "ok"
             THEN Store(Phase(reply, elapsed).content)
             ELSE RunFails(Seen(Phase(reply, elapsed)),
                           [of |-> "vendor", vendor |-> vendor, reply |-> reply,
                            elapsed |-> elapsed])
    BY <1>2 DEF Answer
  <1>3. PICK v, seen, code :
          /\ v = VendorPhase(vendor, Timeouts, reply, elapsed)
          /\ seen = IF v.ok THEN ValidateOutput(s, v.content) ELSE v.code
          /\ code = AfterAgent(seen)
          /\ spans' = EndSpans(spans, v.ok, seen)
          /\ IF code = "ok" THEN Store(v.content)
             ELSE RunFails(seen, [of |-> "vendor", vendor |-> vendor,
                                  reply |-> reply, elapsed |-> elapsed])
    BY <1>0
  <1>4. elapsed \in Int
    BY StageAssumption DEF Budget
  <1>5. PICK cause : cause = [of |-> "vendor", vendor |-> vendor, reply |-> reply,
                              elapsed |-> elapsed]
    OBVIOUS
  <1>6. \/ /\ v.ok /\ elapsed < Budget(Timeouts).overall
           /\ ~ Temporary(cause)
        \/ /\ ~ v.ok /\ v.code \in ProviderError \ {"PRV_CONFIG"}
           /\ Retryable(v.code) <=> Temporary(cause)
    <2>1. v = VendorPhase(vendor, Timeouts, reply, elapsed)
      BY <1>3
    <2>2. /\ cause.of = "vendor" /\ cause.vendor = vendor /\ cause.reply = reply
          /\ cause.elapsed = elapsed
      BY <1>5
    <2> QED  BY <1>4, <2>1, <2>2, ReplyClassified
  <1>8. /\ seen \notin {"AGT_INPUT", "AGT_PROMPT"}
        /\ seen # "ok" => (Retryable(seen) <=> Temporary(cause))
    <2>1. CASE v.ok
      <3>1. seen \in {"ok", "AGT_OUTPUT", "RecursionError"}
        BY <1>3, <2>1, OutputCodes
      <3> QED  BY <1>6, <2>1, <3>1 DEF Retryable, RetryableProviderError
    <2>2. CASE ~ v.ok
      <3>1. seen = v.code
        BY <1>3, <2>2
      <3> QED  BY <1>6, <2>2, <3>1 DEF ProviderError, RetryableProviderError
    <2> QED  BY <1>6, <2>1, <2>2
  <1>9. /\ code = seen \/ code = "InjectedFailureError"
        /\ seen = "RecursionError" => code = seen /\ ~ Retryable(code)
    BY <1>3 DEF AfterAgent, Audited, Retryable, ProviderError, RetryableProviderError
  <1>10. /\ spans' \in [collector : Int, agent : Int, provider : Int]
         /\ spans'.agent = IF seen = "RecursionError" THEN spans.agent ELSE spans.agent - 1
         /\ spans'.provider = spans.provider - 1
    <2>1. spans \in [collector : Int, agent : Int, provider : Int]
      BY DEF SpansInv
    <2>2. PICK a \in Int, p \in Int :
            /\ a = IF seen = "RecursionError" THEN spans.agent ELSE spans.agent - 1
            /\ p = spans.provider - 1
      BY <2>1
    <2>3. spans' = [spans EXCEPT !.agent = a, !.provider = p]
      BY <1>3, <2>2 DEF EndSpans
    <2>4. spans' \in [collector : Int, agent : Int, provider : Int]
      BY <2>1, <2>3
    <2> QED  BY <2>1, <2>2, <2>3, <2>4
  <1>11. CASE code # "ok"
    <2>1. Fail(code, cause) /\ artifact' = artifact /\ audits' = audits
      BY <1>3, <1>5, <1>11, RunFailsStep
    <2>3. cause.of = "vendor"
      BY <1>5
    <2>4. ThreadInv' /\ StoreInv' /\ FailureInv'
      BY <1>1, <1>8, <1>9, <1>11, <2>1, <2>3, FailKeeps
    <2>5. /\ stage' = stage /\ last'.cause = cause /\ last'.code = code
          /\ pc' \in {"backoff", "over"} /\ (~ Retryable(code) => pc' = "over")
      BY <2>1, FailStep
    <2>6. SpansInv'
      BY <1>1, <1>9, <1>10, <2>3, <2>5 DEF SpansInv, RetriedInv, LeftOpen, NoFailure
    <2> QED  BY <2>4, <2>6
  <1>12. CASE code = "ok"
    <2>1. seen = "ok"
      BY <1>9, <1>12
    <2>2. v.ok /\ ValidateOutput(stage, v.content) = "ok"
      BY <1>2, <1>3, <1>6, <2>1 DEF ProviderError, RetryableProviderError
    <2>3. PICK content : content = v.content
      OBVIOUS
    <2>4. Store(content)
      BY <1>3, <1>12, <2>3
    <2>5. CASE /\ artifact' = [artifact EXCEPT ![stage] = [content |-> content]]
               /\ audits' = [audits EXCEPT ![stage] = @ + 1]
               /\ Advance(SignalOf(stage, content)) /\ last' = last
      <3>1. /\ ThreadInv' /\ StoreInv' /\ FailureInv'
            /\ stage' # "COLLECT" /\ pc' \in {"ready", "over"}
        BY <1>1, <2>2, <2>3, <2>5, StoreStep
      <3>2. SpansInv'
        BY <1>1, <1>10, <2>1, <2>5, <3>1 DEF SpansInv, RetriedInv, LeftOpen, NoFailure
      <3> QED  BY <3>1, <3>2
    <2>6. CASE /\ artifact' = artifact /\ audits' = audits
               /\ \E c \in {"PersistenceDuplicateError", "TypeError"} :
                    Fail(c, [of |-> "repository"])
      <3>1. PICK c, why :
              /\ c \in {"PersistenceDuplicateError", "TypeError"}
              /\ why = [of |-> "repository"] /\ Fail(c, why)
        BY <2>6
      <3>2. why.of = "repository"
        BY <3>1
      <3>3. ThreadInv' /\ StoreInv' /\ FailureInv'
        BY <1>1, <2>6, <3>1, <3>2, FailKeeps
      <3>4. /\ stage' = stage /\ last'.cause = why /\ last'.code = c
            /\ pc' \in {"backoff", "over"}
        BY <3>1, FailStep
      <3>5. SpansInv'
        BY <1>1, <1>10, <2>1, <3>1, <3>2, <3>4 DEF SpansInv, RetriedInv, LeftOpen, NoFailure
      <3> QED  BY <3>3, <3>5
    <2> QED  BY <2>4, <2>5, <2>6, StoreSplits
  <1> QED  BY <1>11, <1>12

\* The first collection is ready.
LEMMA InitHolds ==
  ASSUME Init
  PROVE  StageInv
  <1>1. ThreadInv
    BY DEF Init, ThreadInv, Stage, NoFailure
  <1>2. SpansInv
    BY DEF Init, SpansInv, RetriedInv, LeftOpen, NoFailure
  <1>3. StoreInv
    BY DEF Init, StoreInv, Agent, Stage
  <1>4. FailureInv
    BY DEF Init, FailureInv, RetriedIffTemporary, OutputsAccepted, NoFailure
  <1> QED  BY <1>1, <1>2, <1>3, <1>4 DEF StageInv

\* One lemma per action.
LEMMA NextHolds ==
  ASSUME StageInv, [Next]_vars
  PROVE  StageInv'
  <1>1. CASE Next
    BY <1>1, FetchFeedStep, CollectStep, FetchItemStep, BeginRunStep, CallStep, AnswerStep,
       RetryDueStep DEF Next
  <1>2. CASE UNCHANGED vars
    <2>1. UNCHANGED <<stage, revision, attempt, end, pc, artifact, audits, spans, last>>
      BY <1>2 DEF vars, task
    <2>2. ThreadInv' /\ SpansInv'
      BY <2>1 DEF StageInv, ThreadInv, SpansInv, RetriedInv, LeftOpen
    <2> QED  BY <2>1, <2>2, QuietStep DEF StageInv
  <1> QED  BY <1>1, <1>2

\* The invariant of the stages holds in every reachable state.
THEOREM StagesInvariant == Spec => []StageInv
  BY InitHolds, NextHolds, PTL DEF Spec

\* BaseAgent.run, BaseRemoteProvider.generate and collect_stories: between
\* runs no span is open but those of failed collections and the one that an
\* injected exception or the JSON parser's RecursionError leaves, whatever
\* fails and however often.
THEOREM SpansAreClosed == Spec => []SpansEnd
  <1>1. StageInv => SpansEnd
    BY DEF StageInv, ThreadInv, SpansInv, LeftOpen, SpansEnd
  <1> QED  BY <1>1, StagesInvariant, PTL

\* The extractors, VendorErrorMapper and RetryClassifier together: for every
\* exception an SDK raises, a failure is retried if and only if it is
\* temporary.
THEOREM RetriesAreRight == Spec => []RetriedIffTemporary
  <1>1. StageInv => RetriedIffTemporary
    BY DEF StageInv, FailureInv
  <1> QED  BY <1>1, StagesInvariant, PTL

------------------------------------------------------------------------------
(***************************************************************************)
(* The collection of a workflow.  While items are being fetched, every     *)
(* answer that came is in its place of the list; what the topic agent is   *)
(* given is the collection of that list, on its first attempt with the     *)
(* list still at hand.                                                     *)
(***************************************************************************)
FetchInv ==
  pc = "fetching" =>
    /\ \E n \in Nat : results \in Seq({results[i] : i \in 1 .. n}) /\ Len(results) = n
    /\ served = [i \in DOMAIN served |-> served[i]] /\ DOMAIN served \subseteq DOMAIN results
    /\ \A i \in DOMAIN served : served[i] \in ItemAnswers /\ results[i] = served[i]

CandidatesInv ==
  /\ stage # "COLLECT" => Len(artifact["COLLECT"].candidates) \in 0 .. CandidateCount
  /\ pc = "backoff" => attempt > 1

\* The topic agent refuses its candidates only for their number.
TopicAccepted ==
  last.code = "AGT_INPUT" /\ stage = "SELECT_TOPIC" =>
    Len(InputOf(stage)) = 0 \/ CandidateCount > MaxTopicCandidates

CollectedInv == FetchInv /\ CandidatesInv /\ TopicAccepted /\ CollectionInFeedOrder

\* Whoever is not fetching, and not about to select a topic for the first
\* time, has only the stored candidates to keep.
LEMMA CollectedElsewhere ==
  ASSUME CollectedInv, pc' # "fetching",
         ~ (stage' = "SELECT_TOPIC" /\ attempt' = 1 /\ pc' = "ready"),
         artifact'["COLLECT"] = artifact["COLLECT"], stage' # "COLLECT" => stage # "COLLECT",
         pc' = "backoff" => attempt' > 1, TopicAccepted'
  PROVE  CollectedInv'
  <1>1. FetchInv'
    BY DEF FetchInv
  <1>2. CandidatesInv'
    BY DEF CollectedInv, CandidatesInv
  <1>3. CollectionInFeedOrder'
    BY DEF CollectionInFeedOrder
  <1> QED  BY <1>1, <1>2, <1>3 DEF CollectedInv

\* A failure keeps the collection.
LEMMA FailKeepsCollection ==
  ASSUME StageInv, CollectedInv, NEW code, NEW cause, Fail(code, cause), artifact' = artifact,
         code = "AGT_INPUT" /\ stage = "SELECT_TOPIC" =>
           Len(InputOf(stage)) = 0 \/ CandidateCount > MaxTopicCandidates
  PROVE  CollectedInv'
  <1> USE DEF StageInv
  <1>1. /\ stage' = stage /\ last'.code = code
        /\ (pc' = "backoff" /\ attempt' = attempt + 1) \/ pc' = "over"
    BY FailStep
  <1>2. TopicAccepted'
    <2>1. InputOf(stage)' = InputOf(stage)
      BY <1>1 DEF InputOf, TopicInput, ScenarioInput, CriticInput
    <2> QED  BY <1>1, <2>1 DEF TopicAccepted
  <1>3. attempt \in Nat \ {0}
    BY DEF ThreadInv
  <1> QED  BY <1>1, <1>2, <1>3, CollectedElsewhere

\* Without a failure the topic agent refused nothing.
LEMMA NothingRefused ==
  ASSUME last' = NoFailure
  PROVE  TopicAccepted'
  BY DEF TopicAccepted, NoFailure

\* The list is made before any item is fetched.
LEMMA FetchFeedCollects ==
  ASSUME StageInv, CollectedInv, FetchFeed
  PROVE  CollectedInv'
  <1>1. pc = "ready" /\ stage = "COLLECT"
    BY DEF FetchFeed
  <1>2. CASE \E f \in FeedFailures : /\ Fail(ClassifyFeedFailure(f), [of |-> "feed", feed |-> f])
                                     /\ artifact' = artifact
    BY <1>1, <1>2, FailKeepsCollection
  <1>3. CASE \E n \in FeedLengths :
               /\ served' = <<>> /\ results' = [i \in 1 .. Min({n, PoolSize}) |-> None]
               /\ pc' = "fetching"
               /\ UNCHANGED <<task, artifact, audits, last, config>>
    <2>1. PICK n \in FeedLengths :
               /\ served' = <<>> /\ results' = [i \in 1 .. Min({n, PoolSize}) |-> None]
               /\ pc' = "fetching"
               /\ UNCHANGED <<task, artifact, audits, last, config>>
      BY <1>3
    <2>2. n \in Nat /\ PoolSize \in Nat
      BY StageAssumption, CollectorAssumption
    <2>3. PICK k \in Nat : k = Min({n, PoolSize})
      BY <2>2, Smaller
    <2>4. results' \in [1 .. k -> {results'[i] : i \in 1 .. k}]
      BY <2>1, <2>3
    <2>5. results' \in Seq({results'[i] : i \in 1 .. k}) /\ Len(results') = k
      <3>1. PICK S : S = {results'[i] : i \in 1 .. k}
        OBVIOUS
      <3>2. results' \in [1 .. k -> S]
        BY <2>4, <3>1
      <3>3. results' \in Seq(S) /\ Len(results') = k
        BY <3>2
      <3> QED  BY <3>1, <3>3
    <2>6. DOMAIN served' = {} /\ served' = [i \in DOMAIN served' |-> served'[i]]
      BY <2>1
    <2>7. FetchInv'
      BY <2>5, <2>6 DEF FetchInv
    <2>8. CandidatesInv' /\ CollectionInFeedOrder'
      BY <1>1, <2>1 DEF CandidatesInv, CollectionInFeedOrder, task
    <2>9. TopicAccepted'
      BY <1>1, <2>1 DEF TopicAccepted, task
    <2> QED  BY <2>7, <2>8, <2>9 DEF CollectedInv
  <1> QED  BY <1>2, <1>3 DEF FetchFeed

\* A future completes: its answer goes to its own place.
LEMMA FetchItemCollects ==
  ASSUME StageInv, CollectedInv, NEW i \in DOMAIN results, FetchItem(i)
  PROVE  CollectedInv'
  <1>1. /\ pc = "fetching" /\ i \notin DOMAIN served /\ stage = "COLLECT"
        /\ UNCHANGED <<stage, attempt, pc, artifact, last>>
    BY DEF FetchItem, task, StageInv, ThreadInv
  <1>2. PICK r \in ItemAnswers :
          /\ served' = [j \in DOMAIN served \cup {i} |-> IF j = i THEN r ELSE served[j]]
          /\ results' = [results EXCEPT ![i] = r]
    BY DEF FetchItem
  <1>3. PICK n \in Nat : results \in Seq({results[j] : j \in 1 .. n}) /\ Len(results) = n
    BY <1>1 DEF CollectedInv, FetchInv
  <1>4. DOMAIN results = 1 .. n
    BY <1>3
  <1>5. /\ DOMAIN results' = 1 .. n /\ results'[i] = r
        /\ \A j \in 1 .. n : j # i => results'[j] = results[j]
    BY <1>2, <1>3, <1>4
  <1>6. results' \in Seq({results'[j] : j \in 1 .. n}) /\ Len(results') = n
    <2>1. PICK S : S = {results'[j] : j \in 1 .. n}
      OBVIOUS
    <2>2. results' \in [1 .. n -> S]
      BY <1>2, <1>4, <1>5, <2>1
    <2>3. results' \in Seq(S) /\ Len(results') = n
      BY <2>2
    <2> QED  BY <2>1, <2>3
  <1>7. /\ DOMAIN served' = DOMAIN served \cup {i} /\ served'[i] = r
        /\ \A j \in DOMAIN served : served'[j] = served[j]
        /\ served' = [j \in DOMAIN served' |-> served'[j]]
    BY <1>1, <1>2
  <1>8. /\ DOMAIN served \subseteq 1 .. n
        /\ \A j \in DOMAIN served : served[j] \in ItemAnswers /\ results[j] = served[j]
    BY <1>1, <1>4 DEF CollectedInv, FetchInv
  <1>9. FetchInv'
    <2>1. DOMAIN served' \subseteq DOMAIN results'
      BY <1>4, <1>5, <1>7, <1>8
    <2>2. \A j \in DOMAIN served' : served'[j] \in ItemAnswers /\ results'[j] = served'[j]
      BY <1>1, <1>5, <1>7, <1>8
    <2> QED  BY <1>6, <1>7, <2>1, <2>2 DEF FetchInv
  <1>10. CandidatesInv' /\ CollectionInFeedOrder' /\ TopicAccepted'
    BY <1>1 DEF CandidatesInv, CollectionInFeedOrder, TopicAccepted
  <1> QED  BY <1>9, <1>10 DEF CollectedInv

\* The property in these words.
LEMMA FeedOrderIs ==
  CollectionInFeedOrder <=>
    (stage = "SELECT_TOPIC" /\ attempt = 1 /\ pc = "ready" =>
       InOrder(artifact["COLLECT"], served, Len(results)))
  BY DEF CollectionInFeedOrder, InOrder, Having

\* When every item has come, the list is the answers in the feed's order.
LEMMA CollectCollects ==
  ASSUME StageInv, CollectedInv, Collect
  PROVE  CollectedInv'
  <1> USE DEF StageInv
  <1>1. PICK c : c = CollectionOf(results)
    OBVIOUS
  <1>2. /\ pc = "fetching" /\ stage = "COLLECT" /\ last = NoFailure
        /\ DOMAIN served = DOMAIN results /\ served' = served /\ results' = results
    BY DEF Collect, ThreadInv, fetch
  <1>3. PICK n \in Nat : results \in Seq({results[j] : j \in 1 .. n}) /\ Len(results) = n
    BY <1>2 DEF CollectedInv, FetchInv
  <1>4. DOMAIN results = 1 .. n
    BY <1>3
  <1>5. /\ \A j \in 1 .. n : results[j] \in ItemAnswers /\ results[j] = served[j]
        /\ served = [j \in 1 .. n |-> served[j]]
    BY <1>2, <1>4 DEF CollectedInv, FetchInv
  <1>6. served = results
    BY <1>2, <1>3, <1>4, <1>5
  <1>7. Answers(results, n)
    BY <1>3, <1>4, <1>5, StageAssumption DEF Answers
  <1>8. CASE \E code, cause : Fail(code, cause) /\ artifact' = artifact /\ code # "AGT_INPUT"
    BY <1>8, FailKeepsCollection
  <1>9. CASE /\ c.ok
             /\ artifact' = [artifact EXCEPT !["COLLECT"] = c]
             /\ Advance("STAGE_COMPLETED")
             /\ last' = last
    <2>1. /\ pc' = "ready" /\ attempt' = 1 /\ stage' = "SELECT_TOPIC"
      BY <1>2, <1>9, AdvanceStep
    <2>2. artifact'["COLLECT"] = c
      BY <1>9 DEF StoreInv, Stage
    <2>3. InOrder(c, results, n) /\ Len(c.candidates) \in 0 .. CandidateCount
      BY <1>1, <1>7, <1>9, CollectionIsInOrder
    <2>4. FetchInv' /\ CandidatesInv'
      BY <2>1, <2>2, <2>3 DEF FetchInv, CandidatesInv
    <2>5. TopicAccepted'
      BY <1>2, <1>9, NothingRefused
    <2>6. CollectionInFeedOrder'
      <3>1. served' = results /\ results' = results
        BY <1>2, <1>6
      <3>2. InOrder(artifact["COLLECT"], served, Len(results))'
        BY <1>3, <2>2, <2>3, <3>1
      <3> QED  BY <3>2, FeedOrderIs, PTL
    <2> QED  BY <2>4, <2>5, <2>6 DEF CollectedInv
  <1>10. c.ok \/ c.code = "ValueError"
    BY <1>1, CollectionCode
  <1> QED  BY <1>1, <1>8, <1>9, <1>10 DEF Collect

\* The topic agent is given no more candidates than are configured.
LEMMA BeginRunCollects ==
  ASSUME StageInv, CollectedInv, BeginRun
  PROVE  CollectedInv'
  <1> USE DEF StageInv
  <1>1. pc = "ready" /\ stage \in Agent /\ stage # "COLLECT" /\ last = NoFailure
    BY DEF BeginRun, ThreadInv, Agent
  <1>2. PICK key, file, code :
          /\ code = IF key THEN Prepare(stage, InputOf(stage), file, cached[stage])
                    ELSE "PRV_CONFIG"
          /\ IF code = "ok"
             THEN pc' = "calling" /\ UNCHANGED <<task, artifact, audits, last, config>>
             ELSE RunFails(code, [of |-> "run", file |-> file])
    BY DEF BeginRun
  <1>4. CASE code = "ok"
    <2>1. pc' = "calling" /\ UNCHANGED <<stage, attempt, artifact, last>>
      BY <1>2, <1>4 DEF task
    <2>2. TopicAccepted'
      BY <1>1, <2>1, NothingRefused
    <2> QED  BY <2>1, <2>2, CollectedElsewhere
  <1>5. CASE code # "ok"
    <2>1. PICK raised, cause : raised = AfterAgent(code) /\ cause = [of |-> "run", file |-> file]
      OBVIOUS
    <2>2. raised \in {code, "InjectedFailureError"}
      BY <2>1 DEF AfterAgent
    <2>3. Fail(raised, cause) /\ artifact' = artifact
      BY <1>2, <1>5, <2>1, <2>2, RunFailsStep
    <2>4. ASSUME raised = "AGT_INPUT", stage = "SELECT_TOPIC"
          PROVE  Len(InputOf(stage)) = 0 \/ CandidateCount > MaxTopicCandidates
      <3>1. PICK s, input, hit :
              s \in Agent /\ s = stage /\ input = InputOf(stage) /\ hit = cached[stage]
        BY <1>1
      <3>2. code = "AGT_INPUT" /\ code = Prepare(s, input, file, hit)
        BY <1>2, <2>2, <2>4, <3>1
      <3>3. ValidateInput(s, input) = "AGT_INPUT"
        BY <3>1, <3>2, PrepareRefuses
      <3>4. Len(input) \notin 1 .. MaxTopicCandidates
        BY <2>4, <3>1, <3>3 DEF ValidateInput
      <3>5. Len(input) \in 0 .. CandidateCount
        BY <2>4, <3>1 DEF CollectedInv, CandidatesInv, InputOf, TopicInput
      <3> QED  BY <3>1, <3>4, <3>5, AgentsAssumption, CollectorAssumption
    <2> QED  BY <2>3, <2>4, FailKeepsCollection
  <1> QED  BY <1>4, <1>5

\* A call that fails refuses no input.
LEMMA CallCollects ==
  ASSUME StageInv, CollectedInv, Call
  PROVE  CollectedInv'
  <1>1. pc = "calling" /\ stage # "COLLECT" /\ last = NoFailure
    BY DEF Call, StageInv, ThreadInv, Agent
  <1>2. ASSUME NEW seen, NEW cause, RunFails(seen, cause), seen \notin {"ok", "AGT_INPUT"}
        PROVE  CollectedInv'
    <2>1. PICK code : code = AfterAgent(seen) /\ code \notin {"ok", "AGT_INPUT"}
      BY <1>2 DEF AfterAgent
    <2>2. Fail(code, cause) /\ artifact' = artifact
      BY <1>2, <2>1, RunFailsStep
    <2> QED  BY <2>1, <2>2, FailKeepsCollection
  <1>3. CASE pc' = "waiting" /\ UNCHANGED <<task, artifact, audits, last, config>>
    <2>1. TopicAccepted'
      BY <1>1, <1>3, NothingRefused
    <2> QED  BY <1>1, <1>3, <2>1, CollectedElsewhere DEF task
  <1>4. InjectionGate # "AGT_INPUT"
    BY DEF InjectionGate
  <1> QED  BY <1>2, <1>3, <1>4 DEF Call

\* An answer leads away from the first selection of a topic.
LEMMA AnswerCollects ==
  ASSUME StageInv, CollectedInv, Answer
  PROVE  CollectedInv'
  <1> USE DEF StageInv
  <1>1. pc = "waiting" /\ stage \in Agent /\ stage # "COLLECT" /\ last = NoFailure
    BY DEF Answer, ThreadInv, Agent
  <1> DEFINE Phase(reply, elapsed) == VendorPhase(VendorOf[stage], Timeouts, reply, elapsed)
             Seen(o) == IF o.ok THEN ValidateOutput(stage, o.content) ELSE o.code
  <1>2. PICK reply \in Replies(VendorOf[stage], stage),
             elapsed \in {Budget(Timeouts).overall - 1, Budget(Timeouts).overall} :
          IF AfterAgent(Seen(Phase(reply, elapsed))) = "ok"
          THEN Store(Phase(reply, elapsed).content)
          ELSE RunFails(Seen(Phase(reply, elapsed)),
                        [of |-> "vendor", vendor |-> VendorOf[stage], reply |-> reply,
                         elapsed |-> elapsed])
    BY DEF Answer
  <1>3. PICK vendor \in ProviderId \ {"fake"} : vendor = VendorOf[stage]
    BY <1>1, StageAssumption DEF Agent
  <1>4. PICK v, cause :
          /\ vendor = VendorOf[stage] /\ v = VendorPhase(vendor, Timeouts, reply, elapsed)
          /\ cause = [of |-> "vendor", vendor |-> vendor, reply |-> reply, elapsed |-> elapsed]
    BY <1>3
  <1>5. CASE AfterAgent(Seen(v)) # "ok"
    <2>1. PICK code, seen : code = AfterAgent(seen) /\ seen = Seen(v)
      OBVIOUS
    <2>0. Fail(code, cause) /\ artifact' = artifact
      BY <1>2, <1>4, <1>5, <2>1, RunFailsStep
    <2>2. Seen(v) # "AGT_INPUT"
      <3>1. v.ok \/ v.code \in ProviderError
        <4>1. elapsed \in Int
          BY StageAssumption DEF Budget
        <4>2. /\ cause.of = "vendor" /\ cause.vendor = vendor /\ cause.reply = reply
              /\ cause.elapsed = elapsed
          BY <1>4
        <4> QED  BY <1>4, <4>1, <4>2, ReplyClassified
      <3>2. ValidateOutput(stage, v.content) \in {"ok", "AGT_OUTPUT", "RecursionError"}
        BY <1>1, OutputCodes
      <3> QED  BY <3>1, <3>2 DEF ProviderError, RetryableProviderError
    <2>3. code # "AGT_INPUT"
      BY <2>1, <2>2 DEF AfterAgent
    <2> QED  BY <2>0, <2>3, FailKeepsCollection
  <1>6. CASE AfterAgent(Seen(v)) = "ok"
    <2>0. PICK content : Store(content)
      BY <1>2, <1>4, <1>6
    <2>8. CASE /\ artifact' = artifact
               /\ \E c \in {"PersistenceDuplicateError", "TypeError"} :
                    Fail(c, [of |-> "repository"])
      BY <2>8, FailKeepsCollection
    <2>9. CASE /\ artifact' = [artifact EXCEPT ![stage] = [content |-> content]]
               /\ Advance(SignalOf(stage, content)) /\ last' = last
      <3>1. artifact'["COLLECT"] = artifact["COLLECT"]
        BY <1>1, <2>9 DEF StoreInv, Stage
      <3>2. PICK signal : signal = SignalOf(stage, content)
        OBVIOUS
      <3>3. /\ stage = "SELECT_TOPIC" => signal \in {"STAGE_COMPLETED", "NO_SUITABLE_TOPIC"}
            /\ stage = "GENERATE_SCENARIO" => signal = "STAGE_COMPLETED"
            /\ stage = "REVIEW_SCENARIO" => signal \in {"CRITIC_PASS", "CRITIC_REVISE"}
        BY <3>2 DEF SignalOf, SelectTopicSignal, GenerateScenarioSignal, ReviewScenarioSignal
      <3>4. Advance(signal) /\ stage \in {"SELECT_TOPIC", "GENERATE_SCENARIO", "REVIEW_SCENARIO"}
        BY <1>1, <2>9, <3>2 DEF Agent, Stage
      <3>5. /\ pc' \in {"ready", "over"} /\ stage' # "COLLECT"
            /\ pc' = "ready" => stage' # "SELECT_TOPIC"
        BY <1>1, <3>3, <3>4, AdvanceStep
      <3>6. TopicAccepted'
        BY <1>1, <2>9, NothingRefused
      <3> QED  BY <1>1, <3>1, <3>5, <3>6, CollectedElsewhere
    <2> QED  BY <2>0, <2>8, <2>9, StoreSplits
  <1> QED  BY <1>5, <1>6

\* A retry is a later attempt.
LEMMA RetryDueCollects ==
  ASSUME StageInv, CollectedInv, RetryDue
  PROVE  CollectedInv'
  <1>1. /\ pc = "backoff" /\ pc' = "ready" /\ last' = NoFailure
        /\ UNCHANGED <<stage, attempt, artifact>>
    BY DEF RetryDue, task
  <1>2. attempt > 1 /\ attempt \in Nat
    BY <1>1 DEF CollectedInv, CandidatesInv, StageInv, ThreadInv
  <1> QED  BY <1>1, <1>2, NothingRefused, CollectedElsewhere

\* Nothing is collected, and nothing fetched.
LEMMA InitCollects ==
  ASSUME Init
  PROVE  CollectedInv
  BY DEF Init, CollectedInv, FetchInv, CandidatesInv, TopicAccepted, CollectionInFeedOrder,
         NoFailure

LEMMA NextCollects ==
  ASSUME StageInv, CollectedInv, [Next]_vars
  PROVE  CollectedInv'
  <1>1. CASE Next
    BY <1>1, FetchFeedCollects, CollectCollects, FetchItemCollects, BeginRunCollects,
       CallCollects, AnswerCollects, RetryDueCollects DEF Next
  <1>2. CASE UNCHANGED vars
    <2>1. UNCHANGED <<stage, attempt, pc, served, results, artifact, last>>
      BY <1>2 DEF vars, task, fetch
    <2>2. FetchInv' /\ CandidatesInv'
      BY <2>1 DEF CollectedInv, FetchInv, CandidatesInv
    <2>3. TopicAccepted'
      BY <2>1 DEF CollectedInv, TopicAccepted, InputOf, TopicInput, ScenarioInput, CriticInput
    <2>4. CollectionInFeedOrder'
      <3>1. stage = "SELECT_TOPIC" /\ attempt = 1 /\ pc = "ready" =>
              InOrder(artifact["COLLECT"], served, Len(results))
        BY FeedOrderIs DEF CollectedInv
      <3>2. (stage = "SELECT_TOPIC" /\ attempt = 1 /\ pc = "ready" =>
               InOrder(artifact["COLLECT"], served, Len(results)))'
        BY <2>1, <3>1
      <3> QED  BY <3>2, FeedOrderIs, PTL
    <2> QED  BY <2>2, <2>3, <2>4 DEF CollectedInv
  <1> QED  BY <1>1, <1>2

\* The invariant of the collection holds in every reachable state.
THEOREM CollectionInvariant == Spec => []CollectedInv
  BY StagesInvariant, InitCollects, NextCollects, PTL DEF Spec

\* DefaultCollector.collect_stories with ItemFetcher.fetch_all,
\* StoryDeduplicator.dedupe and StoryRanker.rank: for every feed, every
\* answer of the service and every order in which the answers arrive, the
\* collection has the first accepted story of each id, in the order of the
\* scores, the candidates are the best of them, and every answer is counted
\* once.
THEOREM CollectionsAreInFeedOrder == Spec => []CollectionInFeedOrder
  <1>1. CollectedInv => CollectionInFeedOrder
    BY DEF CollectedInv
  <1> QED  BY <1>1, CollectionInvariant, PTL

\* InputValidator and MessageBuilder against the collector and the output
\* validators of the agents before: with a good prompt file, whatever is
\* stored is refused only for want of any candidate, for a configured count
\* of candidates above the agent's limit, for a blank punchline, or for a
\* text with a mustache in it, which nothing before looks for.
THEOREM StagesAcceptInputs == Spec => []NextStageAccepts
  <1>1. StageInv /\ CollectedInv => NextStageAccepts
    BY DEF StageInv, FailureInv, OutputsAccepted, CollectedInv, TopicAccepted, NextStageAccepts
  <1> QED  BY <1>1, StagesInvariant, CollectionInvariant, PTL

------------------------------------------------------------------------------
(***************************************************************************)
(* What a workflow may cost.  How many outputs of each agent are stored    *)
(* follows from the stage and the revision, whatever attempts failed in    *)
(* between: a retry stores nothing and revises nothing.  A review is there *)
(* after the first revision, and no other can be stored next to it.        *)
(***************************************************************************)
LimitsInv ==
  /\ attempt <= MaxAttempts /\ revision <= MaxRevisions
  /\ pc = "backoff" => attempt > 1
  /\ end = "FAILED_PERMANENTLY" => attempt = MaxAttempts
  /\ end = "REVIEW_FAILED" => revision = MaxRevisions

OneReviewInv ==
  /\ revision <= 1
  /\ revision = 1 => repo /\ artifact["REVIEW_SCENARIO"] # None
  /\ end \in {"REVIEW_PASSED", "REVIEW_FAILED"} => revision = 0

CostInv == AuditsMatchProgress /\ LimitsInv /\ OneReviewInv

\* A failed attempt costs an attempt and stores nothing.
LEMMA FailCosts ==
  ASSUME StageInv, CostInv, pc # "over", NEW code, NEW cause, Fail(code, cause),
         artifact' = artifact, audits' = audits
  PROVE  CostInv'
  <1>1. /\ attempt \in Nat \ {0} /\ revision \in Nat /\ end = "none"
        /\ MaxAttempts \in Nat \ {0} /\ MaxRevisions \in Nat /\ ThreadInv
    BY StageAssumption DEF StageInv, ThreadInv
  <1>2. stage' = stage /\ revision' = revision /\ repo' = repo
    BY <1>1, FailStep
  <1>3. \/ pc' = "backoff" /\ attempt' = attempt + 1 /\ end' = end /\ attempt < MaxAttempts
        \/ pc' = "over" /\ attempt' = attempt /\ end' = "FAILED"
        \/ /\ pc' = "over" /\ attempt' = attempt /\ end' = "FAILED_PERMANENTLY"
           /\ ~ attempt < MaxAttempts
    BY <1>1, FailStep
  <1>4. AuditsMatchProgress'
    BY <1>1, <1>2, <1>3 DEF CostInv, AuditsMatchProgress, AuditRows
  <1>5. LimitsInv'
    BY <1>1, <1>2, <1>3 DEF CostInv, LimitsInv
  <1>6. OneReviewInv'
    BY <1>1, <1>2, <1>3 DEF CostInv, OneReviewInv
  <1> QED  BY <1>4, <1>5, <1>6 DEF CostInv

\* A run that fails is a failed attempt, its audit row notwithstanding.
LEMMA RunFailsCosts ==
  ASSUME StageInv, CostInv, pc # "over", NEW seen, NEW cause, RunFails(seen, cause), seen # "ok"
  PROVE  CostInv'
  <1>1. PICK code : code = AfterAgent(seen) /\ code # "ok"
    BY DEF AfterAgent
  <1>2. Fail(code, cause) /\ artifact' = artifact /\ audits' = audits
    BY <1>1, RunFailsStep
  <1> QED  BY <1>2, FailCosts

\* A step between two transactions costs nothing.
LEMMA FreeStep ==
  ASSUME CostInv, UNCHANGED <<stage, revision, attempt, end, artifact, audits, repo>>,
         pc' # "backoff" \/ pc' = pc
  PROVE  CostInv'
  <1>1. AuditsMatchProgress'
    BY DEF CostInv, AuditsMatchProgress, AuditRows
  <1>2. LimitsInv'
    BY DEF CostInv, LimitsInv
  <1>3. OneReviewInv'
    BY DEF CostInv, OneReviewInv
  <1> QED  BY <1>1, <1>2, <1>3 DEF CostInv

\* A completed stage: one more output of its agent, and the attempts count
\* from one again.
LEMMA CompletionCosts ==
  ASSUME StageInv, CostInv, pc # "over", NEW signal, Advance(signal), repo' = repo,
         \/ /\ stage = "COLLECT" /\ signal = "STAGE_COMPLETED" /\ audits' = audits
            /\ artifact'["REVIEW_SCENARIO"] = artifact["REVIEW_SCENARIO"]
         \/ /\ stage \in Agent /\ audits' = [audits EXCEPT ![stage] = @ + 1]
            /\ CommitCode(signal) = "ok"
            /\ IF stage = "REVIEW_SCENARIO" THEN artifact'["REVIEW_SCENARIO"] # None
               ELSE artifact'["REVIEW_SCENARIO"] = artifact["REVIEW_SCENARIO"]
            /\ \/ stage = "SELECT_TOPIC" /\ signal \in {"STAGE_COMPLETED", "NO_SUITABLE_TOPIC"}
               \/ stage = "GENERATE_SCENARIO" /\ signal = "STAGE_COMPLETED"
               \/ stage = "REVIEW_SCENARIO" /\ signal \in {"CRITIC_PASS", "CRITIC_REVISE"}
  PROVE  CostInv'
  <1>1. /\ attempt \in Nat \ {0} /\ revision \in Nat /\ end = "none" /\ ThreadInv
        /\ MaxAttempts \in Nat \ {0} /\ MaxRevisions \in Nat /\ audits \in [Agent -> Nat]
        /\ Agent = {"SELECT_TOPIC", "GENERATE_SCENARIO", "REVIEW_SCENARIO"}
    BY StageAssumption DEF StageInv, ThreadInv, StoreInv, Agent, Stage
  <1>2. \/ /\ pc' = "over" /\ stage' = stage /\ attempt' = attempt /\ revision' = revision
           /\ \/ stage = "SELECT_TOPIC" /\ end' = "NO_SUITABLE_TOPIC"
              \/ stage = "REVIEW_SCENARIO" /\ end' = "REVIEW_PASSED"
              \/ stage = "REVIEW_SCENARIO" /\ end' = "REVIEW_FAILED" /\ revision >= MaxRevisions
        \/ /\ pc' = "ready" /\ attempt' = 1 /\ end' = end
           /\ \/ stage = "COLLECT" /\ stage' = "SELECT_TOPIC" /\ revision' = revision
              \/ stage = "SELECT_TOPIC" /\ stage' = "GENERATE_SCENARIO" /\ revision' = revision
              \/ stage = "GENERATE_SCENARIO" /\ stage' = "REVIEW_SCENARIO" /\ revision' = revision
              \/ /\ stage = "REVIEW_SCENARIO" /\ stage' = "GENERATE_SCENARIO"
                 /\ revision < MaxRevisions /\ revision' = revision + 1
    BY <1>1, AdvanceStep
  <1>3. \A s \in Agent :
          audits'[s] = IF stage = s THEN audits[s] + 1 ELSE audits[s]
    BY <1>1
  <1>4. AuditsMatchProgress'
    <2>1. CASE stage = "COLLECT"
      BY <1>1, <1>2, <1>3, <2>1 DEF CostInv, AuditsMatchProgress, AuditRows
    <2>2. CASE stage = "SELECT_TOPIC"
      BY <1>1, <1>2, <1>3, <2>2 DEF CostInv, AuditsMatchProgress, AuditRows
    <2>3. CASE stage = "GENERATE_SCENARIO"
      BY <1>1, <1>2, <1>3, <2>3 DEF CostInv, AuditsMatchProgress, AuditRows
    <2>4. CASE stage = "REVIEW_SCENARIO"
      BY <1>1, <1>2, <1>3, <2>4 DEF CostInv, AuditsMatchProgress, AuditRows
    <2> QED  BY <1>1, <2>1, <2>2, <2>3, <2>4
  <1>5. LimitsInv'
    BY <1>1, <1>2 DEF CostInv, LimitsInv
  <1>6. OneReviewInv'
    <2>1. CASE stage = "REVIEW_SCENARIO"
      <3>1. artifact["REVIEW_SCENARIO"] = None /\ (Decision(signal).incRev => repo)
        BY <2>1 DEF CommitCode
      <3>2. revision = 0
        BY <1>1, <3>1 DEF CostInv, OneReviewInv
      <3>3. revision' # revision => repo
        BY <3>1 DEF Advance
      <3> QED  BY <1>1, <1>2, <2>1, <3>2, <3>3 DEF OneReviewInv
    <2>2. CASE stage # "REVIEW_SCENARIO"
      BY <1>1, <1>2, <2>2 DEF CostInv, OneReviewInv
    <2> QED  BY <2>1, <2>2
  <1> QED  BY <1>4, <1>5, <1>6 DEF CostInv

LEMMA CollectCosts ==
  ASSUME StageInv, CostInv, Collect
  PROVE  CostInv'
  <1>1. pc = "fetching" /\ stage = "COLLECT" /\ pc # "over"
    BY DEF Collect, StageInv, ThreadInv
  <1>2. \/ \E code, cause : Fail(code, cause) /\ artifact' = artifact /\ audits' = audits
        \/ /\ Advance("STAGE_COMPLETED") /\ audits' = audits /\ repo' = repo
           /\ \E c : artifact' = [artifact EXCEPT !["COLLECT"] = c]
    BY DEF Collect, config
  <1>3. (\E c : artifact' = [artifact EXCEPT !["COLLECT"] = c]) =>
          artifact'["REVIEW_SCENARIO"] = artifact["REVIEW_SCENARIO"]
    BY DEF StageInv, StoreInv, Stage
  <1> QED  BY <1>1, <1>2, <1>3, FailCosts, CompletionCosts

\* One stored output, or a failed attempt.
LEMMA AnswerCosts ==
  ASSUME StageInv, CostInv, Answer
  PROVE  CostInv'
  <1>1. /\ pc # "over" /\ stage \in Agent
        /\ stage \in {"SELECT_TOPIC", "GENERATE_SCENARIO", "REVIEW_SCENARIO"}
    BY DEF Answer, StageInv, ThreadInv, Agent, Stage
  <1>2. \/ \E seen, cause : RunFails(seen, cause) /\ AfterAgent(seen) # "ok"
        \/ \E content : Store(content)
    BY DEF Answer
  <1>3. ASSUME NEW seen, NEW cause, RunFails(seen, cause), AfterAgent(seen) # "ok"
        PROVE  CostInv'
    <2>1. PICK code : code = AfterAgent(seen)
      OBVIOUS
    <2>2. Fail(code, cause) /\ artifact' = artifact /\ audits' = audits
      BY <1>3, <2>1, RunFailsStep
    <2> QED  BY <1>1, <2>2, FailCosts
  <1>4. ASSUME NEW content, Store(content)
        PROVE  CostInv'
    <2>1. CASE /\ artifact' = artifact /\ audits' = audits
               /\ \E code \in {"PersistenceDuplicateError", "TypeError"} :
                    Fail(code, [of |-> "repository"])
      BY <1>1, <2>1, FailCosts
    <2>2. CASE /\ CommitCode(SignalOf(stage, content)) = "ok"
               /\ artifact' = [artifact EXCEPT ![stage] = [content |-> content]]
               /\ audits' = [audits EXCEPT ![stage] = @ + 1]
               /\ Advance(SignalOf(stage, content))
               /\ UNCHANGED <<last, config>>
      <3>1. PICK signal : signal = SignalOf(stage, content)
        OBVIOUS
      <3>2. \/ stage = "SELECT_TOPIC" /\ signal \in {"STAGE_COMPLETED", "NO_SUITABLE_TOPIC"}
            \/ stage = "GENERATE_SCENARIO" /\ signal = "STAGE_COMPLETED"
            \/ stage = "REVIEW_SCENARIO" /\ signal \in {"CRITIC_PASS", "CRITIC_REVISE"}
        BY <1>1, <3>1 DEF SignalOf, SelectTopicSignal, GenerateScenarioSignal, ReviewScenarioSignal
      <3>3. Advance(signal) /\ CommitCode(signal) = "ok" /\ repo' = repo
        BY <2>2, <3>1 DEF config
      <3>4. IF stage = "REVIEW_SCENARIO" THEN artifact'["REVIEW_SCENARIO"] # None
            ELSE artifact'["REVIEW_SCENARIO"] = artifact["REVIEW_SCENARIO"]
        <4>0. PICK row : row = [content |-> content]
          OBVIOUS
        <4>1. row # None
          BY <4>0 DEF None
        <4>2. artifact' = [artifact EXCEPT ![stage] = row] /\ "REVIEW_SCENARIO" \in DOMAIN artifact
          BY <2>2, <4>0 DEF StageInv, StoreInv, Stage
        <4> QED  BY <4>1, <4>2
      <3> QED  BY <1>1, <2>2, <3>2, <3>3, <3>4, CompletionCosts
    <2> QED  BY <1>4, <2>1, <2>2, StoreSplits
  <1> QED  BY <1>2, <1>3, <1>4

LEMMA OtherCosts ==
  ASSUME StageInv, CostInv,
         \/ FetchFeed \/ (\E i \in DOMAIN results : FetchItem(i)) \/ BeginRun \/ Call \/ RetryDue
         \/ UNCHANGED vars
  PROVE  CostInv'
  <1>1. CASE \E code, cause : /\ Fail(code, cause) /\ pc # "over"
                              /\ artifact' = artifact /\ audits' = audits
    BY <1>1, FailCosts
  <1>2. CASE /\ UNCHANGED <<stage, revision, attempt, end, artifact, audits, repo>>
             /\ pc' # "backoff" \/ pc' = pc
    BY <1>2, FreeStep
  <1>3. CASE FetchFeed
    BY <1>1, <1>2, <1>3 DEF FetchFeed, task, config
  <1>4. CASE \E seen, cause : RunFails(seen, cause) /\ seen # "ok" /\ pc # "over"
    BY <1>4, RunFailsCosts
  <1>5. CASE BeginRun
    BY <1>2, <1>4, <1>5 DEF BeginRun, task, config
  <1>6. CASE Call
    <2>1. "PRV_RATE" # "ok"
      OBVIOUS
    <2> QED  BY <1>2, <1>4, <1>6, <2>1 DEF Call, task, config
  <1>7. CASE (\E i \in DOMAIN results : FetchItem(i)) \/ RetryDue \/ UNCHANGED vars
    BY <1>2, <1>7 DEF FetchItem, RetryDue, vars, task, config
  <1> QED  BY <1>3, <1>5, <1>6, <1>7

\* What a workflow costs is bounded by its configuration, and by what the
\* repositories refuse: a task has at most max_attempts attempts, all of them
\* before FAILED_PERMANENTLY; the revisions stay within
\* max_scenario_revisions and are used up before REVIEW_FAILED.  Since
\* ReviewScenarioHandler stores every review as version 1 there is never more
\* than one revision, none with the Postgres repository, and no revised
\* scenario is ever passed or failed by its review: REVIEW_FAILED needs
\* max_scenario_revisions to be 0.
THEOREM CostsAreBounded == Spec => []CostInv
  <1>1. Init => CostInv
    BY StageAssumption DEF Init, CostInv, AuditsMatchProgress, AuditRows, LimitsInv, OneReviewInv,
                           Agent, Stage
  <1>2. ASSUME StageInv, CostInv, [Next]_vars PROVE CostInv'
    BY <1>2, CollectCosts, AnswerCosts, OtherCosts DEF Next
  <1>3. StageInv /\ CostInv /\ [Next]_vars => CostInv'
    BY <1>2
  <1> QED  BY <1>1, <1>3, StagesInvariant, PTL DEF Spec

\* HandlerSupport.run_agent_stage and the stage's transaction: whatever
\* attempts failed, the audit rows are those of the outputs the workflow was
\* moved by, and no other.
THEOREM AuditsFollowProgress == Spec => []AuditsMatchProgress
  <1>1. CostInv => AuditsMatchProgress
    BY DEF CostInv
  <1> QED  BY <1>1, CostsAreBounded, PTL
==============================================================================
