---------------------------- MODULE StageExecution ----------------------------
(***************************************************************************)
(* The stages of one workflow as the worker thread that holds its task     *)
(* executes them: the concurrent fetch of the items of a collection, the   *)
(* agents' runs with the vendors' answers, the transaction that stores an  *)
(* artifact with its audit row or rolls it back, and the retries.          *)
(*                                                                         *)
(* Deliveries, leases and races between workers are WorkerPipeline's; the  *)
(* table of transitions is WorkflowTable's.                                *)
(***************************************************************************)
EXTENDS Agents, Collector

CONSTANTS
  VendorOf,        \* agents.<agent>.provider, by stage
  Timeouts,        \* timeouts.<provider>: read, connect, total
  RateLimit,       \* providers.<provider>.rate_limit_per_minute, 0 for none
  MaxAttempts,     \* retry.<task type>.max_attempts
  MaxRevisions,    \* workflow.max_scenario_revisions
  Injections,      \* the sets of injections a configuration may activate
  FeedFailures,    \* how fetching the list of ids may fail
  FeedLengths,     \* how many ids it may bring
  ItemAnswers,     \* what the service may answer for an item
  Exceptions,      \* what a vendor's SDK may raise, by vendor
  Contents,        \* what a model may answer, by stage
  PromptFiles,     \* what a prompt file may be like
  Repositories     \* whether update_workflow_state takes a revision_count: the
                   \* protocol's does, the Postgres repository's does not

ASSUME StageAssumption ==
  /\ MaxAttempts \in Nat \ {0} /\ {MaxRevisions, RateLimit} \subseteq Nat
  /\ FeedLengths \subseteq Nat /\ Repositories \subseteq BOOLEAN
  /\ Timeouts \in [read : Nat, connect : Nat, total : Nat] /\ Budget(Timeouts).overall > 0
  /\ VendorOf \in [Stage \ {"COLLECT"} -> ProviderId \ {"fake"}]
  /\ \A v \in ProviderId \ {"fake"} : \A e \in Exceptions[v] : SdkException(v, e)
  /\ \A f \in FeedFailures : /\ f.error \in {"timeout", "connection", "http", "malformed"}
                             /\ f.status \in Nat
  /\ \A r \in ItemAnswers : ItemOutcome(r) = "story" => Numeric(r.item)

T == INSTANCE WorkflowTable

VARIABLES
  stage,       \* type of the current task
  revision,    \* revision_count
  attempt,     \* attempt of its row
  pc,          \* where the thread is; "over" when there is no task any more
  end,         \* the workflow's state then
  served,      \* the service's answers of the fetch, by position, until they are collected
  results,     \* fetch_all's list
  artifact,    \* by stage, what its last completion stored
  audits,      \* committed rows of ai_invocations, by stage
  cached,      \* text in the loader's cache, by stage
  spans,       \* how many spans of a kind have started and not ended
  last,        \* the last failure and what was made of it
  active,      \* the configuration's active injections
  repo         \* the repository's update_workflow_state

task == <<stage, revision, attempt, end>>
fetch == <<served, results>>
config == <<active, repo>>
vars == <<task, pc, fetch, artifact, audits, cached, spans, last, config>>

None == [none |-> TRUE]
Agent == Stage \ {"COLLECT"}
NoFailure == [cause |-> [of |-> "none"], code |-> "ok", retried |-> FALSE]

Init ==
  /\ stage = "COLLECT" /\ revision = 0 /\ attempt = 1 /\ end = "none"
  /\ pc = "ready"
  /\ served = <<>> /\ results = <<>>
  /\ artifact = [s \in Stage |-> None] /\ audits = [s \in Agent |-> 0]
  /\ spans = [collector |-> 0, agent |-> 0, provider |-> 0]
  /\ cached = [s \in Agent |-> "none"] /\ last = NoFailure
  /\ active \in Injections /\ repo \in Repositories

------------------------------------------------------------------------------
\* The only decision of the table for a signal in the stage's state.
Decision(signal) ==
  CHOOSE d \in T!Lookup(T!ExpectedStateForTask(stage), signal, revision, MaxRevisions) : TRUE

\* _commit_success_path: the transition, and the task it leads to.
Advance(signal) ==
  LET to == Decision(signal).to
      next == IF to = "REVISION_REQUIRED" THEN "GENERATE_SCENARIO"
              ELSE T!ExpectedOutboxTask(to)
  IN /\ revision' = IF Decision(signal).incRev THEN revision + 1 ELSE revision
     /\ IF next = T!NoTask
        THEN pc' = "over" /\ end' = to /\ UNCHANGED <<stage, attempt>>
        ELSE pc' = "ready" /\ stage' = next /\ attempt' = 1 /\ UNCHANGED end

\* Mutant: what was written stays written.
CommittedAlways(before, after, code) == after

\* The stage's transaction commits, or is rolled back by whatever is raised
\* in it.
Committed(before, after, code) == IF code = "ok" THEN after ELSE before

\* The handler of _process_delivery, after the transaction.
Fail(code, cause) ==
  LET retried == Retryable(code) /\ attempt < MaxAttempts
      signal == IF Retryable(code) THEN "RETRIES_EXHAUSTED" ELSE "UNRECOVERABLE_ERROR"
  IN /\ last' = [cause |-> cause, code |-> code, retried |-> retried]
     /\ IF retried
        THEN pc' = "backoff" /\ attempt' = attempt + 1 /\ UNCHANGED end
        ELSE pc' = "over" /\ end' = Decision(signal).to /\ UNCHANGED attempt
     /\ UNCHANGED <<stage, revision, config>>

\* The delay of schedule_backoff is over, and the delivery is claimed again.
RetryDue ==
  /\ pc = "backoff"
  /\ pc' = "ready"
  /\ last' = NoFailure
  /\ UNCHANGED <<task, fetch, artifact, audits, cached, spans, config>>

------------------------------------------------------------------------------
\* FeedFetcher.fetch, and the pool cut to its size.
FetchFeed ==
  /\ pc = "ready" /\ stage = "COLLECT"
  /\ spans' = [spans EXCEPT !.collector = @ + 1]
  /\ \/ \E f \in FeedFailures :
          /\ Fail(ClassifyFeedFailure(f), [of |-> "feed", feed |-> f])
          /\ UNCHANGED <<fetch, artifact, audits>>
     \/ \E n \in FeedLengths :
          /\ served' = <<>> /\ results' = [i \in 1 .. Min({n, PoolSize}) |-> None]
          /\ pc' = "fetching"
          /\ UNCHANGED <<task, artifact, audits, last, config>>
  /\ UNCHANGED cached

\* Mutant: the results are listed as they arrive.
FetchItemAppends(i) ==
  /\ pc = "fetching" /\ i \notin DOMAIN served
  /\ \E r \in ItemAnswers :
       /\ served' = [j \in DOMAIN served \cup {i} |-> IF j = i THEN r ELSE served[j]]
       /\ results' = [results EXCEPT ![Cardinality(DOMAIN served) + 1] = r]
  /\ UNCHANGED <<task, pc, artifact, audits, cached, spans, last, config>>

\* One future of ItemFetcher.fetch_all completes, in any order.
FetchItem(i) ==
  /\ pc = "fetching" /\ i \notin DOMAIN served
  /\ \E r \in ItemAnswers :
       /\ served' = [j \in DOMAIN served \cup {i} |-> IF j = i THEN r ELSE served[j]]
       /\ results' = [results EXCEPT ![i] = r]
  /\ UNCHANGED <<task, pc, artifact, audits, cached, spans, last, config>>

\* The rest of collect_stories and of CollectTaskHandler.handle.  A lost
\* connection counts at the first position only; the collector's span ends
\* with a collection.
Collect ==
  LET c == CollectionOf(results)
      lost == IF results = <<>> THEN FALSE ELSE served[1].error = "connection"
  IN /\ pc = "fetching" /\ DOMAIN served = DOMAIN results
     /\ IF lost
        THEN /\ Fail("COL_FETCH", [of |-> "feed", feed |-> served[1]])
             /\ UNCHANGED <<artifact, audits, spans>>
        ELSE IF c.ok
        THEN /\ artifact' = [artifact EXCEPT !["COLLECT"] = c]
             /\ spans' = [spans EXCEPT !.collector = @ - 1]
             /\ Advance("STAGE_COMPLETED")
             /\ UNCHANGED <<audits, last, config>>
        ELSE Fail(c.code, [of |-> "item"]) /\ UNCHANGED <<artifact, audits, spans>>
     /\ UNCHANGED <<fetch, cached>>

------------------------------------------------------------------------------
\* What the handlers read back of the artifact before: the candidates of a
\* collection, a topic, a scenario.
TopicInput == artifact["COLLECT"].candidates
ScenarioInput == artifact["SELECT_TOPIC"].content
CriticInput == artifact["GENERATE_SCENARIO"].content

InputOf(s) ==
  CASE s = "SELECT_TOPIC"      -> TopicInput
    [] s = "GENERATE_SCENARIO" -> ScenarioInput
    [] s = "REVIEW_SCENARIO"   -> CriticInput

\* run_agent_stage invokes FINJ_WKR_POST_AGENT after an output and after a
\* failure that it audits: then the injected exception is the one raised.
AfterAgent(code) ==
  IF "FINJ_WKR_POST_AGENT" \in active /\ (code = "ok" \/ Audited(code))
  THEN "InjectedFailureError" ELSE code

\* One more row of ai_invocations.
Invoked == [audits EXCEPT ![stage] = @ + 1]

\* The except clause of run_agent_stage appends an audit row in the stage's
\* transaction, and raises again.
RunFails(seen, cause) ==
  LET code == AfterAgent(seen)
  IN /\ audits' = Committed(audits, IF Audited(seen) THEN Invoked ELSE audits, code)
     /\ Fail(code, cause)
     /\ UNCHANGED artifact

\* The handler up to the vendor's call: the provider is built, without its
\* key not at all, and BaseAgent._run_pipeline checks input and prompt.
BeginRun ==
  /\ pc = "ready" /\ stage # "COLLECT"
  /\ \E key \in BOOLEAN, file \in PromptFiles :
       LET input == InputOf(stage)
           hit == cached[stage]
           code == IF key THEN Prepare(stage, input, file, hit) ELSE "PRV_CONFIG"
           read == key /\ ValidateInput(stage, input) = "ok" /\ LoadPrompt(file, hit) = "ok"
       IN /\ cached' = IF read THEN [cached EXCEPT ![stage] = PromptText(file, hit)] ELSE cached
          /\ IF code = "ok"
             THEN /\ pc' = "calling"
                  /\ spans' = [spans EXCEPT !.agent = @ + 1]
                  /\ UNCHANGED <<task, artifact, audits, last, config>>
             ELSE /\ RunFails(code, [of |-> "run", file |-> file])
                  /\ UNCHANGED spans
  /\ served' = <<>> /\ results' = <<>>

\* create_provider is called for every run: so is ClientRateLimiter().
Bucket == RateLimit

\* InjectionGate.evaluate, in FINJ_PROVIDER_ORDER.
InjectionGate ==
  IF "FINJ_PRV_TIMEOUT" \in active THEN "TimeoutError"
  ELSE IF active \cap {"FINJ_PRV_RATE", "FINJ_PRV_ERROR", "FINJ_PRV_INVALID"} # {}
  THEN "InjectedFailureError" ELSE "ok"

\* BaseRemoteProvider.generate up to the transport: injected failures are no
\* ProviderErrors, and nobody ends the agent's span.
Call ==
  /\ pc = "calling"
  /\ IF InjectionGate # "ok"
     THEN RunFails(InjectionGate, [of |-> "injected"]) /\ UNCHANGED spans
     ELSE IF Acquire(RateLimit, Bucket) = -1
     THEN /\ RunFails("PRV_RATE", [of |-> "client"])
          /\ spans' = [spans EXCEPT !.agent = @ - 1]
     ELSE /\ pc' = "waiting"
          /\ spans' = [spans EXCEPT !.provider = @ + 1]
          /\ UNCHANGED <<task, artifact, audits, last, config>>
  /\ UNCHANGED <<fetch, cached>>

\* The signals the three handlers derive from their agents' outputs.
SelectTopicSignal(content) ==
  IF content.outcome = "topic_selected" THEN "STAGE_COMPLETED" ELSE "NO_SUITABLE_TOPIC"
GenerateScenarioSignal(content) == "STAGE_COMPLETED"
ReviewScenarioSignal(content) ==
  IF content.status = "PASS" THEN "CRITIC_PASS" ELSE "CRITIC_REVISE"

SignalOf(s, content) ==
  CASE s = "SELECT_TOPIC"      -> SelectTopicSignal(content)
    [] s = "GENERATE_SCENARIO" -> GenerateScenarioSignal(content)
    [] s = "REVIEW_SCENARIO"   -> ReviewScenarioSignal(content)

\* What the transaction of a completed run ends with: every review is stored
\* as version 1, and a revision passes revision_count to the repository.
CommitCode(signal) ==
  IF stage = "REVIEW_SCENARIO" /\ artifact[stage] # None THEN "PersistenceDuplicateError"
  ELSE IF Decision(signal).incRev /\ ~ repo THEN "TypeError" ELSE "ok"

\* create_artifact, append_ai_invocation and _commit_success_path, in one
\* transaction.
Store(content) ==
  LET signal == SignalOf(stage, content)
      code == CommitCode(signal)
      row == [content |-> content]
  IN /\ artifact' = Committed(artifact, [artifact EXCEPT ![stage] = row], code)
     /\ audits' = Committed(audits, Invoked, code)
     /\ IF code = "ok" THEN Advance(signal) /\ UNCHANGED <<last, config>>
        ELSE Fail(code, [of |-> "repository"])

Replies(v, s) ==
  {[raised |-> TRUE, exc |-> e] : e \in Exceptions[v]}
  \cup {[raised |-> FALSE, content |-> c] : c \in Contents[s]}

\* Mutant: a failed call's span is left open.
EndSpansOfSuccess(open, ok, seen) ==
  [open EXCEPT !.agent = IF seen = "RecursionError" THEN @ ELSE @ - 1,
               !.provider = IF ok THEN @ - 1 ELSE @]

\* emit_call_completed or emit_call_failed ends the provider's span, and
\* finalize_span_* the agent's, unless the parser gave up.
EndSpans(open, ok, seen) ==
  [open EXCEPT !.agent = IF seen = "RecursionError" THEN @ ELSE @ - 1, !.provider = @ - 1]

\* The vendor answers or raises, in time or not.
Answer ==
  /\ pc = "waiting"
  /\ \E reply \in Replies(VendorOf[stage], stage),
        elapsed \in {Budget(Timeouts).overall - 1, Budget(Timeouts).overall} :
       LET v == VendorPhase(VendorOf[stage], Timeouts, reply, elapsed)
           seen == IF v.ok THEN ValidateOutput(stage, v.content) ELSE v.code
       IN /\ spans' = EndSpans(spans, v.ok, seen)
          /\ IF AfterAgent(seen) = "ok" THEN Store(v.content)
             ELSE RunFails(seen, [of |-> "vendor", vendor |-> VendorOf[stage],
                                  reply |-> reply, elapsed |-> elapsed])
  /\ UNCHANGED <<fetch, cached>>

Next ==
  \/ FetchFeed \/ Collect
  \/ \E i \in DOMAIN results : FetchItem(i)
  \/ BeginRun \/ Call \/ Answer
  \/ RetryDue

Spec == Init /\ [][Next]_vars

------------------------------------------------------------------------------
\* Whatever the order in which the items of a feed arrive: the stories are
\* the first accepted of each id in the feed's order, ranked, every answer
\* is accounted for once, and the candidates are the best stories.
CollectionInFeedOrder ==
  stage = "SELECT_TOPIC" /\ attempt = 1 /\ pc = "ready" =>
    LET c == artifact["COLLECT"]
        With(S) == {i \in DOMAIN served : Outcome(served[i]) \in S}
        firsts == {i \in With({"accept"}) : \A j \in With({"accept"}) :
                     j < i => served[j].item.id # served[i].item.id}
    IN /\ {c.stories[k] : k \in DOMAIN c.stories} = {served[i].item : i \in firsts}
       /\ Len(c.stories) = Cardinality(firsts)
       /\ \A k \in 1 .. Len(c.stories) - 1 :
            RankScore(c.stories[k], c.stories) >= RankScore(c.stories[k + 1], c.stories)
       /\ c.candidates = SubSeq(c.stories, 1, Len(c.candidates))
       /\ Len(c.candidates) = Min({CandidateCount, Len(c.stories)})
       /\ c.fetched + Cardinality(With({"skip", "reject_json"})) = Len(results)
       /\ Len(c.stories) + c.rejected + Cardinality(With({"skip", "null", "not_a_story"}))
            = Len(results)

\* What makes a failure of the outside temporary.
Temporary(cause) ==
  \/ /\ cause.of = "feed"
     /\ \/ cause.feed.error \in {"timeout", "connection"}
        \/ cause.feed.error = "http" /\ cause.feed.status \notin (400 .. 499) \ {408, 429}
  \/ /\ cause.of = "vendor" /\ cause.reply.raised
     /\ LET e == cause.reply.exc
        IN \/ e.name \in OpenAITransient \cup GoogleTransient
           \/ e.status \in TransientStatus \ {529}
           \/ e.status = 529 /\ cause.vendor \in {"openai", "kimi"}
  \/ /\ cause.of = "vendor" /\ ~ cause.reply.raised
     /\ cause.elapsed >= Budget(Timeouts).overall

\* A failure of the feed or of a vendor ends the workflow with attempts left
\* if and only if it is not temporary, through the extractors, the mapper
\* and the classifier; unless an injected failure takes its place.
RetriedIffTemporary ==
  last.cause.of \in {"feed", "vendor"} /\ last.code # "InjectedFailureError" =>
    /\ last.retried => Temporary(last.cause)
    /\ end = "FAILED" => ~ Temporary(last.cause)

\* What a stage accepts and stores, the next one accepts: with a good prompt
\* an agent refuses its input only for want of any candidate, for more
\* candidates than are configured for it, for a punchline nobody had asked to
\* be there, or for text that looks like a variable of the prompt.
NextStageAccepts ==
  last.code \in {"AGT_INPUT", "AGT_PROMPT"} =>
    \/ last.code = "AGT_PROMPT" /\ last.cause.file # "good"
    \/ last.code = "AGT_PROMPT" /\ Mustache(stage, InputOf(stage))
    \/ stage = "SELECT_TOPIC" /\ Len(InputOf(stage)) = 0
    \/ stage = "SELECT_TOPIC" /\ CandidateCount > MaxTopicCandidates
    \/ stage = "REVIEW_SCENARIO" /\ InputOf(stage).punchline = "blank"

AuditRows(topics, scenarios, reviews) ==
  /\ audits["SELECT_TOPIC"] = topics
  /\ audits["GENERATE_SCENARIO"] = scenarios
  /\ audits["REVIEW_SCENARIO"] = reviews

\* The audit rows that are left follow from where the workflow is: one of the
\* topic, one of each scenario, one of each verdict that was acted upon.  The
\* rows run_agent_stage appends for failed runs, retried or not, and those of
\* a review whose commit fails are not among them.
AuditsMatchProgress ==
  /\ stage = "COLLECT" => AuditRows(0, 0, 0) /\ revision = 0
  /\ stage = "SELECT_TOPIC" =>
       AuditRows(IF end = "NO_SUITABLE_TOPIC" THEN 1 ELSE 0, 0, 0) /\ revision = 0
  /\ stage = "GENERATE_SCENARIO" => AuditRows(1, revision, revision)
  /\ stage = "REVIEW_SCENARIO" =>
       AuditRows(1, revision + 1,
                 IF end \in {"REVIEW_PASSED", "REVIEW_FAILED"} THEN revision + 1 ELSE revision)

\* Between runs no span is open but one for every collection that failed,
\* and the agent's after an exception that is neither a ProviderError nor
\* one of the agents' own: an injected one, or the parser's.
SpansEnd ==
  pc \in {"ready", "backoff", "over"} =>
    /\ spans.provider = 0
    /\ spans.agent = IF last.cause.of = "injected" \/ last.code = "RecursionError" THEN 1 ELSE 0
    /\ stage = "COLLECT" =>
         spans.collector = IF pc = "over" THEN attempt ELSE attempt - 1
==============================================================================
