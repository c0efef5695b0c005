# Verification of the agentic cartoon workflow

The program takes a *workflow* from collected Hacker News stories through topic
selection, scenario generation and an automatic review to a human's approval. It
runs as an API process, a coordinator process and four kinds of worker
processes; PostgreSQL keeps the durable state and Redis Streams carries the
tasks. This directory holds TLA+ models of its parts, above all of those in
which processes, threads and failures meet, the TLC configurations that check
them on small instances, and TLAPS proofs of all their safety properties
for instances of any size. Paths below are relative to the repository's `src/`.

## 1. Inventory

| Part | State it keeps | Operations | Talks to | What is hard |
|---|---|---|---|---|
| transition table (`workflow/transition_table.py`, `types.py`, `constants.py`) | none | `lookup`, `lookup_approval`, `expected_outbox_task` | engine, reconciler | revision cap; complete and consistent rows |
| workflow engine (`workflow/engine.py`, `executor.py`, `outbox_builder.py`, `ids.py`) | `workflows`, `workflow_transitions`, `tasks`, `outbox` rows | `initiate_workflow`, `apply_transition`, `apply_approval_action` | called by API, workers, reconciler; repositories | reads and the conditional update are separate statements of a READ COMMITTED transaction; callers race |
| reconciler (`workflow/reconcile.py`, `runtime/reconciliation.py`) | none of its own | `scan_and_repair` (RP-001, RP-002, RP-003) | engine, repositories | decides from a scan that is stale when it repairs |
| read models (`workflow/read_models.py`) | none | status, history, output, timeline | API | several statements without a transaction |
| outbox publisher (`runtime/outbox.py`, `persistence/repos/outbox.py`) | outbox row status | `_publish_batch`: build, enqueue, mark | Redis, Postgres | two systems without a common transaction |
| task queue (`task_queue/`) | stream entries, consumer group, pending list | `enqueue`, `dequeue`, `ack`, `get_queue_stats`, `close` | publisher, workers | XAUTOCLAIM without a minimum idle time hands out deliveries that are being processed; a second XACK is an error; malformed messages |
| worker loop (`worker/loop.py`, `concurrency.py`, `idempotency.py`, `retry.py`, `state_mapping.py`) | idempotency keys, task status and attempt, in-process backoff, permits | `run`, `_process_delivery` and its branches, `stop` | queue, leases, engine, handlers | stale reads, redelivery, failures between commit and acknowledgement, shutdown |
| leases (`worker/lease.py`, `persistence/repos/task_lease.py`) | `task_leases` rows, timers, `_renew_failed` | `acquire`, `start_renewal`, `_renew_lease`, `stop_renewal`, `release` | worker loop | timers race with releases; one flag for all leases |
| stage handlers (`worker/handlers/`) | artifacts | `handle` | collector, agents, artifact repository | artifact versions under re-execution |
| persistence (`persistence/`) | the tables, a session per context | `transaction`, repositories | everybody | unique constraints as the last line of defence |
| API (`api/`) | none | initiate, status, history, output, timeline, approval, health | engine | requests race with workers and with their own retries |
| runtime (`runtime/`) | threads, signal state, the API's event loop | start, shutdown hooks, HTTP server, probes | everything | a thread that dies inside a live process; a loop that waits for itself; teardown under running threads |
| collector (`collector/`) | none | fetch, normalise, deduplicate, rank | Hacker News | items in any order, partial failure |
| providers, agents (`providers/`, `agents/`) | rate limiter, prompt cache | model calls, validation | model vendors | which errors are retryable; late answers; outputs that the next stage refuses |
| configuration (`config/`) | immutable configuration | load, map, validate | everybody | limits and cross checks |
| failure injection (`failure_injection/`) | armed injections | `invoke_if_active` | worker, publisher | raises in the middle of a protocol |
| observability (`observability/`), CLI (`cli/`) | none that is durable | telemetry; HTTP client | | |

What makes each modelled part correct:

* engine: the history is one path of the matrix; nothing is lost or doubled by a
  race; the cap holds; a task key is dispatched once; terminal states are final;
* pipeline: no work is lost, every stage takes effect at most once and in order,
  a delivery is thrown away only when its task is settled, and every workflow
  leaves its working states, each up to the exceptions that section 4 names;
* publisher: no row is marked without its message, the loop itself duplicates
  and reorders nothing, every row is published in the end;
* reconciler: a repair from a stale scan creates no work of its own and takes none
  away;
* leases: one executor per task as long as renewals run and are not late; an orphan
  blocks a task no longer than its life;
* worker process: it acknowledges only what is over, keeps its permits, and stops;
* stages: what is stored is in order and accounted for, and the next stage accepts
  it; the audit rows tell what moved the workflow; exactly the temporary failures are
  tried again;
* requests: each one ends, its answer tells what happened, and a version of a
  workflow is decided once.

`PROJECT.json` lists the hazards at their lines.

## 2. Modules and how they correspond to the code

**`WorkflowTable`** is the matrix and the two small tables around it, as
constant operators. A lookup returns a set: empty where the code raises
`InvalidTransitionError`. The workflow, pipeline, stage and request modules use it.

**`WorkflowLifecycle`** is the abstract promise of the engine: one workflow walks
the matrix one decision at a time and dispatches each task in the same instant.
No callers, no versions. The k-th generation round asks for, stores and reviews
scenario version k.

**`WorkflowEngine`** is the engine over the Postgres repositories for one
workflow and any set `Caller` of concurrent transactions.

| variable | table or object |
|---|---|
| `row` | the `workflows` row: state, `state_version`, `revision_count` |
| `history` | `workflow_transitions` in commit order |
| `outbox` | the rows of `tasks`/`outbox` in commit order: type and logical version |
| `scenarios`, `active` | `SCENARIO` artifacts and the active one |
| `call[c]` | what caller c's open transaction has read and decided |

`InitiateRead`/`InitiateCommit` are the duplicate check and the insert;
`ApplyTransition` and `ApplyApprovalAction` are the read of the row and the
decision; `BuildForDecision` is the second read, of the active scenario;
`ExecuteTransition` is everything from the conditional UPDATE to the commit. The
UPDATE holds the row's lock until the commit, so nobody else's write can come
between the writes of one transaction, and they are one step; a caller that would
lose the race blocks on the lock and then finds another version, which is
`Rollback`. A worker that ends a generation has inserted its scenario in the same
transaction: `wrote` is that version, seen by the caller itself and by nobody
else. `RepoTakesRevision` says whether `update_workflow_state` accepts
`revision_count`: the in-memory repository does, the Postgres one does not.

**`StageLifecycle`** is the abstract promise of the worker pipeline: the stages
take effect one after the other, each exactly once.

**`WorkerPipeline`** is one workflow with the publisher, the streams and any set
`Slot` of worker threads. A transaction is atomic here (their races are
`WorkflowEngine`'s subject); every transaction and every Redis command is a step
of its own, and the steps of all threads interleave. A slot walks through
`_process_delivery`:

    idle -Dequeue-> received -SkipDelivery-> skip -Ack-> finally -> idle
                    received -ProceedDelivery-> leasing -AcquireLease-> checking
                    received -DeferDelivery-> idle     (lease conflict -> idle)
    checking -CheckBeforeExecution / PayloadUnreadable-> reuse | handling
    handling -CommitStage-> committed -ReleaseLease-> acking -Ack-> finally
    handling -HandlerTransient / HandlerPermanent-> retrying | failing
    retrying -RetryLater-> finally
    failing -FailWorkflow-> ackfail -Ack-> finally      (conflict -> finally)

`Key` is the key of the task's own version; what a thread looks up is
`CheckKey(s, ver)`. The version is in the task's payload
(`resolve_logical_version`); an error of that read is swallowed, and then
`FallbackVersion` is looked up: the active scenario's for a review, 1 for a
generation. `PayloadUnreadable` is that step. When it finds the key of another round
completed and the task's own key is not, the delivery goes to its acknowledgement
unexecuted, and the history variable `misread` remembers the task.

Faults, `MaxFaults` in all: `Crash` of a thread's process at any point,
`PublisherFails` between enqueue and mark, `PublisherDies` (an error that
`_publish_batch` does not catch ends the thread; only `PublisherRestarts`, a restart
of the coordinator, brings it back, and nothing makes that happen), `LoseLease`,
`AckUnavailable` (Redis, or an injected failure, between commit and
acknowledgement), `PayloadUnreadable`, `DatabaseError` and `FinallyRaises` (the
release in the finally clause fails and the lease stays, until it expires or, when
a renewal callback was under way, for ever). An error of the handler
(`HandlerTransient`, `HandlerPermanent`) is not counted as a fault: it may happen on
every attempt.

**`TaskLease`** is the lease table with the renewal timers of several processes,
in discrete time. A lease's `chain` is its armed timer, its running callback, or
nothing. Time passes between any two steps (`Tick` is always enabled): a timer may
fire late, an INSERT, an UPDATE or a DELETE may wait for a connection of the pool
(`expires_at` is computed before the wait), a callback may be under way for any time.
`late` counts the ticks of a chain that were not on its timer. A release may raise
(`ReleaseRaises`); the finally clause then tries once more. `loose` marks a chain
whose callback was under way when `stop_renewal` came, which re-arms itself whatever
happens to the lease.

**`OutboxPublisher`** is the publisher thread with its batches, which
`WorkerPipeline` reduces to "enqueue, then mark". `rows`, `published` and `stream`
are the outbox table, the rows marked and the messages added to Redis; `pc`,
`batch`, `row` and `tries` are where the thread is in `_publish_batch` and
`_enqueue_with_retry`. A failed XADD may have added its message, a failed UPDATE
may have been committed. `ThreadDies` is every error that the loop does not catch.
The retry loop around `mark_published` catches no error that the repository
raises, so it makes one attempt.

**`Reconciler`** extends `WorkerPipeline` with the row's version and age and with
the scanner, whose reads, version check and repair are separate steps. It is
composed with the whole pipeline: workers, publisher, human and faults go on
between any two of them. It models repositories with the listing methods; the
Postgres ones have none, and then a scan does nothing. The tasks and outbox rows
of a listing are read in one step: all that the scanner reads later than the row
is checked by the version afterwards.

**`TaskQueue`** is `RedisTaskQueue` as a value and its operations as sets of
outcomes: the queue afterwards, the error code, the delivery. A command that times
out may or may not have reached the server. Encoding drops blank trace keys and
decoding names the missing fields, so a malformed entry is acknowledged and raised.

**`WorkerProcess`** is one worker process over that queue: `main` (start, signal,
grace period, teardown), `loop` (`DefaultWorkerLoop.run`), the executor's `backlog`,
the pool threads with the semaphore, and a database whose calls may raise. A task is
only open or over here; what it does to the workflow is `WorkerPipeline`'s subject.
`Misread` is the swallowed payload error of `WorkerPipeline`, for any open task.
After `Teardown` every call of a thread that is still running raises. `leaked` counts
the permits of finally clauses that raised before they got to give them back.

**`Providers`**, **`Agents`**, **`Collector`** are the pure parts of a stage, as
operators: from a vendor's exception to an error code (the extractor of each SDK,
then the mapper), from a timeout configuration to a deadline, from a model's answer
to a verdict, from the items of a feed to a ranked collection. An exception is its
class name, whether the SDK owns it, its status and whether it speaks of a schema;
an answer is the fields that stages look at and `valid` for the rest of the schema.
`SdkException` says how the SDKs raise: each vendor has its own transient classes, a
class that names a permanent error has no transient status, and an exception that is
not the SDK's carries no such status beyond those that its extractor looks at. The SDKs
are not part of the repository; this is how the extractors expect them. The loop of
`dedupe` is a recursive function of the number of answers, with `Keep` as its turn, and
the sort of `rank` counts what precedes a story, so that both can be proved about.

**`StageExecution`** composes them into the four stages of one workflow as a worker
executes them: the feed, the items in any order, the agent's run, the vendor's
answer, retries, audit rows, spans and injected failures. It is the inside of
`WorkerPipeline`'s `handling` for one executor; the races between executors are that
module's subject. Time is counted in steps and only compared with the deadline.
What a stage writes is `Committed`, or rolled back by whatever is raised in its
transaction: `run_agent_stage` does append an audit row for a failed call, inside
that transaction, and raises. (A unit test sees the row because its repository is a mock without transactions,
`tests/unit/worker/test_handler_support.py:105`.) `repo` says which
`update_workflow_state` is wired, the Postgres one or one that takes
`revision_count`, and `CommitCode` what the repositories refuse: a second review, and
with Postgres a revision. All four injections of `FINJ_PROVIDER_ORDER` and
`FINJ_WKR_POST_AGENT` may be active. A prompt may also be binary, which raises
`UnicodeDecodeError`, or have an unknown placeholder; a text that is substituted into
a prompt may look like a placeholder itself; an answer may be nested too deeply for
`json.loads`, which raises `RecursionError`.

**`Configuration`** is the loader: the checks in the order of the code, as the first
error of a file or none. One value stands for all fields of one kind (`Number` lists
the cases: absent, of a wrong type, zero, one, more, above an agent's limit, infinite,
not a number). It decides whether the process of `RequestPath` starts; no property
says that an accepted file is usable, since it need not be (section 4).

**`HttpApi`** is validation, error mapping and the CLI's checks and exit codes.
**`RequestPath`** composes both with the API process: the one event loop
(`LoopFree`), the connection pool (`Free`), a transaction that is opened and ended on
the loop with the engine's statements in a thread between, queries of one statement
per connection, the readiness probe, and row locks (`Locked`). A request is at one of
the places its header lists. Workers move the workflows on meanwhile. A client that
has given up and sends the same again is another request: the server goes on with
the first. Three things fail after a request has been accepted: a statement of the
engine (`StatementFails`: PostgreSQL then commits nothing of the transaction), the
log line after its writes (`LogFails`: the route answers with API_INTERNAL and the
transaction is committed) and the commit (`CommitFails`).

The operators marked *Mutant* are plausible slips of the operator after them. They
are used by no specification; the mutation runs put them in its place and TLC must
then refute the property the entry in `PROJECT.json` names.

## 3. Runs

| run | instance | checks |
|---|---|---|
| `engine_races` | 2 callers, cap 2, 3 scenarios, 62 390 states | `HistoryIsPath`, `RevisionsWithinCap`, `RevisionsCounted`, `ReviewsActiveScenario`, `TaskKeysUnique`, `ScenariosInStep`, `TerminalIsFinal`, refinement of `WorkflowLifecycle` |
| `pipeline_faults` | 2 threads, 1 fault, 2 scenarios, the review with 2 attempts, 1 973 112 states | `AckedIsSettled`, `PrerequisitesThere`, `NoLoserPath`, `WorkNotLost`, refinement of `StageLifecycle` |
| `pipeline_progress` | 2 threads, 1 fault, 1 scenario, the review with 2 attempts, 556 566 states | `Progress` |
| `lease_timers` | 2 processes, 2 tasks, 2 lease ids, TTL 2 and interval 1 ticks, 361 934 states | `LapseNeedsDelay`, `OverlapNeedsDelay`, `OrphansExpire` |
| `publisher_loop` | 4 rows of 2 workflows, batches of 2, 2 attempts, 3 faults, 42 153 states | `PublishedInStream`, `OneCopyPerFault`, `InOrder`, `PublishedWhileAlive` |
| `reconcile_rounds` | 1 thread, scans up to the sixth task, 2 scenarios, 258 334 states | refinement of `StageLifecycle`, with the scanner |
| `worker_shutdown` | 2 pool threads, limit 1, 1 task, 1 message, 1 Redis and 1 database failure, 2 starts, 301 660 states | `PermitsConserved`, `AckedIsOver`, `StatsNeverUndercount`, `StopsUnlessLeaked` |
| `stage_execution` | pools of 3 items, 16 kinds of items, 3 SDKs, 2 attempts, cap 1, both repositories, 303 064 states | `CollectionInFeedOrder`, `RetriedIffTemporary`, `NextStageAccepts`, `AuditsMatchProgress`, `SpansEnd` |
| `request_path` | 3 requests, 2 connections, 1 fault, 123 configuration files, 103 455 states | `OutputNotBehind`, `AnswerTellsEffect`, `DecidedOnce`, `EveryRequestEnds` |

*Why the bounds are enough.* Two callers make every race between a read and a
write, and the proofs cover any number of them. A cap of two has a
revision below, at and beyond the cap; three scenarios have a first round, one
that a revision asked for and one that a human asked for. In the pipeline two
threads are a thread and its duplicate, one fault already separates any two steps
of a thread, and two scenarios make a task type occur twice in a workflow, which
is where stale deliveries become dangerous. `pipeline_faults` runs with
`RepoTakesRevision = TRUE`, which only adds behaviours; its second scenario is what
makes an unreadable payload dangerous. `pipeline_progress` has one scenario, since
liveness over the retries and the faults of two threads leaves room for no more: an
unreadable payload does no harm in it, and the misread task of `Progress` cannot
occur. TTL 2 and interval 1 keep the ratio 60 : 30 of `worker/constants.py`; a tick
of delay is then already as much as the interval leaves. Four rows with batches of two make a
second batch with rows left over from the first; three faults exhaust the two
attempts of one row and hit another. `MaxTasks` ends the scanning, not the
pipeline: six tasks are two rounds with a re-created task. One thread is enough
beside the scanner: what two executors of one key do to each other is
`pipeline_faults`' subject (a lost lease lets the second one in), and a re-created
task adds no other kind of second executor. Retries are given per task type
(`MaxAttempts`): in the two runs of the pipeline the review has a second attempt,
which lets two threads fail one task with attempts they read at different times.

In `worker_shutdown` two threads and a limit of one make a thread wait for the
other's permit; one message is claimed again as often as the loop polls, so it is in
the backlog and in a thread at once; `MaxBacklog` bounds how often it is submitted
before a thread takes it. One failed command of each system hits every place of a
delivery, and the second start finds what the first left. In `stage_execution` three
of four ids are the pool's cut, two candidates of three stories the ranking's;
the SDKs raise at least one exception of every kind the mapper tells apart, and answers
come at the deadline and one step before it. In `request_path` two connections and three requests make a
transaction wait for a connection on the loop while the two that hold them wait for
the loop; the third is always an approval, so that an approval, its repetition and
another human's can meet. Odd requests meet one approval, and every odd
configuration file one command of the CLI, since the file decides before there is
anything to race with.

*Deadlock.* All runs but `lease_timers` turn deadlock checking off: a terminal
workflow has nothing to do, the human may never answer, a stopped process is done,
and clients stop asking.

*Fairness.* `WorkerPipeline!Fairness`: the publisher loop runs while its thread lives, and
nothing restarts it (`Progress` then says nothing); some idle thread
dequeues when there is something to dequeue (workers poll for ever); a thread that
has started goes on (the handler returns or raises: model calls have timeouts, and
nothing says it succeeds); dead leases expire because time passes; a delivery that
is claimed again and again is not deferred each time, because its delay is finite
(strong fairness, since between two claims it is not enabled). No fairness on the
human, on faults, or on success. `TaskLease!Fairness`: time passes, and timer threads
run in the end, however late. Nothing forces a thread to finish its task or to
release its lease. `OutboxPublisher!FairSpec`: the thread is
scheduled; Redis fails finitely often (`MaxFaults`); nothing restarts a process.
`WorkerProcess!Fairness`:
the main thread, the loop thread and each pool thread run on, and a handler returns
or raises; nobody need send a signal, and nothing restarts a process.
`RequestPath!Fairness`: the process starts, its loop and its threads go on, a wait
for a connection ends with the pool's timeout, and a stopped server is torn down;
no fairness on clients, workers, faults or kills.

## 4. Where the code and its documentation disagree

Three runs state what a comment, a test or a document says and find it violated.

* `revise_refused`: a REVISE verdict below the cap fails the workflow with the
  Postgres repository, because `execute_transition` passes `revision_count` to a
  method that does not take it.
* `second_review`: the review after a regeneration or revision is stored as
  version 1 again, refused by the unique constraint, and fails the workflow.
* `duplicate_ack`: a duplicate whose acknowledgement comes second is handled as a
  permanent failure, and can fail the workflow's next generation round.

More that the models contain and that no run singles out:

* a thread that fails late writes back the attempt number it read at the start, so
  that a task at its last attempt may get another one (`RetryLater`);
* the late renewal of a released lease sets a flag that stops the renewal of the
  process's other leases, and a second process may execute their tasks; a database
  error ends a chain too; and a chain that is alive may be late. Without one of these
  `OverlapNeedsDelay` excludes an overlap (`worker/lease.py:86`, against its line 5).
  What the program leaves for delays is TTL - interval = 30 s, and the connection
  pool's timeout is 30 s as well, so one renewal that gets its connection in the last
  moment is late enough;
* a release that raises leaves its row; if a renewal callback was under way it is
  renewed for ever and the task is blocked as long as the process lives
  (`OrphansExpire` excludes `loose` chains, `Progress` leases renewed like that;
  `worker/lease.py:88`);
* one database error ends the publisher thread in a process that stays up;
  `PublishedWhileAlive` and `Progress` say what is left (`runtime/outbox.py:237`,
  against line 4);
* an error of `get_task_payload` is swallowed and the key of version 1 looked up
  instead: the generation of a second scenario is then found completed and
  acknowledged unexecuted, and the workflow stays in GENERATING_SCENARIO
  (`worker/idempotency.py:123`). `AckedIsSettled`, `WorkNotLost`,
  `AckedIsOver` and `Progress` name this exception, `misread`, and hold for every
  other failure;
* RP-003 looks for an in-flight task only of the type `_rp001_expected_task`
  returns, which is none for SELECTING_TOPIC, REVIEWING and a generation under way:
  such a workflow is failed by its age alone (`JudgeStuck`); and RP-001 re-creates
  COLLECT at every scan while it is in flight;
* a worker that commits between the scanner's version check and its repair makes
  `apply_transition` raise through the scheduler's loop, whose thread ends
  (`RepairFailed`);
* a lease whose release raises in the finally clause keeps its permit for good; with
  a limit of one the pool then waits for ever and the process does not stop
  (`StopsUnlessLeaked`), and any error of `dequeue` ends the loop in a process that
  goes on waiting for a signal (`LoopPoll`);
* the rate limiter belongs to a provider that is created for every run, so it is
  always full and limits nothing (`Bucket`);
* a scenario with a blank punchline is stored and then refused by the critic, more
  candidates than the selector takes are collected and then refused, and text of a
  story, a topic or a scenario that looks like a template variable fails the next
  stage (`NextStageAccepts`, `Substitute`); the span of a collection that failed is
  never ended, nor is the agent's after an injected failure or a `RecursionError`
  (`SpansEnd`);
* the audit row that `run_agent_stage` appends for a failed model call is rolled back
  with its transaction, and so is that of a review whose commit is refused
  (`AuditsMatchProgress` says which rows are left; `worker/handlers/base.py:201-226`
  means to keep them);
* because every review is version 1 (`second_review`), no revised scenario is ever
  passed or failed by its review, and a workflow reaches REVIEW_FAILED only when
  `max_scenario_revisions` is 0 (`CostsAreBounded`);
* an approval whose log line cannot be written is answered with API_INTERNAL and
  committed (`LogFails`);
* no idempotency key is looked at: an initiation without an id that is sent again
  creates another workflow, where `api/validation.py:3` says that keys prevent it;
  an approval is safe only because its version is checked (`DecidedOnce`);
* a transaction waits for a connection on the event loop, and everything else waits
  with it, until the pool's timeout (`EveryRequestEnds` needs `GetConnectionTimeout`);
  the readiness probe's own timeout waits for the probe's thread and so is none;
* what passes the validator need not be usable: infinite and undefined numbers
  (`config/validator.py:78`), finite backoffs that overflow in
  `multiplier ** (attempt - 1)` or in `timedelta` (`worker/retry.py:104`, `107`), more
  candidates than the selector takes, prompts that are larger than their loader reads,
  not in UTF-8 (`agents/prompts/loader.py:92`) or with an unknown placeholder
  (`agents/prompts/builder.py:136`); and the text "false" enables failure injection.
  `StageExecution` runs under such prompts and candidate counts.

The passing runs describe the code as it is: `StageLifecycle` lets a working state
fail at any time, so these are failures of workflows or of threads, never corrupted
workflows.

## 5. Proofs

Every safety property of a passing run is a theorem of the specification, for every
value of the constants that satisfies the assumptions of its module. Each proof module
extends the module it is about. None of the properties is inductive as it stands; what
its invariant adds is the argument.

`WorkflowEngineProofs` (any set of callers, any cap and bound; `EngineAssumption`:
the types of the constants):

* `TypeCorrect`, `EngineInvariant`, and from it `AuditTrail`, `RevisionCap`,
  `UniqueTaskKeys`, `ScenarioVersions`, `ReviewOfActiveScenario` and
  `RevisionsMatchHistory` (the revision count is the number of REVISION_REQUIRED
  entries, as the cardinality of a set of positions that each commit extends by at
  most one);
* `TerminalStaysFinal`, the action property;
* `EngineRefinesLifecycle`: the engine implements `WorkflowLifecycle`.

A call in flight holds a decision, and what it will write depends on
whether that decision is still right. `IInv` adds two parts. `StageInv` says
which tasks and scenarios a state can have behind it; for instance the next
scenario's generation is dispatched only in states where it is outstanding.
`CallInv` says that a call whose version equals the row's holds the row's own
revision and state, a decision the matrix gives for them, and a task version
computed from the active scenario. A step of another caller raises the row's
version, after which the call's version is smaller and `CallInv` asks nothing of
it: that is optimistic concurrency control in one sentence, and the only step that
needs work is `ExecuteTransition` itself (`ExecuteStep`). `CommitNumbers` is the
arithmetic of the versions, `CurrentShape` turns the matrix into the six shapes a
decision can have, and `CommitRefines` maps the commit to one `Follow` step.

`WorkerPipelineProofs` (any set of threads, attempts per task type, faults and
rounds; `PipelineAssumption`: types, and no thread is named like the dead owner of a
lease) proves `AcknowledgedIsSettled`, `HandlersFindInput`, `LoserPathUnreachable`,
`NoWorkLost` and `StagesTakeEffectOnce`, the refinement of `StageLifecycle`.
`PipelineInv` has three parts. `DatabaseInv` relates the rows of one workflow: which
task keys a state can have behind it (`Numbered`), that until the workflow is over every
task has taken effect but the one of the state it works in (`CurrentIsOpen`), and that
what took effect has stored its artifact, as has the stage before every task
(`Stored`). `StreamInv` says that every task is still to be published or was added to
its stream, and an acknowledged delivery is settled. `SlotInv` says what the place of a
thread in `_process_delivery` tells about its delivery: it has taken effect, or the
workflow is over; both with the exception of a misread task. A thread in `handling` may
be as stale as it likes: when its key has taken effect, the artifact it would store is
there already, and the unique constraint refuses it before the idempotency key is
looked at. The same holds of a thread that handles its task under another version's
key, because the fallback found that key not completed only if the task's own
artifact is stored (`RightVersion`, from `Past`). That is why the loser path is dead
code, and the lease has no part in it. Two action properties follow
from the same invariant: `FinalStatesAreFinal`, no step changes a workflow that is over,
its artifacts and keys, or gives it a task, and `PipelineTakesNothingBack`, no key,
artifact, message or acknowledgement is taken back, and a delivery leaves the pending
list only by an acknowledgement. A duplicate changes neither because it can commit
only the current task of a working state (`CommitsCurrent`), and fail only that state.

`ReconcilerProofs` (the same with the scanner; `ReconcilerAssumption`: `MaxTasks` is
a number) proves `ReconcilerTypes`, `RepairsKeepStages` (the refinement again),
`RepairsKeepAcks`, `RepairsKeepWork` and `OnlyCollectionIsRepeated`. The pipeline's
lemmas are used for its steps. `ReconcileInv` adds `ScanInv` for the scanner, which
decides from what it read some time ago: if the version it holds is still the row's,
then so is the state, and a candidate that asks for GENERATE_SCENARIO has outlived its
version, so that the check before the repair drops it. That holds because a task that
is no longer in flight has taken effect or the workflow is over (`InFlightInv`). What
is left is COLLECT, which RP-001 re-creates while the first is in flight; the two
share a key and the stage takes effect once. `BoundsInv` is what the types say beyond
that, with the attempt a retrying thread has left. `RepairsKeepFinalStates` and
`RepairsTakeNothingBack` are the pipeline's two action properties with the scanner; a
late repair may still write the collection's task again for a workflow that is over.

`TaskLeaseProofs` (any processes, tasks and lease ids, every TTL and interval with
0 < interval < TTL, which `LeaseAssumption` asks for and `worker/constants.py` gives,
and any delays) proves `LeaseTypes`, `RenewedInTime`, `NoOverlapWhileRenewed`,
`ExclusiveExecution` (at most one process executes a task under a lease whose chain
is alive and not late by TTL - interval) and `LooseChains` (a chain without a thread
is one whose callback was under way when `stop_renewal` came). `LeaseInv` adds the
unique indexes (`UniqueRows`), that no two threads have the same lease and its row is
one of their task (`OwnLeases`), whose process a chain runs in (`OwnChains`,
`LooseEnds`) and, in `Renewable`, the race of the two clocks: what is left of the row
and the chain's delay together make up at least what the chain counts on (`Due`), so
that only a delay of TTL - interval can use up the row first.

`OutboxPublisherProofs` (any number of rows, batch size, attempts, faults;
`PublisherAssumption`: types) proves `PublisherTypes`, `NoMessageLost`,
`DuplicatesArePaidFor` and `WorkflowOrderKept`. For `PublishedInStream`, a
row that is about to be marked must be in the stream already (`MarkedNext`). The
stream only grows (`StreamGrows`), and every way to abandon a row goes
through `Take` or `Fresh`, which mark nothing. For the copies, `OrderInv` says that what is
still to come in a batch is not marked (`Unmarked`) and that every message is one of a
marked row, of the row about to be marked, or a fault (`Copies`). For the order, as
long as there was no fault: the rows of a workflow before a published one are published
(`PublishedInOrder`), those before a row of the batch are published or come before it
(`BatchInOrder`), and the stream has no message of another row (`StreamSettled`).

`WorkerProcessProofs` (any finite set of threads, any limit, tasks, messages and
failures; `WorkerAssumption`) proves `NoPermitLost`, `AckedOnlyWhenOver` and
`StatsCoverUnacked`. `WorkerInv` says where a permit is for each place a thread can
be at, that a thread about to acknowledge has finished its task or found it finished,
and what Redis guarantees between two commands: every entry up to the last delivered
one is pending or acknowledged (`QueueOK`), and no command takes back an entry, an
acknowledgement or a delivery (`Grows`). The last is what the two commands of
`get_queue_stats` need, since the queue moves between them.

`RequestPathProofs` (any number of requests, connections, faults, files;
`RequestAssumption`: types, the commands are ones that the CLI can send, and the
numbers of a file are of the kinds listed in `Configuration`) proves
`DecisionsAreTakenOnce`, `AnswersAreTrue` and `OutputsAreConsistent`.
`RequestInv` says for each request what its place tells about what it asked for and has
read (`Placed`), that an approval about to write has seen a waiting row which is
unchanged as long as its version is (`Decides`), what an uncommitted write and a
committed one mean for the row (`Writes`, `TookEffect`), what its answer tells (`Tells`)
and what an output has read against the row as it is now (`Shows`). `OneWriter` is the
row lock: no two open transactions have written to one workflow.

`StageExecutionProofs` (any feed, items, exceptions, timeouts, attempts and cap;
`StageAssumption`, which also says that a story's id, score and time are numbers)
proves `SpansAreClosed`, `RetriesAreRight`, `CollectionsAreInFeedOrder`,
`StagesAcceptInputs`, `CostsAreBounded` and `AuditsFollowProgress`. `StageInv`
relates the place of the executor to the open spans (`SpansInv`), to the stored outputs
(`StoreInv`), and to the failure it has last seen (`FailureInv`). The
substance of `RetriesAreRight` is in lemmas without state: each rule table picks its
first match (`FirstIs`), so that for every exception of an SDK the extractor's signals
(`OpenAISignals`, `AnthropicSignals`, `GeminiSignals`) and the mapper's code
(`MapperCodes`) agree with `TemporaryException`, and the classifier's table follows
(`TableDecisions`). It rests on `SdkException`, which says how the three SDKs raise.

`CollectionsAreInFeedOrder` needs to know what the collector makes of a sequence of
answers of any length, again without state. `Dedupe` is a recursive function; that the
function exists is shown by its approximations (`TurnsExist`), and that after `n` turns
it has kept exactly the first accepted answer of every id (`KeptOK`) by the least
counterexample (`LeastOf`, `UpTo`), since the prover has no induction over an
operator. `Rank` puts a story where as many stories as its place says precede it; that
this fills every place once, in the order of the scores, is `PlacesByCounting` (n
different numbers below n are all of them) and `RankOrders`. `CollectionIsInOrder`
adds the counts and the candidates. `CollectedInv` brings this to the executor:
the answers that have arrived are the ones listed, each at its place, whatever their
order (`FetchInv`), there are at most as many candidates as configured (`CandidatesInv`),
and the selector has refused none but for the reasons named (`TopicAccepted`). With
`OutputsAccepted`, about what one agent hands to the next, that is `StagesAcceptInputs`.

`CostsAreBounded` bounds what a workflow can spend, under `CostInv`. `LimitsInv`:
attempts and revisions stay within the configuration, and all of them are used before
FAILED_PERMANENTLY and REVIEW_FAILED. `OneReviewInv`: what `CommitCode` refuses leaves
room for one review, so for one revision, and with Postgres for none.
`AuditsMatchProgress`, which is `AuditsFollowProgress`: the committed audit rows are one
of the topic, one of each scenario and one of each verdict acted upon; it is an
invariant because a failed run's row is rolled back (`RunFailsCosts`), and the stage,
the revision and the rows move in one commit (`CompletionCosts`).

Only model-checked: liveness, which the prover does not do (`Progress`,
`OrphansExpire`, `PublishedWhileAlive`, `StopsUnlessLeaked`, `EveryRequestEnds`).

## 6. Left out, and abstractions

* Contents of stories, prompts, scenarios and reviews, telemetry, wording.
* The failure reason, actors and timestamps of a transition.
* One workflow at a time: workflows share no row; they share worker threads, which
  are free to be busy here.
* The task and the workflow are read in one step at the start of a delivery; the
  code reads the task first. A later write is seen as staleness either way.
* Delays of the backoff: `DeferDelivery` may happen whenever the task has failed
  before.
* A task row that a message names is always there, because both are written in one
  transaction before the message: the `task_not_found` branches are unreachable.
* RP-002 and RP-004 only report; the scanner's batch limit over many workflows.
* `WorkerProcess` serves one role, whose task type has one semaphore; limits of other
  types are never used in it. The age of the oldest message of the statistics.
* `StageExecution` runs one workflow with one executor; prompts change only between
  runs; costs and token counts.
* `WorkerProcess` does not tell a task's versions apart: any open task may be misread.
* `RequestPath`: response bodies are status, class and the versions they show; the
  rest of `output`'s package is read like the scenario; the engine's writes are one
  step under the row's lock. Its workers take only the steps that change what a
  request sees.
* Not modelled: record mappers and migrations (no state of their own), exporters,
  metrics and log records (but for a line that cannot be written), in-memory fakes (the models take the Postgres
  repositories, except where a module says so), the CLI's interactive review and
  rendering, the SDKs behind the vendors and Redis and PostgreSQL themselves, which
  are modelled by how the code uses them.

## 7. Plan

1. `WorkflowTable`, `WorkflowEngine`, `WorkerPipeline`, `TaskLease`,
   `OutboxPublisher`, `Reconciler`, `WorkerProcess` with `TaskQueue`,
   `StageExecution` with `Collector`, `Providers` and `Agents`, `RequestPath` with
   `HttpApi` and `Configuration`: done, as above.
2. Proofs of the safety properties, module by module, with the action properties of
   the pipeline and of the scanner: done, as in section 5.
3. Shared consumers: two worker processes on one stream, and a queue that trims its
   entries.
