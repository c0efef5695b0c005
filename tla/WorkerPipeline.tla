--------------------------- MODULE WorkerPipeline ----------------------------
(***************************************************************************)
(* One workflow on its way through the outbox publisher, the task streams  *)
(* and the worker processes, with process crashes, redelivery, retries,    *)
(* lost leases and Redis errors.                                           *)
(*                                                                         *)
(* A slot is a thread of some worker process that runs _process_delivery;  *)
(* every database transaction and every Redis command is one step, and     *)
(* anything may happen between two steps of a slot.  The races inside a    *)
(* transaction are WorkflowEngine's subject; here a transaction is atomic. *)
(*                                                                         *)
(* The tasks, the messages and the leases are the rows of their tables and *)
(* the entries of the streams; a task is named by its position in tasks    *)
(* and a delivery by its position in entries.                              *)
(***************************************************************************)
EXTENDS WorkflowTable, Sequences, FiniteSets

CONSTANTS
  Slot,               \* worker threads that process deliveries
  MaxAttempts,        \* retry.<task type>.max_attempts, by task type
  MaxRevisions,       \* workflow.max_scenario_revisions
  RepoTakesRevision,  \* see WorkflowEngine
  MaxScenarios,       \* bound: scenario versions a human may ask for
  MaxFaults           \* bound: crashes, lost leases and Redis errors

ASSUME PipelineAssumption ==
  /\ MaxAttempts \in [TaskType -> Nat \ {0}]
  /\ MaxRevisions \in Nat
  /\ RepoTakesRevision \in BOOLEAN
  /\ MaxScenarios \in Nat
  /\ MaxFaults \in Nat
  /\ Slot \cap {"dead", "renewed"} = {}

VARIABLES
  row,        \* workflows: state and revision_count
  tasks,      \* tasks, in creation order
  outbox,     \* tasks whose outbox row is PENDING
  pub,        \* task the publisher has enqueued and not yet marked, or 0
  alive,      \* the publisher's thread runs
  entries,    \* messages added to the streams, in order
  pending,    \* deliveries in a consumer group's pending list
  acked,      \* deliveries acknowledged
  leases,     \* task_leases rows that have not expired
  done,       \* idempotency keys <<type, logical version>> claimed
  artifacts,  \* stored <<artifact type, version>>
  active,     \* logical version of the active SCENARIO, or 0
  slot,       \* the slots
  faults,     \* faults so far
  misread     \* tasks that were taken for completed ones (history)

vars == <<row, tasks, outbox, pub, alive, entries, pending, acked, leases,
          done, artifacts, active, slot, faults, misread>>

database == <<row, tasks, outbox, done, artifacts, active>>
publisher == <<pub, alive>>
streams == <<entries, pending, acked>>
history == <<faults, misread>>

(***************************************************************************)
(* pc is where a slot is in _process_delivery:                             *)
(*   received   a delivery has been dequeued                               *)
(*   skip       the stale guard said "acknowledge without executing"       *)
(*   leasing, checking   about to acquire the lease, to look up the key    *)
(*   handling   the stage's transaction                                    *)
(*   committed  it committed, the lease is still held                      *)
(*   acking, reuse       about to acknowledge: executed, or found done     *)
(*   retrying, failing, ackfail   the except clauses                       *)
(*   finally    the finally clause                                         *)
(* ver is the logical version of the key the slot works with, err says why *)
(* it is in an except clause.                                              *)
(***************************************************************************)
PC == {"idle", "received", "skip", "leasing", "checking", "handling",
       "committed", "acking", "reuse", "retrying", "failing", "ackfail",
       "finally"}
Err == {"none", "error", "duplicate", "keyword"}

Idle == [pc |-> "idle", d |-> 0, att |-> 0, ver |-> 0, err |-> "none"]

NewTask(type, ver) ==
  [type |-> type, ver |-> ver, attempt |-> 1, status |-> "PENDING"]

\* initiate_workflow has committed.
Init ==
  /\ row = [state |-> "COLLECTING", revision |-> 0]
  /\ tasks = <<NewTask("COLLECT", 1)>>
  /\ outbox = {1}
  /\ pub = 0 /\ alive = TRUE
  /\ entries = <<>>
  /\ pending = {} /\ acked = {}
  /\ leases = {}
  /\ done = {}
  /\ artifacts = {} /\ active = 0
  /\ slot = [s \in Slot |-> Idle]
  /\ faults = 0 /\ misread = {}

Least(S) == CHOOSE x \in S : \A y \in S : x <= y

Fault == faults < MaxFaults /\ faults' = faults + 1

Go(s, pc) == slot' = [slot EXCEPT ![s].pc = pc]
Raise(s, pc, err) ==
  slot' = [slot EXCEPT ![s].pc = pc, ![s].err = err]
Leave(s) == slot' = [slot EXCEPT ![s] = Idle]

\* The task a delivery, and a slot, is about.
TaskOf(d) == entries[d].task
Mine(s) == TaskOf(slot[s].d)
Key(i) == <<tasks[i].type, tasks[i].ver>>

------------------------------------------------------------------------------
\* DefaultOutboxPublisherLoop._publish_batch for one row: build the message
\* from the task, enqueue it ...
Enqueue ==
  /\ alive /\ pub = 0 /\ outbox # {}
  /\ pub' = Least(outbox)
  /\ entries' = Append(entries, [task |-> pub', attempt |-> tasks[pub'].attempt])
  /\ UNCHANGED <<database, alive, pending, acked, leases, slot, history>>

\* ... and mark the row published, in this order.
MarkPublished ==
  /\ pub # 0
  /\ outbox' = outbox \ {pub}
  /\ pub' = 0
  /\ UNCHANGED <<row, tasks, done, artifacts, active, alive, streams, leases,
                 slot, history>>

\* The coordinator dies and is restarted, or mark_published fails for good,
\* after the enqueue: the row is still PENDING and will be published again.
PublisherFails ==
  /\ pub # 0
  /\ pub' = 0
  /\ Fault
  /\ UNCHANGED <<database, alive, streams, leases, slot, misread>>

\* A database error of fetch_unpublished, of the message builder or of
\* mark_published is caught by nobody: it ends the daemon thread.
PublisherDies ==
  /\ alive
  /\ pub' = 0 /\ alive' = FALSE
  /\ Fault
  /\ UNCHANGED <<database, streams, leases, slot, misread>>

\* Only a new coordinator process starts the thread again.
PublisherRestarts ==
  /\ ~ alive
  /\ alive' = TRUE
  /\ UNCHANGED <<database, pub, streams, leases, slot, history>>

------------------------------------------------------------------------------
Unread(type) ==
  {d \in DOMAIN entries \ (pending \cup acked) : tasks[TaskOf(d)].type = type}

\* Mutant: an acknowledged delivery is claimed again.
DeliveredEver(type) ==
  {d \in pending \cup acked : tasks[TaskOf(d)].type = type}

Unacked(type) == {d \in pending : tasks[TaskOf(d)].type = type}

\* RedisTaskQueue.dequeue: a message nobody has read, else XAUTOCLAIM with no
\* minimum idle time, which hands out the oldest pending delivery even while
\* another thread is processing it.
Dequeue(s, type) ==
  LET d == IF Unread(type) # {} THEN Least(Unread(type))
           ELSE Least(Unacked(type))
  IN /\ slot[s].pc = "idle"
     /\ Unread(type) \cup Unacked(type) # {}
     /\ pending' = pending \cup {d}
     /\ slot' = [slot EXCEPT ![s] = [Idle EXCEPT !.pc = "received", !.d = d]]
     /\ UNCHANGED <<database, publisher, entries, acked, leases, history>>

\* Two reads without a transaction, of the task and of the workflow, decide
\* what happens to a delivery.  A stale one is acknowledged unexecuted.
SkipDelivery(s) ==
  /\ slot[s].pc = "received"
  /\ SkipStale(row.state, tasks[Mine(s)].type)
  /\ Go(s, "skip")
  /\ UNCHANGED <<database, publisher, streams, leases, history>>

\* effective_attempt
EffectiveAttempt(s) ==
  LET recorded == tasks[Mine(s)].attempt
      sent == entries[slot[s].d].attempt
  IN IF recorded >= sent THEN recorded ELSE sent

ProceedDelivery(s) ==
  /\ slot[s].pc = "received"
  /\ ~ SkipStale(row.state, tasks[Mine(s)].type)
  /\ slot' = [slot EXCEPT ![s].pc = "leasing", ![s].att = EffectiveAttempt(s)]
  /\ UNCHANGED <<database, publisher, streams, leases, history>>

\* should_defer: the delay this process scheduled is not over.  Delays are
\* not modelled; another process would not see them either.
DeferDelivery(s) ==
  /\ slot[s].pc = "received"
  /\ ~ SkipStale(row.state, tasks[Mine(s)].type)
  /\ tasks[Mine(s)].attempt > 1
  /\ Leave(s)
  /\ UNCHANGED <<database, publisher, streams, leases, history>>

\* Mutant: a delivery that meets another worker's lease is acknowledged.
AcquireOrAck(s) ==
  /\ slot[s].pc = "leasing"
  /\ IF \E l \in leases : l.task = Mine(s)
     THEN /\ Go(s, "skip")
          /\ UNCHANGED leases
     ELSE /\ Go(s, "checking")
          /\ leases' = leases \cup {[task |-> Mine(s), holder |-> s]}
  /\ UNCHANGED <<database, publisher, streams, history>>

\* LeaseCoordinator.acquire; a conflict ends the delivery without an
\* acknowledgement.
AcquireLease(s) ==
  /\ slot[s].pc = "leasing"
  /\ IF \E l \in leases : l.task = Mine(s)
     THEN /\ Leave(s)
          /\ UNCHANGED leases
     ELSE /\ Go(s, "checking")
          /\ leases' = leases \cup {[task |-> Mine(s), holder |-> s]}
  /\ UNCHANGED <<database, publisher, streams, history>>

\* check_before_execution with the key of logical version ver.
CheckKey(s, ver) ==
  /\ slot[s].pc = "checking"
  /\ slot' = [slot EXCEPT ![s].ver = ver,
                          ![s].pc = IF <<tasks[Mine(s)].type, ver>> \in done
                                    THEN "reuse" ELSE "handling"]

\* resolve_logical_version finds the version in the task's payload, or knows
\* that the stage has one version.
CheckBeforeExecution(s) ==
  /\ CheckKey(s, tasks[Mine(s)].ver)
  /\ UNCHANGED <<database, publisher, streams, leases, history>>

\* What resolve_logical_version falls back to.
FallbackVersion(type) == IF type = "REVIEW_SCENARIO" /\ active # 0 THEN active ELSE 1

\* get_task_payload raises and _payload_logical_version swallows the error:
\* the slot goes on with a key that may be another task's.
PayloadUnreadable(s) ==
  LET i == Mine(s)
      ver == FallbackVersion(tasks[i].type)
  IN /\ CheckKey(s, ver)
     /\ tasks[i].type \in {"GENERATE_SCENARIO", "REVIEW_SCENARIO"}
     /\ misread' = misread \cup {j \in {i} : <<tasks[i].type, ver>> \in done /\ Key(i) \notin done}
     /\ Fault
     /\ UNCHANGED <<database, publisher, streams, leases>>

------------------------------------------------------------------------------
ArtifactType(type) ==
  CASE type = "COLLECT"           -> "COLLECTED_STORIES"
    [] type = "SELECT_TOPIC"      -> "TOPIC_SELECTION"
    [] type = "GENERATE_SCENARIO" -> "SCENARIO"
    [] type = "REVIEW_SCENARIO"   -> "CRITIC_REVIEW"

\* Mutants: versions counted from zero; versions that are always free.
ArtifactFromZero(i) == <<ArtifactType(tasks[i].type), tasks[i].ver - 1>>
ArtifactNextFree(i) ==
  LET type == ArtifactType(tasks[i].type)
  IN <<type, Cardinality({a \in artifacts : a[1] = type}) + 1>>

\* The artifact a stage stores, and the one it must find.  The critic's
\* review is stored as version 1 whatever scenario it is about.
ArtifactOf(i) ==
  <<ArtifactType(tasks[i].type),
    IF tasks[i].type = "GENERATE_SCENARIO" THEN tasks[i].ver ELSE 1>>

Prerequisite(type) ==
  CASE type = "COLLECT"           -> TRUE
    [] type = "SELECT_TOPIC"      -> <<"COLLECTED_STORIES", 1>> \in artifacts
    [] type = "GENERATE_SCENARIO" -> <<"TOPIC_SELECTION", 1>> \in artifacts
    [] type = "REVIEW_SCENARIO"   -> active # 0

HandlerSignals(type) ==
  CASE type = "SELECT_TOPIC"    -> {"STAGE_COMPLETED", "NO_SUITABLE_TOPIC"}
    [] type = "REVIEW_SCENARIO" -> {"CRITIC_PASS", "CRITIC_REVISE"}
    [] OTHER                    -> {"STAGE_COMPLETED"}

\* Mutant: the worker leaves the workflow in the pause state.
NoBridge(d) == {}

\* _apply_dispatch_bridge_transitions: the decision that follows d in the
\* same transaction, if any.  It always ends in a state that is not bridged,
\* so the loop runs at most once.
Bridge(d) ==
  IF \/ d.to \in {"COLLECTED", "TOPIC_SELECTED", "SCENARIO_GENERATED"}
          /\ d.task # NoTask
     \/ d.to \in {"REVIEW_PASSED", "REVISION_REQUIRED"}
  THEN Lookup(d.to, "STAGE_COMPLETED", row.revision, MaxRevisions)
  ELSE {}

\* Mutant: the task of a round that a human asked for is not written.
DispatchedOnce(ds, scenario) ==
  {NewTask(d.task, ResolveForTask(d.task, scenario, d.incVer)) :
     d \in {e \in ds : e.task # NoTask /\ ~ e.incVer}}

\* The tasks that decisions ds dispatch, numbered from the active scenario.
Dispatched(ds, scenario) ==
  {NewTask(d.task, ResolveForTask(d.task, scenario, d.incVer)) :
     d \in {e \in ds : e.task # NoTask}}

\* One decision of ds dispatches at most; the new row of the task table.
AddTasks(seq, new) ==
  IF new = {} THEN seq ELSE Append(seq, CHOOSE t \in new : TRUE)

\* Handler and _commit_success_path in one transaction: store the artifact,
\* claim the key, apply the transition and the bridge, complete the task.
CommitStage(s, signal) ==
  LET i == Mine(s)
      type == tasks[i].type
      scenario == IF type = "GENERATE_SCENARIO" THEN tasks[i].ver ELSE active
  IN /\ slot[s].pc = "handling"
     /\ Prerequisite(type)
     /\ ArtifactOf(i) \notin artifacts
     /\ row.state = ExpectedStateForTask(type)
     /\ \E d \in Lookup(row.state, signal, row.revision, MaxRevisions) :
          LET bridge == Bridge(d)
              new == Dispatched({d} \cup bridge, scenario)
          IN /\ d.incRev => RepoTakesRevision
             /\ row' = [state |-> IF bridge = {} THEN d.to
                                  ELSE (CHOOSE b \in bridge : TRUE).to,
                        revision |-> IF d.incRev THEN row.revision + 1
                                     ELSE row.revision]
             /\ tasks' = AddTasks([tasks EXCEPT ![i].status = "COMPLETED"], new)
             /\ outbox' = outbox \cup {j \in {Len(tasks) + 1} : new # {}}
     /\ done' = done \cup {<<type, slot[s].ver>>}
     /\ artifacts' = artifacts \cup {ArtifactOf(i)}
     /\ active' = scenario
     /\ Go(s, "committed")
     /\ UNCHANGED <<publisher, streams, leases, history>>

\* is_exhausted
Exhausted(s) == slot[s].att >= MaxAttempts[tasks[Mine(s)].type]

\* The handler raises a retryable error.
HandlerTransient(s) ==
  /\ slot[s].pc = "handling"
  /\ Raise(s, IF Exhausted(s) THEN "failing" ELSE "retrying", "error")
  /\ UNCHANGED <<database, publisher, streams, leases, history>>

\* Everything else classify_exception calls permanent: the agent's output is
\* invalid, the artifact version exists, the Postgres repository refuses
\* revision_count, the workflow is not in the expected state.
HandlerPermanent(s) ==
  LET i == Mine(s)
      type == tasks[i].type
  IN /\ slot[s].pc = "handling"
     /\ \/ Raise(s, "failing", "error")
        \/ /\ ArtifactOf(i) \in artifacts
           /\ Raise(s, "failing", "duplicate")
        \/ /\ type = "REVIEW_SCENARIO" /\ ArtifactOf(i) \notin artifacts
           /\ row.state = ExpectedStateForTask(type)
           /\ row.revision < MaxRevisions /\ ~ RepoTakesRevision
           /\ Raise(s, "failing", "keyword")
     /\ UNCHANGED <<database, publisher, streams, leases, history>>

\* Mutant: the failed delivery is acknowledged, as if a new message followed.
RetryAndAck(s) ==
  /\ slot[s].pc = "retrying"
  /\ tasks' = [tasks EXCEPT ![Mine(s)].status = "DISPATCHED",
                            ![Mine(s)].attempt = slot[s].att + 1]
  /\ pending' = pending \ {slot[s].d}
  /\ acked' = acked \cup {slot[s].d}
  /\ Go(s, "finally")
  /\ UNCHANGED <<row, outbox, publisher, done, artifacts, active, entries, leases,
                 history>>

\* _handle_retryable_failure: the attempt is written from what the slot read
\* when it classified the delivery.
RetryLater(s) ==
  /\ slot[s].pc = "retrying"
  /\ tasks' = [tasks EXCEPT ![Mine(s)].status = "DISPATCHED",
                            ![Mine(s)].attempt = slot[s].att + 1]
  /\ Go(s, "finally")
  /\ UNCHANGED <<row, outbox, publisher, done, artifacts, active, streams, leases,
                 history>>

\* _handle_permanent_failure: apply_transition raises WorkflowConflictError
\* when the workflow is not in the task's state, and the error ends the
\* thread after its finally clause.
FailWorkflow(s) ==
  LET i == Mine(s)
      signal == IF Exhausted(s) THEN "RETRIES_EXHAUSTED"
                ELSE "UNRECOVERABLE_ERROR"
  IN /\ slot[s].pc = "failing"
     /\ IF row.state = ExpectedStateForTask(tasks[i].type)
        THEN /\ \E d \in Lookup(row.state, signal, row.revision, MaxRevisions) :
                  row' = [row EXCEPT !.state = d.to]
             /\ tasks' = [tasks EXCEPT ![i].status =
                             IF Exhausted(s) THEN "DEAD_LETTER" ELSE "FAILED"]
             /\ Go(s, "ackfail")
        ELSE /\ Go(s, "finally")
             /\ UNCHANGED <<row, tasks>>
     /\ UNCHANGED <<outbox, publisher, done, artifacts, active, streams, leases,
                    history>>

------------------------------------------------------------------------------
\* LeaseCoordinator.release deletes the slot's own lease, if it is still there.
Released(s) == leases \ {[task |-> Mine(s), holder |-> s]}

ReleaseLease(s) ==
  /\ slot[s].pc = "committed"
  /\ leases' = Released(s)
  /\ Go(s, "acking")
  /\ UNCHANGED <<database, publisher, streams, history>>

\* RedisTaskQueue.ack.  XACK of a delivery that is acknowledged already
\* raises AckError: inside the try block (acking, reuse) that is a permanent
\* failure, elsewhere it ends the thread.  A stale delivery is acknowledged
\* before the block that the finally clause belongs to.
Ack(s) ==
  LET d == slot[s].d
  IN /\ slot[s].pc \in {"skip", "acking", "reuse", "ackfail"}
     /\ pending' = pending \ {d}
     /\ acked' = acked \cup {d}
     /\ CASE slot[s].pc = "skip" -> Leave(s)
          [] slot[s].pc \in {"acking", "reuse"} /\ d \notin pending ->
               Raise(s, "failing", "error")
          [] OTHER -> Go(s, "finally")
     /\ UNCHANGED <<database, publisher, entries, leases, history>>

\* The release of the lease raises, Redis cannot be reached, or an injected
\* failure is raised, between the commit and the acknowledgement: inside the
\* try block the except clause fails the workflow, elsewhere the thread ends
\* without an acknowledgement.
AckUnavailable(s) ==
  /\ slot[s].pc \in {"skip", "committed", "acking", "reuse", "ackfail"}
  /\ CASE slot[s].pc = "skip"    -> Leave(s)
       [] slot[s].pc = "ackfail" -> Go(s, "finally")
       [] OTHER                  -> Raise(s, "failing", "error")
  /\ Fault
  /\ UNCHANGED <<database, publisher, streams, leases, misread>>

\* A database error that is not swallowed is not retryable: it fails the
\* workflow when it comes from the lease, the active artifact or the
\* idempotency table, and ends the thread when it comes from the first reads
\* or from an except clause.
DatabaseError(s) ==
  /\ \/ slot[s].pc \in {"leasing", "checking"} /\ Raise(s, "failing", "error")
     \/ slot[s].pc \in {"retrying", "failing"} /\ Go(s, "finally")
     \/ slot[s].pc = "received" /\ Leave(s)
  /\ Fault
  /\ UNCHANGED <<database, publisher, streams, leases, misread>>

\* The finally clause.
Finally(s) ==
  /\ slot[s].pc = "finally"
  /\ leases' = Released(s)
  /\ Leave(s)
  /\ UNCHANGED <<database, publisher, streams, history>>

\* The release in the finally clause raises and the row stays: until it
\* expires, or for ever if a callback was under way that keeps renewing it
\* (see TaskLease).
FinallyRaises(s) ==
  /\ slot[s].pc = "finally"
  /\ \E h \in {"dead", "renewed"} :
       leases' = {IF l.holder = s THEN [l EXCEPT !.holder = h] ELSE l : l \in leases}
  /\ Leave(s)
  /\ Fault
  /\ UNCHANGED <<database, publisher, streams, misread>>

------------------------------------------------------------------------------
\* The process dies.  Its lease stays until it expires; the delivery stays
\* pending; an open transaction is gone.
Crash(s) ==
  /\ slot[s].pc # "idle"
  /\ leases' = {IF l.holder = s THEN [l EXCEPT !.holder = "dead"] ELSE l :
                  l \in leases}
  /\ Leave(s)
  /\ Fault
  /\ UNCHANGED <<database, publisher, streams, misread>>

\* Nobody renews a dead process's lease.
ExpireDeadLease ==
  /\ \E l \in leases : l.holder = "dead" /\ leases' = leases \ {l}
  /\ UNCHANGED <<database, publisher, streams, slot, history>>

\* The renewal of a lease fails (see TaskLease).
LoseLease ==
  /\ \E l \in leases : l.holder # "dead" /\ leases' = leases \ {l}
  /\ Fault
  /\ UNCHANGED <<database, publisher, streams, slot, misread>>

\* apply_approval_action in one transaction.
Approval(action) ==
  LET d == LookupApproval(action)
      new == Dispatched({d}, active)
  IN /\ row.state = "AWAITING_HUMAN_APPROVAL"
     /\ action = "REQUEST_REGENERATION" => active < MaxScenarios
     /\ row' = [row EXCEPT !.state = d.to]
     /\ tasks' = AddTasks(tasks, new)
     /\ outbox' = outbox \cup {j \in {Len(tasks) + 1} : new # {}}
     /\ UNCHANGED <<publisher, done, artifacts, active, streams, leases,
                    slot, history>>

Process(s) ==
  \/ SkipDelivery(s) \/ ProceedDelivery(s) \/ AcquireLease(s) \/ CheckBeforeExecution(s)
  \/ \E signal \in (IF slot[s].pc = "handling"
                     THEN HandlerSignals(tasks[Mine(s)].type) ELSE {}) :
       CommitStage(s, signal)
  \/ HandlerTransient(s) \/ HandlerPermanent(s)
  \/ RetryLater(s) \/ FailWorkflow(s)
  \/ ReleaseLease(s) \/ Ack(s) \/ Finally(s)

Next ==
  \/ Enqueue \/ MarkPublished \/ PublisherFails
  \/ PublisherDies \/ PublisherRestarts
  \/ \E s \in Slot :
       \/ \E type \in TaskType : Dequeue(s, type)
       \/ Process(s)
       \/ DeferDelivery(s)
       \/ AckUnavailable(s)
       \/ DatabaseError(s) \/ PayloadUnreadable(s)
       \/ FinallyRaises(s) \/ Crash(s)
  \/ ExpireDeadLease \/ LoseLease
  \/ \E action \in ApprovalAction : Approval(action)

Spec == Init /\ [][Next]_vars

\* A publisher that is alive runs; some idle thread dequeues while there is a delivery to
\* dequeue; a started thread goes on; leases expire and delays end because
\* time passes (a delivery that comes again and again is not deferred for
\* ever).  A handler is only assumed to return or to raise, not to succeed.
Fairness ==
  /\ WF_vars(Enqueue \/ MarkPublished)
  /\ WF_vars(\E s \in Slot, type \in TaskType : Dequeue(s, type))
  /\ \A s \in Slot : WF_vars(Process(s))
  /\ SF_vars(\E s \in Slot : ProceedDelivery(s))
  /\ WF_vars(ExpireDeadLease)

FairSpec == Spec /\ Fairness

------------------------------------------------------------------------------
Attempt == UNION {1..MaxAttempts[t] : t \in TaskType}

TypeOK ==
  /\ row \in [state : WorkflowState, revision : 0..MaxRevisions]
  /\ tasks \in Seq([type : TaskType, ver : Nat, attempt : Attempt,
                    status : {"PENDING", "DISPATCHED", "COMPLETED", "FAILED",
                              "DEAD_LETTER"}])
  /\ outbox \subseteq DOMAIN tasks
  /\ pub \in DOMAIN tasks \cup {0} /\ alive \in BOOLEAN
  /\ entries \in Seq([task : DOMAIN tasks, attempt : Attempt])
  /\ pending \subseteq DOMAIN entries /\ acked \subseteq DOMAIN entries
  /\ pending \cap acked = {}
  /\ leases \subseteq [task : DOMAIN tasks, holder : Slot \cup {"dead", "renewed"}]
  /\ done \subseteq TaskType \X Nat
  /\ artifacts \subseteq {"COLLECTED_STORIES", "TOPIC_SELECTION", "SCENARIO",
                          "CRITIC_REVIEW"} \X Nat
  /\ active \in Nat
  /\ slot \in [Slot -> [pc : PC, d : DOMAIN entries \cup {0},
                        att : Attempt \cup {0}, ver : Nat, err : Err]]
  /\ faults \in 0..MaxFaults /\ misread \subseteq DOMAIN tasks

\* At-least-once: a workflow in a working state has a task for that state
\* that is not completed and that is still to be published or delivered, or
\* that a slot took for a completed one because it could not read its payload.
WorkNotLost ==
  row.state \in {ExpectedStateForTask(type) : type \in TaskType} =>
    \E i \in DOMAIN tasks :
      /\ row.state = ExpectedStateForTask(tasks[i].type)
      /\ Key(i) \notin done
      /\ \/ i \in outbox
         \/ \E d \in DOMAIN entries \ acked : TaskOf(d) = i
         \/ i \in misread

\* A delivery is acknowledged only when its task took effect, the workflow is
\* over, or its payload could not be read at the check: the stale guard never
\* throws work away.
AckedIsSettled ==
  \A d \in acked :
    \/ Key(TaskOf(d)) \in done
    \/ row.state \in TERMINAL_STATES
    \/ TaskOf(d) \in misread

\* A handler finds the artifact of the stage before it.
PrerequisitesThere ==
  \A s \in Slot : slot[s].pc = "handling" => Prerequisite(tasks[Mine(s)].type)

\* _scenario_c_loser_path: the artifact is new but the slot's key is taken.
LosesClaim(s) ==
  /\ ArtifactOf(Mine(s)) \notin artifacts
  /\ <<tasks[Mine(s)].type, slot[s].ver>> \in done

\* The loser path cannot be reached: the unique artifact version refuses the
\* second executor of a task before the idempotency key can.
NoLoserPath ==
  \A s \in Slot : slot[s].pc = "handling" => ~ LosesClaim(s)

\* Exactly-once effects over at-least-once delivery.
Stages ==
  INSTANCE StageLifecycle WITH
    state <- row.state, revision <- row.revision, round <- active,
    dispatched <- {Key(i) : i \in DOMAIN tasks}, completed <- done
ImplementsStages == Stages!Spec

\* A workflow that nothing can move any more: its publisher is dead, a leaked
\* lease is renewed for ever, or a task was acknowledged unexecuted.
Stuck ==
  \/ ~ alive
  \/ \E l \in leases : l.holder = "renewed"
  \/ \E i \in misread : Key(i) \notin done

\* Whatever fails, a workflow does not stay in a working state unless one of
\* these three has happened.
Progress ==
  row.state \in TRANSIENT_STATES ~>
    row.state \in PAUSE_STATES \cup TERMINAL_STATES \/ Stuck

\* "Completed keys let duplicate workers ACK safely": a thread whose task is
\* completed does not change the workflow any more.
DuplicatesAckSafely ==
  [][\A s \in Slot :
       slot[s].d # 0 /\ Key(Mine(s)) \in done /\ slot'[s] # slot[s] =>
         UNCHANGED row]_vars

\* The artifact table refuses a stage's output as a duplicate only when the
\* stage's task has been completed before.
DuplicateMeansDone ==
  \A s \in Slot : slot[s].err = "duplicate" => Key(Mine(s)) \in done

\* A verdict below the cap is never answered by an error.
ReviseIsAccepted == \A s \in Slot : slot[s].err # "keyword"
==============================================================================
