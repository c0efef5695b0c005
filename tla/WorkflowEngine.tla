--------------------------- MODULE WorkflowEngine ----------------------------
(***************************************************************************)
(* DefaultWorkflowEngine and TransitionExecutor over the Postgres          *)
(* repositories, for one workflow and any number of concurrent callers     *)
(* (API requests, worker threads, the reconciliation thread).              *)
(*                                                                         *)
(* A call runs in one READ COMMITTED transaction.  It reads the workflow   *)
(* row, takes its decision from that row, reads the active scenario to     *)
(* number the task it dispatches, and then writes: the UPDATE of the row   *)
(* is conditional on the state_version it read and holds the row's lock    *)
(* until the commit, so the writes and the commit are one step here while  *)
(* the reads before them are steps of their own that other callers' writes *)
(* may separate.                                                           *)
(***************************************************************************)
EXTENDS WorkflowTable, Sequences, FiniteSets

CONSTANTS
  Caller,                \* concurrent transactions
  MaxRevisions,          \* workflow.max_scenario_revisions
  MaxScenarios,          \* bound: rounds of generation a human may ask for
  RepoTakesRevision      \* update_workflow_state accepts revision_count: the
                         \* in-memory repository does, the Postgres one not

ASSUME EngineAssumption ==
  /\ MaxRevisions \in Nat
  /\ MaxScenarios \in Nat
  /\ RepoTakesRevision \in BOOLEAN

VARIABLES
  row,        \* the workflows row
  history,    \* workflow_transitions, in commit order
  outbox,     \* task + outbox rows, in commit order
  scenarios,  \* versions of the stored SCENARIO artifacts
  active,     \* version of the active one, 0 when there is none
  call        \* what each caller's open transaction has read

vars == <<row, history, outbox, scenarios, active, call>>

Absent == [state |-> "ABSENT", version |-> 0, revision |-> 0]

NoDecision == Move("CREATED", "CREATED")

\* pc: "idle", "initiating" (no such id found), "decided" (row read and
\* decision taken), "built" (task numbered).  wrote is the version of the
\* scenario the same transaction has inserted before it called the engine.
Idle == [pc |-> "idle", version |-> 0, revision |-> 0, dec |-> NoDecision,
         ver |-> 0, wrote |-> 0]

Init ==
  /\ row = Absent
  /\ history = <<>>
  /\ outbox = <<>>
  /\ scenarios = {}
  /\ active = 0
  /\ call = [c \in Caller |-> Idle]

tables == <<row, history, outbox, scenarios, active>>

------------------------------------------------------------------------------
\* initiate_workflow: validate_no_duplicate reads before create_workflow
\* inserts, so two requests with one id may both pass the check.
InitiateRead(c) ==
  /\ call[c].pc = "idle"
  /\ row = Absent
  /\ call' = [call EXCEPT ![c] = [Idle EXCEPT !.pc = "initiating"]]
  /\ UNCHANGED tables

\* create_workflow inserts version 1 in CREATED, execute_initiate updates it
\* to COLLECTING, records the transition and dispatches COLLECT.  The
\* primary key refuses the second of two racing inserts.
InitiateCommit(c) ==
  /\ call[c].pc = "initiating"
  /\ row = Absent
  /\ row' = [state |-> "COLLECTING", version |-> 2, revision |-> 0]
  /\ history' = Append(history, [from |-> "CREATED", to |-> "COLLECTING"])
  /\ outbox' = Append(outbox, [task |-> "COLLECT", ver |-> 1])
  /\ call' = [call EXCEPT ![c] = Idle]
  /\ UNCHANGED <<scenarios, active>>

------------------------------------------------------------------------------
Decided(d, wrote) ==
  [pc |-> "decided", version |-> row.version, revision |-> row.revision,
   dec |-> d, ver |-> 0, wrote |-> wrote]

\* The logical versions GENERATE_SCENARIO was dispatched with.
GenerateVersions ==
  {outbox[i].ver : i \in {j \in DOMAIN outbox :
                            outbox[j].task = "GENERATE_SCENARIO"}}

\* The scenario the caller has inserted: the worker that ends a generation
\* stores the version its task was dispatched with, unless that version is
\* there already (unique on workflow, type and version).
ScenarioWrites(d) ==
  IF d.to = "SCENARIO_GENERATED" THEN GenerateVersions \ scenarios ELSE {0}

\* apply_transition: the row is read and must be in the expected state; a
\* signal without a decision raises InvalidTransitionError.
ApplyTransition(c, expected, signal) ==
  /\ call[c].pc = "idle"
  /\ row.state = expected
  /\ \E d \in Lookup(expected, signal, row.revision, MaxRevisions) :
       \E wrote \in ScenarioWrites(d) :
         call' = [call EXCEPT ![c] = Decided(d, wrote)]
  /\ UNCHANGED tables

\* apply_approval_action: any other state raises WorkflowTerminalError or
\* InvalidApprovalActionError.  The idempotency key is not looked at.
ApplyApprovalAction(c, action) ==
  /\ call[c].pc = "idle"
  /\ row.state = "AWAITING_HUMAN_APPROVAL"
  /\ action = "REQUEST_REGENERATION" => active < MaxScenarios
  /\ call' = [call EXCEPT ![c] = Decided(LookupApproval(action), 0)]
  /\ UNCHANGED tables

\* Mutant: the task is numbered from the active scenario that was there
\* before the transaction's own insert.
BuildIgnoringOwnInsert(c) ==
  LET k == call[c]
  IN /\ k.pc = "decided"
     /\ call' = [call EXCEPT
          ![c].pc = "built",
          ![c].ver = IF k.dec.task = NoTask THEN 0
                     ELSE ResolveForTask(k.dec.task, active, k.dec.incVer)]
     /\ UNCHANGED tables

\* build_for_decision: a second read, of the active scenario.  The
\* transaction sees its own insert.
BuildForDecision(c) ==
  LET k == call[c]
      seen == IF k.wrote = 0 THEN active ELSE k.wrote
  IN /\ k.pc = "decided"
     /\ call' = [call EXCEPT
          ![c].pc = "built",
          ![c].ver = IF k.dec.task = NoTask THEN 0
                     ELSE ResolveForTask(k.dec.task, seen, k.dec.incVer)]
     /\ UNCHANGED tables

\* Mutant: the UPDATE without "AND state_version = %s".
UpdatableAnyVersion(k) == k.dec.incRev => RepoTakesRevision

\* update_workflow_state would succeed: the version is the one read, and the
\* repository accepts the arguments (executor.py passes revision_count).
Updatable(k) ==
  /\ row.version = k.version
  /\ k.dec.incRev => RepoTakesRevision

\* execute_transition / execute_approval and the commit.
ExecuteTransition(c) ==
  LET k == call[c]
  IN /\ k.pc = "built"
     /\ Updatable(k)
     /\ k.wrote \notin scenarios
     /\ row' = [state |-> k.dec.to, version |-> row.version + 1,
                revision |-> IF k.dec.incRev THEN k.revision + 1
                             ELSE row.revision]
     /\ history' = Append(history, [from |-> k.dec.from, to |-> k.dec.to])
     /\ outbox' = IF k.dec.task = NoTask THEN outbox
                  ELSE Append(outbox, [task |-> k.dec.task, ver |-> k.ver])
     /\ scenarios' = IF k.wrote = 0 THEN scenarios
                     ELSE scenarios \cup {k.wrote}
     /\ active' = IF k.wrote = 0 THEN active ELSE k.wrote
     /\ call' = [call EXCEPT ![c] = Idle]

\* The call raises (WorkflowConflictError, a duplicate scenario version, an
\* unexpected keyword) or its process dies: the transaction is rolled back.
Rollback(c) ==
  /\ call[c].pc # "idle"
  /\ call' = [call EXCEPT ![c] = Idle]
  /\ UNCHANGED tables

Next ==
  \E c \in Caller :
    \/ InitiateRead(c)
    \/ InitiateCommit(c)
    \/ \E expected \in WorkflowState, signal \in TransitionSignal :
         ApplyTransition(c, expected, signal)
    \/ \E action \in ApprovalAction : ApplyApprovalAction(c, action)
    \/ BuildForDecision(c)
    \/ ExecuteTransition(c)
    \/ Rollback(c)

Spec == Init /\ [][Next]_vars

------------------------------------------------------------------------------
Call ==
  [pc : {"idle", "initiating", "decided", "built"}, version : Nat,
   revision : Nat, dec : TransitionDecision, ver : Nat, wrote : Nat]

TypeOK ==
  /\ row \in [state : WorkflowState \cup {"ABSENT"}, version : Nat,
              revision : Nat]
  /\ history \in Seq([from : WorkflowState, to : WorkflowState])
  /\ outbox \in Seq([task : TaskType, ver : Nat])
  /\ scenarios \in SUBSET Nat
  /\ active \in Nat
  /\ call \in [Caller -> Call]

\* The audit trail is one unbroken path from CREATED to the state in the
\* row, and the row's version counts it: no transition of two racing callers
\* is lost, doubled or recorded out of order.
HistoryIsPath ==
  /\ row = Absent <=> history = <<>>
  /\ row # Absent =>
       /\ row.version = Len(history) + 1
       /\ history[1].from = "CREATED"
       /\ history[Len(history)].to = row.state
  /\ \A i \in 1..(Len(history) - 1) : history[i].to = history[i + 1].from

\* The critic's revisions stay within the configured cap, even when two
\* verdicts race.
RevisionsWithinCap == row.revision <= MaxRevisions

\* The counter in the row is the number of times REVISION_REQUIRED was
\* entered: the cap is computed from what really happened.
RevisionsCounted ==
  row.revision = Cardinality({i \in DOMAIN history : history[i].to = "REVISION_REQUIRED"})

\* No two tasks of a workflow carry the same idempotency key (type and
\* logical version): two tasks with one key would make the second look
\* completed before it ran.
TaskKeysUnique ==
  \A i, j \in DOMAIN outbox : outbox[i] = outbox[j] => i = j

\* The scenario versions stored are 1..active without a gap, generation is
\* asked for at most one version ahead, and the critic is only sent
\* versions that are stored.
ScenariosInStep ==
  /\ scenarios = 1..active
  /\ \A i \in DOMAIN outbox :
       /\ outbox[i].task = "GENERATE_SCENARIO" => outbox[i].ver <= active + 1
       /\ outbox[i].task = "REVIEW_SCENARIO" => outbox[i].ver \in scenarios

\* While a scenario is under review, the review dispatched last is about the
\* active scenario, not about an earlier round's.
ReviewsActiveScenario ==
  row.state \in {"SCENARIO_GENERATED", "REVIEWING"} =>
    outbox[Len(outbox)] = [task |-> "REVIEW_SCENARIO", ver |-> active]

\* Nothing moves a workflow out of a terminal state or dispatches work for
\* it, whatever calls were under way when it got there.
TerminalIsFinal ==
  [][row.state \in TERMINAL_STATES => UNCHANGED tables]_vars

\* The inductive strengthening, part 1: what each stage of the pipeline says
\* about the scenarios and the tasks dispatched so far.
BeforeScenarios ==
  {"ABSENT", "COLLECTING", "COLLECTED", "SELECTING_TOPIC", "TOPIC_SELECTED"}
AfterScenarios ==
  {"SCENARIO_GENERATED", "REVIEWING", "REVISION_REQUIRED", "REVIEW_PASSED",
   "AWAITING_HUMAN_APPROVAL"}

StageInv ==
  /\ row.state # "CREATED"
  /\ row.state = "ABSENT" => row = Absent /\ outbox = <<>>
  /\ row.state \in BeforeScenarios => active = 0
  /\ row.state \in AfterScenarios => active >= 1
  /\ row.state = "REVISION_REQUIRED" => row.revision >= 1
  /\ \A i \in DOMAIN outbox :
       /\ outbox[i].ver >= 1
       /\ row.state = "COLLECTING" => outbox[i].task = "COLLECT"
       /\ outbox[i].task = "GENERATE_SCENARIO" /\ outbox[i].ver = active + 1
            => row.state \notin AfterScenarios \cup {"COLLECTED",
                                                     "SELECTING_TOPIC"}

\* Part 2: a call whose version is still current holds a decision that is
\* still right; a call whose version is old can no longer write.
CurrentCall(k) ==
  /\ k.revision = row.revision
  /\ k.dec.from = row.state
  /\ \/ \E signal \in TransitionSignal :
          k.dec \in Lookup(row.state, signal, row.revision, MaxRevisions)
     \/ /\ row.state = "AWAITING_HUMAN_APPROVAL"
        /\ \E action \in ApprovalAction : k.dec = LookupApproval(action)
  /\ k.wrote \in ScenarioWrites(k.dec)
  /\ k.pc = "built" /\ k.dec.task # NoTask =>
       k.ver = ResolveForTask(k.dec.task,
                              IF k.wrote = 0 THEN active ELSE k.wrote,
                              k.dec.incVer)

CallInv ==
  \A c \in Caller :
    call[c].pc \in {"decided", "built"} =>
      /\ row # Absent
      /\ call[c].version <= row.version
      /\ call[c].version = row.version => CurrentCall(call[c])

\* A decision taken from a row that is still the committed one is still the
\* decision the matrix gives; every safety property rests on this.
IInv ==
  /\ TypeOK
  /\ HistoryIsPath
  /\ RevisionsWithinCap
  /\ TaskKeysUnique
  /\ ScenariosInStep
  /\ ReviewsActiveScenario
  /\ StageInv
  /\ CallInv

\* Racing callers leave no more trace in the database than one caller that
\* takes one decision of the matrix at a time.
Lifecycle ==
  INSTANCE WorkflowLifecycle WITH
    state <- row.state, revision <- row.revision,
    dispatched <- {<<outbox[i].task, outbox[i].ver>> : i \in DOMAIN outbox}
ImplementsLifecycle == Lifecycle!Spec
==============================================================================
