---------------------------- MODULE WorkflowTable ----------------------------
(***************************************************************************)
(* The pure part of the workflow package: the states, the signals and the  *)
(* transition matrix (src/workflow/{types,constants,transition_table}.py)  *)
(* and the worker's view of them (src/worker/state_mapping.py).  There is  *)
(* no state here; every other module of the workflow and of the worker     *)
(* extends this one.                                                       *)
(*                                                                         *)
(* A lookup is a SET of decisions: empty where the code raises             *)
(* InvalidTransitionError, a singleton where it returns a decision.        *)
(***************************************************************************)
EXTENDS Naturals

\* Mutant: a state is forgotten.
TerminalWithoutNoTopic ==
  {"APPROVED", "REJECTED", "REVIEW_FAILED", "FAILED", "FAILED_PERMANENTLY"}

TERMINAL_STATES ==
  {"NO_SUITABLE_TOPIC", "APPROVED", "REJECTED", "REVIEW_FAILED", "FAILED",
   "FAILED_PERMANENTLY"}

PAUSE_STATES == {"AWAITING_HUMAN_APPROVAL"}

\* Every state that is neither terminal nor the human pause.
TRANSIENT_STATES ==
  {"CREATED", "COLLECTING", "COLLECTED", "SELECTING_TOPIC", "TOPIC_SELECTED",
   "GENERATING_SCENARIO", "SCENARIO_GENERATED", "REVIEWING",
   "REVISION_REQUIRED", "REVIEW_PASSED"}

WorkflowState == TERMINAL_STATES \cup PAUSE_STATES \cup TRANSIENT_STATES

TransitionSignal ==
  {"STAGE_COMPLETED", "NO_SUITABLE_TOPIC", "CRITIC_REVISE", "CRITIC_PASS",
   "UNRECOVERABLE_ERROR", "RETRIES_EXHAUSTED", "RECONCILIATION_REPAIR"}

ApprovalAction == {"APPROVE", "REJECT", "REQUEST_REGENERATION"}

TaskType == {"COLLECT", "SELECT_TOPIC", "GENERATE_SCENARIO", "REVIEW_SCENARIO"}

\* outbox_task_type = None
NoTask == "None"

(***************************************************************************)
(* Decisions.  incRev is increment_revision_count, incVer is               *)
(* increment_logical_version.  The failure reason is wording and left out. *)
(***************************************************************************)
TransitionDecision ==
  [from : WorkflowState, to : WorkflowState, task : TaskType \cup {NoTask},
   incRev : BOOLEAN, incVer : BOOLEAN]

Decide(from, to, task, incRev, incVer) ==
  [from |-> from, to |-> to, task |-> task, incRev |-> incRev,
   incVer |-> incVer]

\* A row without side effects, and one that dispatches a task.
Move(from, to) == Decide(from, to, NoTask, FALSE, FALSE)
MoveAndDispatch(from, to, task) == Decide(from, to, task, FALSE, FALSE)

\* The rows of _PRIMARY_MATRIX for the signal.
PRIMARY_MATRIX(signal) ==
  CASE signal = "STAGE_COMPLETED" ->
         {MoveAndDispatch("COLLECTING", "COLLECTED", "SELECT_TOPIC"),
          Move("COLLECTED", "SELECTING_TOPIC"),
          MoveAndDispatch("SELECTING_TOPIC", "TOPIC_SELECTED",
                          "GENERATE_SCENARIO"),
          Move("TOPIC_SELECTED", "GENERATING_SCENARIO"),
          MoveAndDispatch("GENERATING_SCENARIO", "SCENARIO_GENERATED",
                          "REVIEW_SCENARIO"),
          Move("SCENARIO_GENERATED", "REVIEWING"),
          Decide("REVISION_REQUIRED", "GENERATING_SCENARIO",
                 "GENERATE_SCENARIO", FALSE, TRUE),
          Move("REVIEW_PASSED", "AWAITING_HUMAN_APPROVAL")}
    [] signal = "NO_SUITABLE_TOPIC" ->
         {Move("SELECTING_TOPIC", "NO_SUITABLE_TOPIC")}
    [] signal = "CRITIC_PASS" -> {Move("REVIEWING", "REVIEW_PASSED")}
    [] OTHER -> {}

\* The error signals lead from every transient state to a failure state.
FailureState(signal) ==
  CASE signal = "UNRECOVERABLE_ERROR"   -> {"FAILED"}
    [] signal = "RETRIES_EXHAUSTED"     -> {"FAILED_PERMANENTLY"}
    [] signal = "RECONCILIATION_REPAIR" -> {"FAILED"}
    [] OTHER -> {}

\* Mutants: one revision too many; a revision that is not counted.
ReviseBeyondCap(revision, maxRevisions) ==
  IF revision > maxRevisions
  THEN Move("REVIEWING", "REVIEW_FAILED")
  ELSE Decide("REVIEWING", "REVISION_REQUIRED", NoTask, TRUE, FALSE)
ReviseUncounted(revision, maxRevisions) ==
  IF revision >= maxRevisions
  THEN Move("REVIEWING", "REVIEW_FAILED")
  ELSE Move("REVIEWING", "REVISION_REQUIRED")

\* CRITIC_REVISE in REVIEWING: the revision cap decides.
ReviseDecision(revision, maxRevisions) ==
  IF revision >= maxRevisions
  THEN Move("REVIEWING", "REVIEW_FAILED")
  ELSE Decide("REVIEWING", "REVISION_REQUIRED", NoTask, TRUE, FALSE)

\* Mutant: the error signals are looked up before the state is.
LookupFromAnywhere(state, signal, revision, maxRevisions) ==
  IF state = "REVIEWING" /\ signal = "CRITIC_REVISE"
  THEN {ReviseDecision(revision, maxRevisions)}
  ELSE {row \in PRIMARY_MATRIX(signal) : row.from = state}
       \cup {Move(state, f) : f \in FailureState(signal)}

\* TransitionTable.lookup.  No signal has both a matrix row and a failure
\* state, so the order of the code's last tests does not show.
Lookup(state, signal, revision, maxRevisions) ==
  IF state \notin TRANSIENT_STATES
  THEN {}
  ELSE IF state = "REVIEWING" /\ signal = "CRITIC_REVISE"
       THEN {ReviseDecision(revision, maxRevisions)}
       ELSE {row \in PRIMARY_MATRIX(signal) : row.from = state}
            \cup {Move(state, f) : f \in FailureState(signal)}

\* Mutant: a human's regeneration asks for the version that is there.
RegenerateSameVersion(action) ==
  CASE action = "APPROVE" -> Move("AWAITING_HUMAN_APPROVAL", "APPROVED")
    [] action = "REJECT"  -> Move("AWAITING_HUMAN_APPROVAL", "REJECTED")
    [] action = "REQUEST_REGENERATION" ->
         MoveAndDispatch("AWAITING_HUMAN_APPROVAL", "GENERATING_SCENARIO",
                         "GENERATE_SCENARIO")

\* TransitionTable.lookup_approval
LookupApproval(action) ==
  CASE action = "APPROVE" -> Move("AWAITING_HUMAN_APPROVAL", "APPROVED")
    [] action = "REJECT"  -> Move("AWAITING_HUMAN_APPROVAL", "REJECTED")
    [] action = "REQUEST_REGENERATION" ->
         Decide("AWAITING_HUMAN_APPROVAL", "GENERATING_SCENARIO",
                "GENERATE_SCENARIO", FALSE, TRUE)

\* _EXPECTED_OUTBOX_BY_STATE with its default None
ExpectedOutboxTask(state) ==
  CASE state = "COLLECTING"         -> "COLLECT"
    [] state = "COLLECTED"          -> "SELECT_TOPIC"
    [] state = "TOPIC_SELECTED"     -> "GENERATE_SCENARIO"
    [] state = "SCENARIO_GENERATED" -> "REVIEW_SCENARIO"
    [] OTHER                        -> NoTask

(***************************************************************************)
(* Logical versions.  active is the logical version of the active scenario *)
(* artifact, 0 when there is none.                                         *)
(***************************************************************************)
\* Mutants: every scenario task asks for the next version; the stages with a
\* fixed version are numbered from zero.
ResolveAlwaysNext(task, active, increment) ==
  IF task \in {"COLLECT", "SELECT_TOPIC"}
  THEN 1
  ELSE (IF active = 0 THEN 1 ELSE active) + 1
ResolveFixedFromZero(task, active, increment) ==
  IF task \in {"COLLECT", "SELECT_TOPIC"}
  THEN 0
  ELSE (IF active = 0 THEN 1 ELSE active) + (IF increment THEN 1 ELSE 0)

\* LogicalVersionTracker.resolve_for_task
ResolveForTask(task, active, increment) ==
  IF task \in {"COLLECT", "SELECT_TOPIC"}
  THEN 1
  ELSE (IF active = 0 THEN 1 ELSE active) + (IF increment THEN 1 ELSE 0)

\* The state in which a task of the type is executed.
ExpectedStateForTask(task) ==
  CASE task = "COLLECT"           -> "COLLECTING"
    [] task = "SELECT_TOPIC"      -> "SELECTING_TOPIC"
    [] task = "GENERATE_SCENARIO" -> "GENERATING_SCENARIO"
    [] task = "REVIEW_SCENARIO"   -> "REVIEWING"

\* classify_stale: skipping a delivery acknowledges it without executing.
SkipStale(state, task) == state # ExpectedStateForTask(task)
==============================================================================
