------------------------------ MODULE Reconciler -----------------------------
(***************************************************************************)
(* The reconciliation scanner (src/workflow/reconcile.py) beside the       *)
(* publisher and the workers of WorkerPipeline, over repositories that     *)
(* have the listing methods (the in-memory ones; without them a scan lists *)
(* nothing and repairs nothing).                                           *)
(*                                                                         *)
(* A scan lists workflows, looks at their tasks and outbox rows, reads the *)
(* workflow again and repairs it: four moments between which workers and   *)
(* publisher go on.  RP-002 and RP-004 only report and are left out.       *)
(***************************************************************************)
EXTENDS WorkerPipeline

CONSTANT MaxTasks    \* bound: no new scan once there are this many tasks

ASSUME ReconcilerAssumption == MaxTasks \in Nat

VARIABLES
  version,   \* the workflow's state_version
  old,       \* its updated_at is past the threshold of its state
  scan       \* the scanner

reconcilerVars == <<vars, version, old, scan>>

(***************************************************************************)
(* pc of a scan: stuck and expected follow the two listings, second is     *)
(* between them, found holds a candidate, repair has passed the version    *)
(* check, dead is a thread that an exception has ended.  state and ver are *)
(* what the listing returned, task is expected_task_type.                  *)
(***************************************************************************)
Resting ==
  [pc |-> "idle", state |-> "CREATED", ver |-> 0, pattern |-> "none",
   task |-> NoTask, attempt |-> 0]

IN_FLIGHT == {"PENDING", "DISPATCHED", "IN_PROGRESS"}

ReconcileInit == Init /\ version = 1 /\ old = FALSE /\ scan = Resting

\* A step of the pipeline; one that writes the workflow row counts its
\* version and renews updated_at.
PipelineStep ==
  /\ Next
  /\ version' = IF row' = row THEN version ELSE version + 1
  /\ old' = (old /\ row' = row)
  /\ UNCHANGED scan

\* Time passes.
Age ==
  /\ ~ old /\ row.state \in TRANSIENT_STATES
  /\ old' = TRUE
  /\ UNCHANGED <<vars, version, scan>>

------------------------------------------------------------------------------
\* _latest_task_of_type, as the set of at most one task
LatestOfType(type) ==
  LET matching == {i \in DOMAIN tasks : tasks[i].type = type}
  IN {i \in matching : \A j \in matching : j <= i}

LatestAttempt(type) ==
  IF LatestOfType(type) = {} THEN 0
  ELSE tasks[CHOOSE i \in LatestOfType(type) : TRUE].attempt

LatestInFlight(type) == \E i \in LatestOfType(type) : tasks[i].status \in IN_FLIGHT

\* _rp001_expected_task
Rp001ExpectedTask(state) ==
  IF state # "GENERATING_SCENARIO" THEN ExpectedOutboxTask(state)
  ELSE IF \/ LatestOfType("GENERATE_SCENARIO") = {}
          \/ LatestInFlight("GENERATE_SCENARIO")
          \/ \E i \in outbox : tasks[i].type = "GENERATE_SCENARIO"
       THEN NoTask
       ELSE "GENERATE_SCENARIO"

Listed(pc) ==
  scan' = [Resting EXCEPT !.pc = pc, !.state = row.state, !.ver = version]

\* collect_candidates, first part: workflows that have not moved for long.
ListStuck ==
  /\ scan.pc = "idle" /\ Len(tasks) < MaxTasks
  /\ old /\ row.state \in TRANSIENT_STATES
  /\ Listed("stuck")
  /\ UNCHANGED <<vars, version, old>>

\* _evaluate_rp003: without an expected task there is none to be in flight.
JudgeStuck ==
  LET expected == Rp001ExpectedTask(scan.state)
  IN /\ scan.pc = "stuck"
     /\ scan' = IF LatestInFlight(expected) THEN [Resting EXCEPT !.pc = "second"]
                ELSE [scan EXCEPT !.pc = "found", !.pattern = "RP-003",
                                  !.task = expected]
     /\ UNCHANGED <<vars, version, old>>

\* Second part: workflows of any age whose task may be missing.
ListExpected ==
  /\ \/ scan.pc = "idle" /\ ~ old /\ Len(tasks) < MaxTasks
     \/ scan.pc = "second"
  /\ IF row.state \in {"COLLECTING", "COLLECTED", "TOPIC_SELECTED",
                       "SCENARIO_GENERATED", "GENERATING_SCENARIO"}
     THEN Listed("expected")
     ELSE scan' = Resting
  /\ UNCHANGED <<vars, version, old>>

JudgeExpected ==
  LET expected == Rp001ExpectedTask(scan.state)
  IN /\ scan.pc = "expected"
     /\ scan' = IF outbox # {} \/ expected = NoTask THEN Resting
                ELSE [scan EXCEPT !.pc = "found", !.pattern = "RP-001",
                                  !.task = expected]
     /\ UNCHANGED <<vars, version, old>>

\* Mutant: the candidate is not compared with the workflow any more.
RefreshUnchecked ==
  /\ scan.pc = "found"
  /\ scan' = [scan EXCEPT !.pc = "repair", !.state = row.state, !.attempt = 1]
  /\ UNCHANGED <<vars, version, old>>

\* scan_and_repair reads the workflow again, drops a candidate whose version
\* has changed, and for RP-003 evaluates its tasks again.
Refresh ==
  /\ scan.pc = "found"
  /\ scan' = IF \/ version # scan.ver
                \/ scan.pattern = "RP-003" /\ LatestInFlight(scan.task)
             THEN Resting
             ELSE [scan EXCEPT !.pc = "repair",
                     !.attempt = IF scan.pattern = "RP-001" THEN 1
                                 ELSE LatestAttempt(scan.task) + 1]
  /\ UNCHANGED <<vars, version, old>>

\* recreate_expected_outbox: a task and its outbox row; the workflow row is
\* neither read nor written.
Recreate(type, attempt) ==
  LET ver == ResolveForTask(type, active, type = "GENERATE_SCENARIO")
  IN /\ tasks' = Append(tasks, [NewTask(type, ver) EXCEPT !.attempt = attempt])
     /\ outbox' = outbox \cup {Len(tasks) + 1}
     /\ UNCHANGED <<row, done, artifacts, active, version, old>>

\* RP-001, and RP-003 while attempts are left
RepairTask ==
  /\ scan.pc = "repair"
  /\ scan.task # NoTask
  /\ scan.attempt <= MaxAttempts[scan.task]
  /\ Recreate(scan.task, scan.attempt)
  /\ scan' = Resting
  /\ UNCHANGED <<publisher, streams, leases, slot, history>>

\* RP-003 otherwise: apply_transition with the state that was read.  A
\* conflict is raised through the scan and ends the scheduler's thread.
RepairFailed ==
  /\ scan.pc = "repair"
  /\ IF scan.task = NoTask THEN TRUE ELSE scan.attempt > MaxAttempts[scan.task]
  /\ IF row.state = scan.state
     THEN /\ \E d \in Lookup(row.state, "RECONCILIATION_REPAIR", row.revision,
                             MaxRevisions) : row' = [row EXCEPT !.state = d.to]
          /\ version' = version + 1 /\ old' = FALSE
          /\ scan' = Resting
     ELSE /\ scan' = [Resting EXCEPT !.pc = "dead"]
          /\ UNCHANGED <<row, version, old>>
  /\ UNCHANGED <<tasks, outbox, done, artifacts, active, publisher, streams, leases,
                 slot, history>>

\* A database error ends the thread in the same way.
ScanError ==
  /\ scan.pc # "dead"
  /\ scan' = [Resting EXCEPT !.pc = "dead"]
  /\ UNCHANGED <<vars, version, old>>

ReconcileNext ==
  \/ PipelineStep \/ Age
  \/ ListStuck \/ JudgeStuck \/ ListExpected \/ JudgeExpected
  \/ Refresh \/ RepairTask \/ RepairFailed \/ ScanError

ReconcileSpec == ReconcileInit /\ [][ReconcileNext]_reconcilerVars

------------------------------------------------------------------------------
ReconcilerTypeOK ==
  /\ TypeOK
  /\ version \in Nat \ {0}
  /\ old \in BOOLEAN
  /\ scan \in [pc : {"idle", "stuck", "second", "expected", "found", "repair",
                     "dead"},
               state : WorkflowState, ver : Nat,
               pattern : {"none", "RP-001", "RP-003"},
               task : TaskType \cup {NoTask}, attempt : {0} \cup {a + 1 : a \in Attempt \cup {0}}]
==============================================================================
