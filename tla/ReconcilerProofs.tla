--------------------------- MODULE ReconcilerProofs --------------------------
(***************************************************************************)
(* The scanner beside the pipeline, for every number of threads, attempts, *)
(* revisions, rounds and faults: whatever it repairs while workers go on,  *)
(* the stages still take effect once and no work is lost, because the only *)
(* task it ever writes again is the collection's.                          *)
(***************************************************************************)
EXTENDS Reconciler, WorkerPipelineProofs

\* A task that is not in flight any more took effect, or the workflow is
\* over; and the tasks of the scenarios are numbered in the order of their
\* rows, so that the latest of them is the current one.
InFlightInv ==
  /\ \A i \in DOMAIN tasks : tasks[i].status \in IN_FLIGHT \/ Key(i) \in done
                               \/ row.state \in TERMINAL_STATES
  /\ \A i, j \in DOMAIN tasks :
       tasks[i].type = "GENERATE_SCENARIO" /\ tasks[j].type = "GENERATE_SCENARIO" /\ i < j =>
         tasks[i].ver < tasks[j].ver
  /\ <<"COLLECT", 1>> \in Keys

\* What a scan holds: a version that has not changed vouches for the state,
\* and a candidate that asks for a scenario has outlived its version.
ScanRecord ==
  [pc : {"idle", "stuck", "second", "expected", "found", "repair", "dead"},
   state : WorkflowState, ver : Nat, pattern : {"none", "RP-001", "RP-003"},
   task : TaskType \cup {NoTask}, attempt : {0} \cup {a + 1 : a \in Attempt \cup {0}}]
ScanInv ==
  /\ version \in Nat \ {0} /\ old \in BOOLEAN /\ scan \in ScanRecord
  /\ scan.ver <= version
  /\ scan.pc \in {"stuck", "expected", "found", "repair"} => scan.state \in Working
  /\ scan.pc \in {"stuck", "expected", "found"} /\ scan.ver = version => row.state = scan.state
  /\ scan.pc = "found" =>
       scan.task \in {NoTask, "COLLECT"} \/ (scan.task = "GENERATE_SCENARIO" /\ scan.ver < version)
  /\ scan.pc = "repair" => scan.task \in {NoTask, "COLLECT"} /\ scan.attempt # 0

\* What TypeOK says beyond PipelineInv; and who will write the next attempt
\* has one left.
TableBounds ==
  /\ row.revision <= MaxRevisions
  /\ \A i \in DOMAIN tasks : tasks[i].attempt \in Attempt
  /\ artifacts \subseteq {"COLLECTED_STORIES", "TOPIC_SELECTION", "SCENARIO", "CRITIC_REVIEW"} \X Nat
StreamBounds ==
  /\ pub \in DOMAIN tasks \cup {0}
  /\ \A d \in DOMAIN entries : entries[d].attempt \in Attempt
  /\ pending \cap acked = {}
LeaseBounds ==
  /\ leases \subseteq [task : DOMAIN tasks, holder : Slot \cup {"dead", "renewed"}]
  /\ faults \in 0..MaxFaults
ThreadBound(k) ==
  /\ k.att \in Attempt \cup {0}
  /\ k.pc = "idle" => k.d = 0
  /\ k.pc = "retrying" => k.att < MaxAttempts[tasks[TaskOf(k.d)].type]
ThreadBounds == \A s \in Slot : ThreadBound(slot[s])
NotedBounds == alive \in BOOLEAN /\ misread \subseteq DOMAIN tasks
BoundsInv == TableBounds /\ StreamBounds /\ LeaseBounds /\ ThreadBounds /\ NotedBounds

ReconcileInv == PipelineInv /\ InFlightInv /\ ScanInv /\ BoundsInv

------------------------------------------------------------------------------
\* Rows that keep their keys and are in flight, or settled, stay so.
LEMMA InFlightKept ==
  ASSUME PipelineInv, InFlightInv, TasksKept, Keys' = Keys, DOMAIN tasks' = DOMAIN tasks,
         done \subseteq done', row.state \in TERMINAL_STATES => row'.state \in TERMINAL_STATES,
         \A j \in DOMAIN tasks : \/ tasks'[j].status = tasks[j].status
                                 \/ tasks'[j].status \in IN_FLIGHT
                                 \/ row'.state \in TERMINAL_STATES
  PROVE  InFlightInv'
  <1>1. \A i \in DOMAIN tasks : Key(i)' = Key(i)
    BY DEF TasksKept, Key
  <1>2. \A i \in DOMAIN tasks' : tasks'[i].status \in IN_FLIGHT \/ Key(i)' \in done'
                                   \/ row'.state \in TERMINAL_STATES
    BY <1>1 DEF InFlightInv
  <1>3. \A i, j \in DOMAIN tasks' :
          tasks'[i].type = "GENERATE_SCENARIO" /\ tasks'[j].type = "GENERATE_SCENARIO" /\ i < j =>
            tasks'[i].ver < tasks'[j].ver
    BY DEF InFlightInv, TasksKept
  <1> QED  BY <1>2, <1>3 DEF InFlightInv

\* One row more, with a new key: a scenario's is numbered behind the others.
LEMMA InFlightGrows ==
  ASSUME PipelineInv, InFlightInv, TasksKept, NEW new, WrittenRows(new), Keys \subseteq Keys',
         done \subseteq done', row.state \notin TERMINAL_STATES,
         \A v, w \in Nat : <<"GENERATE_SCENARIO", v>> \in new /\ <<"GENERATE_SCENARIO", w>> \in Keys
                             => w < v
  PROVE  InFlightInv'
  <1>1. /\ \A i \in DOMAIN tasks : Key(i)' = Key(i) /\ Key(i) \in Keys
        /\ \A i \in DOMAIN tasks' : i \in Nat /\ tasks'[i].ver \in Nat
        /\ \A i \in DOMAIN tasks, j \in DOMAIN tasks' \ DOMAIN tasks : i < j
    <2>1. tasks \in Seq(TaskRecord) /\ tasks' \in Seq(TaskRecord)
      BY DEF PipelineInv, DatabaseInv, Tables, TasksKept
    <2>2. \A i \in DOMAIN tasks' : tasks'[i] \in TaskRecord /\ i \in Nat
      BY <2>1
    <2>3. \A i \in DOMAIN tasks, j \in DOMAIN tasks' \ DOMAIN tasks : i < j
      BY <2>1
    <2> QED  BY <2>2, <2>3 DEF TasksKept, Key, Keys, TaskRecord
  <1>2. \A i \in DOMAIN tasks' : tasks'[i].status \in IN_FLIGHT \/ Key(i)' \in done'
                                   \/ row'.state \in TERMINAL_STATES
    <2> TAKE i \in DOMAIN tasks'
    <2>1. CASE i \in DOMAIN tasks
      BY <1>1, <2>1 DEF InFlightInv, WrittenRows
    <2>2. CASE i \notin DOMAIN tasks
      BY <2>2 DEF WrittenRows, IN_FLIGHT
    <2> QED  BY <2>1, <2>2
  <1>3. ASSUME NEW i \in DOMAIN tasks', NEW j \in DOMAIN tasks',
               tasks'[i].type = "GENERATE_SCENARIO", tasks'[j].type = "GENERATE_SCENARIO", i < j
        PROVE  tasks'[i].ver < tasks'[j].ver
    <2>1. CASE i \in DOMAIN tasks /\ j \in DOMAIN tasks
      BY <1>3, <2>1 DEF InFlightInv, TasksKept
    <2>2. CASE i \in DOMAIN tasks /\ j \notin DOMAIN tasks
      <3>1. <<"GENERATE_SCENARIO", tasks'[j].ver>> \in new
        BY <1>3, <2>2 DEF WrittenRows
      <3>2. <<"GENERATE_SCENARIO", tasks'[i].ver>> \in Keys
        BY <1>1, <1>3, <2>2 DEF TasksKept, Key
      <3> QED  BY <1>1, <3>1, <3>2
    <2>3. CASE i \notin DOMAIN tasks /\ j \in DOMAIN tasks
      BY <1>1, <1>3, <2>3
    <2>4. CASE i \notin DOMAIN tasks /\ j \notin DOMAIN tasks
      <3>1. i = j
        BY <1>3, <2>4 DEF WrittenRows
      <3> QED  BY <1>1, <1>3, <3>1
    <2> QED  BY <2>1, <2>2, <2>3, <2>4
  <1> QED  BY <1>2, <1>3 DEF InFlightInv
\* Whoever delivers, retries or loses a lease writes no other task.
LEMMA DeliveriesKeepRows ==
  ASSUME Outside \/ \E s \in Slot : Delivers(s)
  PROVE  UNCHANGED tasks \/ \E s \in Slot : RetryLater(s)
  <1>1. CASE Outside
    BY <1>1 DEF Outside, Enqueue, MarkPublished, PublisherFails, PublisherDies, PublisherRestarts,
           ExpireDeadLease, LoseLease, database
  <1>2. ASSUME NEW s \in Slot, Delivers(s) PROVE UNCHANGED tasks \/ RetryLater(s)
    BY <1>2 DEF Delivers, Quiet, Dequeue, Ack, SkipDelivery, ProceedDelivery, DeferDelivery,
           AcquireLease, CheckBeforeExecution, PayloadUnreadable, HandlerTransient,
           HandlerPermanent, ReleaseLease, AckUnavailable, DatabaseError, Finally, FinallyRaises,
           Crash, database
  <1> QED  BY <1>1, <1>2

LEMMA InFlightStep ==
  ASSUME PipelineInv, InFlightInv, Next
  PROVE  InFlightInv'
  <1>0. tasks \in Seq(TaskRecord) /\ row \in [state : Reached, revision : Nat] /\ active \in Nat
    BY DEF PipelineInv, DatabaseInv, Tables
  <1>1. ASSUME UNCHANGED <<tasks, done, row>> PROVE InFlightInv'
    <2>1. TasksKept /\ Keys' = Keys
      BY <1>0, <1>1, SameTasks
    <2> QED  BY <1>1, <2>1, InFlightKept
  <1>2. CASE Outside \/ \E s \in Slot : Delivers(s)
    <2>1. UNCHANGED <<row, done>>
      BY <1>2, DeliverySteps
    <2>2. CASE UNCHANGED tasks
      BY <1>1, <2>1, <2>2
    <2>3. ASSUME NEW s \in Slot, RetryLater(s) PROVE InFlightInv'
      <3>1. /\ Keys' = Keys /\ TasksKept /\ DOMAIN tasks' = DOMAIN tasks
            /\ \A j \in DOMAIN tasks : \/ tasks'[j] = tasks[j]
                                       \/ tasks'[j].status = "DISPATCHED"
        BY <2>3, RetryStep
      <3>2. \A j \in DOMAIN tasks : tasks'[j].status = tasks[j].status \/ tasks'[j].status \in IN_FLIGHT
        BY <3>1 DEF IN_FLIGHT
      <3> QED  BY <2>1, <3>1, <3>2, InFlightKept
    <2> QED  BY <1>2, <2>2, <2>3, DeliveriesKeepRows
  <1>3. ASSUME NEW s \in Slot, FailWorkflow(s) PROVE InFlightInv'
    <2>1. /\ Keys' = Keys /\ TasksKept /\ DOMAIN tasks' = DOMAIN tasks /\ UNCHANGED done
          /\ \A j \in DOMAIN tasks : tasks'[j].status = tasks[j].status \/ row'.state \in TERMINAL_STATES
      BY <1>3, FailStep
    <2>2. row.state \in TERMINAL_STATES => row'.state \in TERMINAL_STATES
      <3>1. \/ UNCHANGED row
            \/ row.state \in Working
        BY <1>3, FailStep
      <3> QED  BY <3>1 DEF Working, TERMINAL_STATES
    <2> QED  BY <2>1, <2>2, InFlightKept
  <1>4. ASSUME NEW s \in Slot, NEW signal \in HandlerSignals(tasks[Mine(s)].type),
               CommitStage(s, signal)
        PROVE  InFlightInv'
    <2>1. PICK new : /\ TasksKept /\ WrittenRows(new) /\ Keys' = Keys \cup new /\ done \subseteq done'
                     /\ \/ /\ row.state = "SELECTING_TOPIC" /\ new = {<<"GENERATE_SCENARIO", 1>>}
                        \/ /\ row.state = "REVIEWING" /\ new = {<<"GENERATE_SCENARIO", active + 1>>}
                        \/ new \in {{}, {<<"SELECT_TOPIC", 1>>}, {<<"REVIEW_SCENARIO", active + 1>>}}
      BY <1>4, StageEffects DEF Effect
    <2>2. row.state \notin TERMINAL_STATES
      BY <1>4, CommitsCurrent DEF Working, TERMINAL_STATES
    <2>3. ASSUME NEW v \in Nat, NEW w \in Nat, <<"GENERATE_SCENARIO", v>> \in new,
                 <<"GENERATE_SCENARIO", w>> \in Keys
          PROVE  w < v
      <3>1. NumberedAt(w)
        BY DEF PipelineInv, DatabaseInv, Numbered
      <3>2. CASE row.state = "SELECTING_TOPIC"
        BY <2>3, <3>1, <3>2 DEF NumberedAt
      <3>3. CASE row.state = "REVIEWING" /\ new = {<<"GENERATE_SCENARIO", active + 1>>}
        BY <1>0, <2>3, <3>1, <3>3 DEF NumberedAt
      <3>4. CASE new \in {{}, {<<"SELECT_TOPIC", 1>>}, {<<"REVIEW_SCENARIO", active + 1>>}}
        BY <2>3, <3>4
      <3> QED  BY <2>1, <3>2, <3>3, <3>4
    <2> QED  BY <2>1, <2>2, <2>3, InFlightGrows
  <1>5. ASSUME NEW action \in ApprovalAction, Approval(action) PROVE InFlightInv'
    <2>1. row.state = "AWAITING_HUMAN_APPROVAL" /\ UNCHANGED done
      BY <1>5, ApprovalStep
    <2>2. row.state \notin TERMINAL_STATES
      BY <2>1 DEF TERMINAL_STATES
    <2>3. CASE UNCHANGED tasks
      <3>1. TasksKept /\ Keys' = Keys
        BY <1>0, <2>3, SameTasks
      <3> QED  BY <2>1, <2>2, <2>3, <3>1, InFlightKept
    <2>4. CASE /\ Keys' = Keys \cup {<<"GENERATE_SCENARIO", active + 1>>}
               /\ TasksKept /\ WrittenRows({<<"GENERATE_SCENARIO", active + 1>>})
      <3>1. ASSUME NEW v \in Nat, NEW w \in Nat,
                   <<"GENERATE_SCENARIO", v>> \in {<<"GENERATE_SCENARIO", active + 1>>},
                   <<"GENERATE_SCENARIO", w>> \in Keys
            PROVE  w < v
        <4>1. NumberedAt(w)
          BY DEF PipelineInv, DatabaseInv, Numbered
        <4> QED  BY <1>0, <2>1, <3>1, <4>1 DEF NumberedAt
      <3> QED  BY <2>1, <2>2, <2>4, <3>1, InFlightGrows
    <2> QED  BY <1>5, <2>3, <2>4, ApprovalStep
  <1> QED  BY <1>2, <1>3, <1>4, <1>5, StepsOf

\* While a scenario is being generated its task is in flight, and it is the
\* latest of its type: the scanner has nothing to write again.
LEMMA GenerationInFlight ==
  ASSUME PipelineInv, InFlightInv, row.state = "GENERATING_SCENARIO"
  PROVE  LatestInFlight("GENERATE_SCENARIO")
  <1>1. row.state \in Working /\ row.state \notin TERMINAL_STATES /\ active \in Nat
    BY DEF Working, TERMINAL_STATES, PipelineInv, DatabaseInv, Tables
  <1>2. <<"GENERATE_SCENARIO", active + 1>> \in Keys \ done
    BY <1>1 DEF PipelineInv, DatabaseInv, CurrentIsOpen, CurrentIn
  <1>3. PICK i \in DOMAIN tasks : Key(i) = <<"GENERATE_SCENARIO", active + 1>>
    BY <1>2 DEF Keys
  <1>4. tasks[i].type = "GENERATE_SCENARIO" /\ tasks[i].ver = active + 1
    BY <1>3 DEF Key
  <1>5. tasks[i].status \in IN_FLIGHT
    BY <1>1, <1>2, <1>3 DEF InFlightInv
  <1>6. ASSUME NEW j \in DOMAIN tasks, tasks[j].type = "GENERATE_SCENARIO" PROVE j <= i
    <2>1. i \in Nat /\ j \in Nat /\ tasks[j].ver \in Nat
      <3>1. tasks \in Seq(TaskRecord)
        BY DEF PipelineInv, DatabaseInv, Tables
      <3>2. tasks[j] \in TaskRecord
        BY <3>1
      <3> QED  BY <3>1, <3>2 DEF TaskRecord
    <2>2. <<"GENERATE_SCENARIO", tasks[j].ver>> \in Keys
      BY <1>6 DEF Keys, Key
    <2>3. tasks[j].ver <= active + 1
      BY <2>1, <2>2 DEF PipelineInv, DatabaseInv, Numbered, NumberedAt
    <2>4. i < j => tasks[i].ver < tasks[j].ver
      BY <1>4, <1>6 DEF InFlightInv
    <2> QED  BY <1>1, <1>4, <2>1, <2>3, <2>4
  <1> QED  BY <1>4, <1>5, <1>6 DEF LatestInFlight, LatestOfType

------------------------------------------------------------------------------
\* The scanner while it only looks.
Looks ==
  \/ Age \/ ListStuck \/ JudgeStuck \/ ListExpected \/ JudgeExpected \/ Refresh \/ ScanError

\* A resting scan, or one that an exception has ended, promises nothing.
LEMMA RestingOk ==
  ASSUME ScanInv, version' \in Nat \ {0}, old' \in BOOLEAN, version' >= version,
         scan' = Resting \/ \E pc \in {"second", "dead"} : scan' = [Resting EXCEPT !.pc = pc]
  PROVE  ScanInv'
  <1>1. Resting \in ScanRecord /\ Resting.ver = 0 /\ Resting.pc = "idle"
    BY DEF Resting, ScanRecord, WorkflowState, TRANSIENT_STATES
  <1>2. /\ scan' \in ScanRecord /\ scan'.ver = 0 /\ scan'.pc \in {"idle", "second", "dead"}
    <2>1. CASE scan' = Resting
      BY <1>1, <2>1
    <2>2. ASSUME NEW pc \in {"second", "dead"}, scan' = [Resting EXCEPT !.pc = pc]
          PROVE  scan' \in ScanRecord /\ scan'.ver = 0 /\ scan'.pc \in {"idle", "second", "dead"}
      BY <1>1, <2>2 DEF ScanRecord
    <2> QED  BY <2>1, <2>2
  <1> QED  BY <1>2 DEF ScanInv

\* What a listing holds is true when it is read.
LEMMA ListedOk ==
  ASSUME ScanInv, UNCHANGED <<version, old, row>>, NEW pc \in {"stuck", "expected"}, Listed(pc),
         row.state \in Working
  PROVE  ScanInv'
  <1> DEFINE k == [Resting EXCEPT !.pc = pc, !.state = row.state, !.ver = version]
  <1>1. row.state \in WorkflowState /\ version \in Nat \ {0}
    BY DEF Working, WorkflowState, TRANSIENT_STATES, ScanInv
  <1>2. k \in ScanRecord /\ k.pc = pc /\ k.state = row.state /\ k.ver = version
    <2>1. Resting \in ScanRecord
      BY DEF Resting, ScanRecord, WorkflowState, TRANSIENT_STATES
    <2> QED  BY <1>1, <2>1 DEF ScanRecord
  <1>3. scan' = k
    BY DEF Listed
  <1> HIDE DEF k
  <1> QED  BY <1>1, <1>2, <1>3 DEF ScanInv

\* The task a scan may ask for.
LEMMA ExpectedTask ==
  ASSUME PipelineInv, InFlightInv, ScanInv, scan.pc \in {"stuck", "expected"}
  PROVE  LET expected == Rp001ExpectedTask(scan.state)
         IN expected \in {NoTask, "COLLECT"}
              \/ (expected = "GENERATE_SCENARIO" /\ scan.ver < version)
  <1>1. scan.state \in Working /\ scan.ver \in Nat /\ version \in Nat /\ scan.ver <= version
    BY DEF ScanInv, ScanRecord
  <1>2. CASE scan.state # "GENERATING_SCENARIO"
    BY <1>1, <1>2 DEF Rp001ExpectedTask, ExpectedOutboxTask, Working
  <1>3. CASE scan.state = "GENERATING_SCENARIO"
    <2>1. Rp001ExpectedTask(scan.state) \in {NoTask, "GENERATE_SCENARIO"}
      BY <1>3 DEF Rp001ExpectedTask
    <2>2. CASE scan.ver = version
      <3>1. LatestInFlight("GENERATE_SCENARIO")
        BY <1>3, <2>2, GenerationInFlight DEF ScanInv
      <3> QED  BY <1>3, <3>1 DEF Rp001ExpectedTask
    <2>3. CASE scan.ver # version
      BY <1>1, <2>1, <2>3
    <2> QED  BY <2>2, <2>3
  <1> QED  BY <1>2, <1>3

\* What a scan finds.
LEMMA FoundOk ==
  ASSUME PipelineInv, InFlightInv, ScanInv, UNCHANGED <<version, old, row>>,
         scan.pc \in {"stuck", "expected"}, NEW pattern \in {"RP-001", "RP-003"},
         scan' = [scan EXCEPT !.pc = "found", !.pattern = pattern,
                              !.task = Rp001ExpectedTask(scan.state)]
  PROVE  ScanInv'
  <1> DEFINE expected == Rp001ExpectedTask(scan.state)
  <1>1. /\ expected \in {NoTask, "COLLECT"} \/ (expected = "GENERATE_SCENARIO" /\ scan.ver < version)
        /\ scan \in ScanRecord
    BY ExpectedTask DEF ScanInv
  <1>2. expected \in TaskType \cup {NoTask}
    BY <1>1 DEF TaskType
  <1> HIDE DEF expected
  <1>3. scan' = [scan EXCEPT !.pc = "found", !.pattern = pattern, !.task = expected]
    BY DEF expected
  <1>4. /\ scan' \in ScanRecord /\ scan'.pc = "found" /\ scan'.task = expected
        /\ scan'.ver = scan.ver /\ scan'.state = scan.state
    BY <1>1, <1>2, <1>3 DEF ScanRecord
  <1> QED  BY <1>1, <1>4 DEF ScanInv

\* A candidate that passes the second look asks for the collection's task at
\* most.
LEMMA RefreshOk ==
  ASSUME PipelineInv, ScanInv, BoundsInv, Refresh
  PROVE  ScanInv'
  <1>1. UNCHANGED <<version, old, row>> /\ scan.pc = "found" /\ scan \in ScanRecord
    BY DEF Refresh, vars, ScanInv
  <1>2. CASE scan' = Resting
    BY <1>1, <1>2, RestingOk DEF ScanInv
  <1>3. CASE scan' # Resting
    <2> DEFINE n == IF scan.pattern = "RP-001" THEN 1 ELSE LatestAttempt(scan.task) + 1
    <2>1. scan.ver = version /\ scan' = [scan EXCEPT !.pc = "repair", !.attempt = n]
      BY <1>3 DEF Refresh
    <2>2. LatestAttempt(scan.task) \in Attempt \cup {0}
      <3>1. CASE LatestOfType(scan.task) = {}
        BY <3>1 DEF LatestAttempt
      <3>2. CASE LatestOfType(scan.task) # {}
        <4>1. (CHOOSE i \in LatestOfType(scan.task) : TRUE) \in DOMAIN tasks
          BY <3>2 DEF LatestOfType
        <4> QED  BY <3>2, <4>1 DEF LatestAttempt, BoundsInv, TableBounds
      <3> QED  BY <3>1, <3>2
    <2>3. Attempt \subseteq Nat
      BY PipelineAssumption DEF Attempt
    <2>4. n \in {0} \cup {a + 1 : a \in Attempt \cup {0}} /\ n # 0
      <3>1. PICK a \in Attempt \cup {0} : n = a + 1
        <4>1. CASE scan.pattern = "RP-001"
          <5>1. 0 \in Attempt \cup {0} /\ n = 0 + 1
            BY <4>1
          <5> QED  BY <5>1
        <4>2. CASE scan.pattern # "RP-001"
          <5>1. n = LatestAttempt(scan.task) + 1
            BY <4>2
          <5> QED  BY <2>2, <5>1
        <4> QED  BY <4>1, <4>2
      <3> HIDE DEF n
      <3> QED  BY <2>3, <3>1
    <2> HIDE DEF n
    <2>5. /\ scan' \in ScanRecord /\ scan'.pc = "repair" /\ scan'.task = scan.task /\ scan'.attempt = n
          /\ scan'.ver = scan.ver /\ scan'.state = scan.state
      BY <1>1, <2>1, <2>4 DEF ScanRecord
    <2>6. scan.task \in {NoTask, "COLLECT"}
      BY <1>1, <2>1 DEF ScanInv
    <2> QED  BY <1>1, <2>1, <2>4, <2>5, <2>6 DEF ScanInv
  <1> QED  BY <1>2, <1>3

LEMMA SameState ==
  ASSUME PipelineInv, InFlightInv, BoundsInv, UNCHANGED vars
  PROVE  PipelineInv' /\ InFlightInv' /\ BoundsInv' /\ Keys' = Keys
  <1>1. PipelineInv' /\ Keys' = Keys
    BY Stutters
  <1>2. InFlightInv'
    BY <1>1 DEF vars, InFlightInv, Key
  <1>3. BoundsInv'
    BY DEF vars, BoundsInv, TableBounds, StreamBounds, LeaseBounds, ThreadBounds, ThreadBound,
           TaskOf, NotedBounds
  <1> QED  BY <1>1, <1>2, <1>3

LEMMA LooksStep ==
  ASSUME ReconcileInv, Looks
  PROVE  ReconcileInv' /\ Keys' = Keys /\ UNCHANGED vars
  <1>1. UNCHANGED vars /\ UNCHANGED version /\ UNCHANGED row
    BY DEF Looks, Age, ListStuck, JudgeStuck, ListExpected, JudgeExpected, Refresh, ScanError, vars
  <1>2. PipelineInv' /\ InFlightInv' /\ BoundsInv' /\ Keys' = Keys
    BY <1>1, SameState DEF ReconcileInv
  <1> SUFFICES ScanInv'
    BY <1>1, <1>2 DEF ReconcileInv
  <1>3. ScanInv
    BY DEF ReconcileInv
  <1>4. row.state \in TRANSIENT_STATES \/ row.state \in Working => row.state \in Working
    BY DEF ReconcileInv, PipelineInv, DatabaseInv, Tables, Reached, Working, TRANSIENT_STATES,
           TERMINAL_STATES
  <1>5. CASE Age
    BY <1>1, <1>3, <1>5 DEF Age, ScanInv
  <1>6. CASE ListStuck
    BY <1>1, <1>3, <1>4, <1>6, ListedOk DEF ListStuck
  <1>7. CASE JudgeStuck
    <2>1. CASE LatestInFlight(Rp001ExpectedTask(scan.state))
      BY <1>1, <1>3, <1>7, <2>1, RestingOk DEF JudgeStuck, ScanInv
    <2>2. CASE ~ LatestInFlight(Rp001ExpectedTask(scan.state))
      BY <1>1, <1>3, <1>7, <2>2, FoundOk DEF JudgeStuck, ReconcileInv
    <2> QED  BY <2>1, <2>2
  <1>8. CASE ListExpected
    <2>1. CASE scan' = Resting
      BY <1>1, <1>3, <1>8, <2>1, RestingOk DEF ListExpected, ScanInv
    <2>2. CASE scan' # Resting
      <3>1. /\ row.state \in TRANSIENT_STATES /\ Listed("expected")
            /\ UNCHANGED <<version, old, row>>
        BY <1>1, <1>8, <2>2 DEF ListExpected, TRANSIENT_STATES
      <3> QED  BY <1>3, <1>4, <3>1, ListedOk
    <2> QED  BY <2>1, <2>2
  <1>9. CASE JudgeExpected
    <2>1. CASE scan' = Resting
      BY <1>1, <1>3, <1>9, <2>1, RestingOk DEF JudgeExpected, ScanInv
    <2>2. CASE scan' # Resting
      BY <1>1, <1>3, <1>9, <2>2, FoundOk DEF JudgeExpected, ReconcileInv
    <2> QED  BY <2>1, <2>2
  <1>10. CASE Refresh
    BY <1>10, RefreshOk DEF ReconcileInv
  <1>11. CASE ScanError
    BY <1>1, <1>3, <1>11, RestingOk DEF ScanError, ScanInv
  <1> QED  BY <1>5, <1>6, <1>7, <1>8, <1>9, <1>10, <1>11 DEF Looks

------------------------------------------------------------------------------
\* The bounds, step by step.
LEMMA Attempts ==
  /\ Attempt \subseteq Nat \ {0} /\ 1 \in Attempt
  /\ \A t \in TaskType : \A a \in Nat : a # 0 /\ a <= MaxAttempts[t] => a \in Attempt
  <1>1. \A t \in TaskType : MaxAttempts[t] \in Nat \ {0}
    BY PipelineAssumption
  <1>2. ASSUME NEW a \in Attempt PROVE a \in Nat \ {0}
    <2>1. PICK t \in TaskType : a \in 1..MaxAttempts[t]
      BY DEF Attempt
    <2> QED  BY <1>1, <2>1
  <1>3. ASSUME NEW t \in TaskType, NEW a \in Nat, a # 0, a <= MaxAttempts[t] PROVE a \in Attempt
    <2>1. a \in 1..MaxAttempts[t]
      BY <1>1, <1>3
    <2> QED  BY <2>1 DEF Attempt
  <1>4. 1 \in Attempt
    <2>1. "COLLECT" \in TaskType /\ MaxAttempts["COLLECT"] >= 1
      BY <1>1 DEF TaskType
    <2> QED  BY <1>3, <2>1
  <1> QED  BY <1>2, <1>3, <1>4

\* No step takes a task or a delivery away.
LEMMA TasksStay ==
  ASSUME PipelineInv, Next
  PROVE  TasksKept
  <1>1. tasks \in Seq(TaskRecord)
    BY DEF PipelineInv, DatabaseInv, Tables
  <1>2. CASE Outside \/ \E s \in Slot : Delivers(s)
    BY <1>1, <1>2, DeliveriesKeepRows, SameTasks, RetryStep
  <1>3. CASE \E s \in Slot : FailWorkflow(s)
    BY <1>3, FailStep
  <1>4. CASE \E s \in Slot : \E signal \in HandlerSignals(tasks[Mine(s)].type) : CommitStage(s, signal)
    BY <1>4, StageEffects DEF Effect
  <1>5. CASE \E action \in ApprovalAction : Approval(action)
    BY <1>1, <1>5, ApprovalStep, SameTasks
  <1> QED  BY <1>2, <1>3, <1>4, <1>5, StepsOf

LEMMA OnlyEnqueueSends ==
  ASSUME Next
  PROVE  Enqueue \/ UNCHANGED entries
  BY DEF Next, Process, Enqueue, MarkPublished, PublisherFails, PublisherDies,
         PublisherRestarts, Dequeue, SkipDelivery, ProceedDelivery, DeferDelivery, AcquireLease,
         CheckBeforeExecution, PayloadUnreadable, CommitStage, HandlerTransient, HandlerPermanent,
         RetryLater, FailWorkflow, ReleaseLease, Ack, AckUnavailable, DatabaseError, Finally,
         FinallyRaises, Crash, ExpireDeadLease, LoseLease, Approval, streams

\* What the publisher sends is the oldest row of its outbox.
LEMMA Sent ==
  ASSUME PipelineInv, Enqueue
  PROVE  \E i \in DOMAIN tasks :
           /\ pub' = i /\ entries' = Append(entries, [task |-> i, attempt |-> tasks[i].attempt])
           /\ DOMAIN entries' = DOMAIN entries \cup {Len(entries) + 1}
           /\ entries'[Len(entries) + 1].attempt = tasks[i].attempt
           /\ \A d \in DOMAIN entries : entries'[d] = entries[d]
  <1>1. /\ tasks \in Seq(TaskRecord) /\ outbox # {} /\ outbox \subseteq DOMAIN tasks
        /\ entries \in Seq([task : Nat, attempt : Nat]) /\ pub' = Least(outbox)
        /\ entries' = Append(entries, [task |-> pub', attempt |-> tasks[pub'].attempt])
    BY DEF Enqueue, PipelineInv, DatabaseInv, Tables, StreamInv
  <1>2. outbox \subseteq Nat
    BY <1>1
  <1>3. PICK i \in DOMAIN tasks : i = Least(outbox) /\ i \in Nat
    BY <1>1, <1>2, LeastIn
  <1>4. tasks[i] \in TaskRecord
    BY <1>1
  <1> DEFINE e == [task |-> i, attempt |-> tasks[i].attempt]
  <1>5. e \in [task : Nat, attempt : Nat] /\ e.attempt = tasks[i].attempt /\ pub' = i
        /\ entries' = Append(entries, e)
    BY <1>1, <1>3, <1>4 DEF TaskRecord
  <1> HIDE DEF e
  <1>6. /\ DOMAIN entries' = DOMAIN entries \cup {Len(entries) + 1}
        /\ entries'[Len(entries) + 1] = e /\ \A d \in DOMAIN entries : entries'[d] = entries[d]
    BY <1>1, <1>5
  <1> QED  BY <1>5, <1>6 DEF e

LEMMA DeliveriesStay ==
  ASSUME PipelineInv, Next
  PROVE  DOMAIN entries \subseteq DOMAIN entries' /\ \A d \in DOMAIN entries : entries'[d] = entries[d]
  <1>1. CASE Enqueue
    BY <1>1, Sent
  <1>2. CASE UNCHANGED entries
    BY <1>2
  <1> QED  BY <1>1, <1>2, OnlyEnqueueSends

LEMMA TableBoundsStep ==
  ASSUME PipelineInv, BoundsInv, Next
  PROVE  TableBounds'
  <1>0. /\ TableBounds /\ row \in [state : Reached, revision : Nat] /\ MaxRevisions \in Nat
        /\ active \in Nat
    BY PipelineAssumption DEF BoundsInv, PipelineInv, DatabaseInv, Tables
  <1>1. ASSUME NEW new, WrittenRows(new)
        PROVE  \A i \in DOMAIN tasks' : tasks'[i].attempt \in Attempt
    BY <1>0, <1>1, Attempts DEF WrittenRows, TableBounds
  <1>2. CASE Outside \/ \E s \in Slot : Delivers(s)
    <2>1. UNCHANGED row /\ UNCHANGED artifacts
      <3>1. CASE Outside
        BY <3>1 DEF Outside, Enqueue, MarkPublished, PublisherFails, PublisherDies, PublisherRestarts,
           ExpireDeadLease, LoseLease, database
      <3>2. ASSUME NEW s \in Slot, Delivers(s) PROVE UNCHANGED artifacts
        BY <3>2 DEF Delivers, Quiet, Dequeue, Ack, RetryLater, SkipDelivery, ProceedDelivery,
               DeferDelivery, AcquireLease, CheckBeforeExecution, PayloadUnreadable,
               HandlerTransient, HandlerPermanent, ReleaseLease, AckUnavailable, DatabaseError,
               Finally, FinallyRaises, Crash, database
      <3> QED  BY <1>2, <3>1, <3>2, DeliverySteps
    <2>2. CASE UNCHANGED tasks
      BY <1>0, <2>1, <2>2 DEF TableBounds
    <2>3. ASSUME NEW s \in Slot, RetryLater(s) PROVE TableBounds'
      <3>1. /\ DOMAIN tasks' = DOMAIN tasks
            /\ \A j \in DOMAIN tasks : tasks'[j] = tasks[j] \/ tasks'[j].attempt = slot[s].att + 1
        BY <2>3, RetryStep
      <3>2. slot[s].pc = "retrying" /\ ThreadBound(slot[s]) /\ slot[s].att \in Nat
        BY <2>3 DEF RetryLater, BoundsInv, ThreadBounds, PipelineInv, SlotInv
      <3>3. tasks[Mine(s)].type \in TaskType /\ slot[s].att < MaxAttempts[tasks[Mine(s)].type]
        BY <3>2, MineIsTask DEF ThreadBound, Mine
      <3>4. slot[s].att + 1 \in Attempt
        BY <3>2, <3>3, Attempts, PipelineAssumption
      <3> QED  BY <1>0, <2>1, <3>1, <3>4 DEF TableBounds
    <2> QED  BY <1>2, <2>2, <2>3, DeliveriesKeepRows
  <1>3. ASSUME NEW s \in Slot, FailWorkflow(s) PROVE TableBounds'
    <2>1. /\ DOMAIN tasks' = DOMAIN tasks /\ \A j \in DOMAIN tasks : tasks'[j].attempt = tasks[j].attempt
          /\ row'.revision = row.revision /\ UNCHANGED artifacts
      BY <1>0, <1>3, FailStep DEF FailWorkflow
    <2> QED  BY <1>0, <2>1 DEF TableBounds
  <1>4. ASSUME NEW s \in Slot, NEW signal \in HandlerSignals(tasks[Mine(s)].type),
               CommitStage(s, signal)
        PROVE  TableBounds'
    <2>1. row'.revision <= MaxRevisions /\ \E new : WrittenRows(new)
      BY <1>0, <1>4, StageEffects DEF Effect, TableBounds
    <2>2. slot[s].pc # "idle" /\ artifacts' = artifacts \cup {Stores(tasks[Mine(s)].type, tasks[Mine(s)].ver)}
      BY <1>4, CommitsCurrent DEF CommitStage
    <2>3. Stores(tasks[Mine(s)].type, tasks[Mine(s)].ver) \in
            {"COLLECTED_STORIES", "TOPIC_SELECTION", "SCENARIO", "CRITIC_REVIEW"} \X Nat
      BY <2>2, MineIsTask DEF Stores, ArtifactType, TaskType
    <2> QED  BY <1>0, <1>1, <2>1, <2>2, <2>3 DEF TableBounds
  <1>5. ASSUME NEW action \in ApprovalAction, Approval(action) PROVE TableBounds'
    <2>1. row'.revision = row.revision /\ UNCHANGED artifacts
          /\ (UNCHANGED tasks \/ \E new : WrittenRows(new))
      BY <1>0, <1>5, ApprovalStep DEF Approval
    <2> QED  BY <1>0, <1>1, <2>1 DEF TableBounds
  <1> QED  BY <1>2, <1>3, <1>4, <1>5, StepsOf

\* A delivery that is handed out is not acknowledged.
LEMMA HandedOut ==
  ASSUME PipelineInv, StreamBounds, NEW s \in Slot, NEW type \in TaskType, Dequeue(s, type)
  PROVE  \E d \in DOMAIN entries \ acked :
           /\ pending' = pending \cup {d}
           /\ slot' = [slot EXCEPT ![s] = [Idle EXCEPT !.pc = "received", !.d = d]]
  <1>1. /\ Unread(type) \subseteq DOMAIN entries \ acked
        /\ Unacked(type) \subseteq DOMAIN entries \ acked
        /\ DOMAIN entries \subseteq Nat
    BY DEF Unread, Unacked, PipelineInv, StreamInv, StreamBounds
  <1>2. CASE Unread(type) # {}
    <2>1. Least(Unread(type)) \in DOMAIN entries \ acked
      BY <1>1, <1>2, LeastIn
    <2> QED  BY <1>2, <2>1 DEF Dequeue
  <1>3. CASE Unread(type) = {}
    <2>1. Least(Unacked(type)) \in DOMAIN entries \ acked
      <3>1. Unacked(type) # {}
        BY <1>3 DEF Dequeue
      <3> QED  BY <1>1, <3>1, LeastIn
    <2> QED  BY <1>3, <2>1 DEF Dequeue
  <1> QED  BY <1>2, <1>3

LEMMA StreamBoundsStep ==
  ASSUME PipelineInv, BoundsInv, Next
  PROVE  StreamBounds'
  <1>0. StreamBounds /\ TableBounds /\ DOMAIN tasks \subseteq DOMAIN tasks'
    BY TasksStay DEF BoundsInv, TasksKept
  <1>1. CASE Enqueue
    <2>1. PICK i \in DOMAIN tasks :
            /\ pub' = i /\ DOMAIN entries' = DOMAIN entries \cup {Len(entries) + 1}
            /\ entries'[Len(entries) + 1].attempt = tasks[i].attempt
            /\ \A d \in DOMAIN entries : entries'[d] = entries[d]
      BY <1>1, Sent
    <2>2. \A d \in DOMAIN entries' : entries'[d].attempt \in Attempt
      BY <1>0, <2>1 DEF StreamBounds, TableBounds
    <2> QED  BY <1>0, <1>1, <2>1, <2>2 DEF Enqueue, StreamBounds
  <1>2. CASE MarkPublished \/ PublisherFails \/ PublisherDies
    BY <1>0, <1>2 DEF MarkPublished, PublisherFails, PublisherDies, StreamBounds, streams
  <1>3. ASSUME NEW s \in Slot, NEW type \in TaskType, Dequeue(s, type) PROVE StreamBounds'
    <2>1. PICK d \in DOMAIN entries \ acked : pending' = pending \cup {d}
      BY <1>0, <1>3, HandedOut
    <2>2. UNCHANGED <<pub, entries, acked>>
      BY <1>3 DEF Dequeue, publisher
    <2> QED  BY <1>0, <2>1, <2>2 DEF StreamBounds
  <1>4. ASSUME NEW s \in Slot, Ack(s) PROVE StreamBounds'
    <2>1. /\ pending' = pending \ {slot[s].d} /\ acked' = acked \cup {slot[s].d}
          /\ UNCHANGED <<pub, entries>>
      BY <1>4 DEF Ack, publisher
    <2> QED  BY <1>0, <2>1 DEF StreamBounds
  <1>5. CASE UNCHANGED <<streams, pub>>
    BY <1>0, <1>5 DEF StreamBounds, streams
  <1>6. ASSUME NEW s \in Slot,
               \/ Process(s) \/ DeferDelivery(s) \/ AckUnavailable(s) \/ DatabaseError(s)
               \/ PayloadUnreadable(s) \/ FinallyRaises(s) \/ Crash(s)
        PROVE  UNCHANGED <<streams, pub>> \/ Ack(s)
    BY <1>6 DEF Process, SkipDelivery, ProceedDelivery, DeferDelivery, AcquireLease,
           CheckBeforeExecution, PayloadUnreadable, CommitStage, HandlerTransient,
           HandlerPermanent, RetryLater, FailWorkflow, ReleaseLease, AckUnavailable,
           DatabaseError, Finally, FinallyRaises, Crash, publisher
  <1>7. ASSUME \/ PublisherRestarts \/ ExpireDeadLease \/ LoseLease
               \/ \E action \in ApprovalAction : Approval(action)
        PROVE  UNCHANGED <<streams, pub>>
    BY <1>7 DEF PublisherRestarts, ExpireDeadLease, LoseLease, Approval, publisher
  <1>8. \/ Enqueue \/ MarkPublished \/ PublisherFails \/ PublisherDies \/ UNCHANGED <<streams, pub>>
        \/ \E s \in Slot : Ack(s) \/ \E type \in TaskType : Dequeue(s, type)
    BY <1>6, <1>7, Zenon DEF Next
  <1> QED  BY <1>1, <1>2, <1>3, <1>4, <1>5, <1>8

LEMMA LeaseBoundsStep ==
  ASSUME PipelineInv, BoundsInv, Next
  PROVE  LeaseBounds'
  <1> DEFINE Lease(T) == [task : T, holder : Slot \cup {"dead", "renewed"}]
  <1>0. LeaseBounds /\ DOMAIN tasks \subseteq DOMAIN tasks' /\ MaxFaults \in Nat
    BY TasksStay, PipelineAssumption DEF BoundsInv, TasksKept
  <1>1. faults' \in 0..MaxFaults
    <2>1. ASSUME NEW s \in Slot,
                 \/ Process(s) \/ DeferDelivery(s) \/ AckUnavailable(s) \/ DatabaseError(s)
                 \/ PayloadUnreadable(s) \/ FinallyRaises(s) \/ Crash(s)
                 \/ \E type \in TaskType : Dequeue(s, type)
          PROVE  faults' = faults \/ Fault
      BY <2>1 DEF Process, Dequeue, SkipDelivery, ProceedDelivery, DeferDelivery, AcquireLease,
             CheckBeforeExecution, PayloadUnreadable, CommitStage, HandlerTransient,
             HandlerPermanent, RetryLater, FailWorkflow, ReleaseLease, Ack, AckUnavailable,
             DatabaseError, Finally, FinallyRaises, Crash, history
    <2>2. ASSUME \/ Outside \/ \E action \in ApprovalAction : Approval(action)
          PROVE  faults' = faults \/ Fault
      BY <2>2 DEF Outside, Enqueue, MarkPublished, PublisherFails, PublisherDies,
             PublisherRestarts, ExpireDeadLease, LoseLease, Approval, history
    <2>3. faults' = faults \/ Fault
      BY <2>1, <2>2 DEF Next, Outside
    <2> QED  BY <1>0, <2>3 DEF Fault, LeaseBounds
  <1>2. leases' \subseteq Lease(DOMAIN tasks)
    <2>0. leases \subseteq Lease(DOMAIN tasks)
      BY <1>0 DEF LeaseBounds
    <2>1. CASE leases' \subseteq leases
      BY <2>0, <2>1
    <2>2. ASSUME NEW s \in Slot, AcquireLease(s) PROVE leases' \subseteq Lease(DOMAIN tasks)
      <3>1. Mine(s) \in DOMAIN tasks
        BY <2>2, MineIsTask DEF AcquireLease
      <3> QED  BY <2>0, <2>2, <3>1 DEF AcquireLease
    <2>3. ASSUME NEW s \in Slot, Crash(s) PROVE leases' \subseteq Lease(DOMAIN tasks)
      <3>1. ASSUME NEW l \in Lease(DOMAIN tasks) PROVE [l EXCEPT !.holder = "dead"] \in Lease(DOMAIN tasks)
        OBVIOUS
      <3> QED  BY <2>0, <2>3, <3>1 DEF Crash
    <2>4. ASSUME NEW s \in Slot, FinallyRaises(s) PROVE leases' \subseteq Lease(DOMAIN tasks)
      <3>1. ASSUME NEW l \in Lease(DOMAIN tasks), NEW h \in {"dead", "renewed"}
            PROVE  [l EXCEPT !.holder = h] \in Lease(DOMAIN tasks)
        OBVIOUS
      <3> QED  BY <2>0, <2>4, <3>1 DEF FinallyRaises
    <2>5. ASSUME NEW s \in Slot,
                 \/ Process(s) \/ DeferDelivery(s) \/ AckUnavailable(s) \/ DatabaseError(s)
                 \/ PayloadUnreadable(s) \/ \E type \in TaskType : Dequeue(s, type)
          PROVE  leases' \subseteq leases \/ AcquireLease(s)
      BY <2>5 DEF Process, Dequeue, SkipDelivery, ProceedDelivery, DeferDelivery,
             CheckBeforeExecution, PayloadUnreadable, CommitStage, HandlerTransient,
             HandlerPermanent, RetryLater, FailWorkflow, ReleaseLease, Ack, AckUnavailable,
             DatabaseError, Finally, Released
    <2>6. ASSUME \/ Outside \/ \E action \in ApprovalAction : Approval(action)
          PROVE  leases' \subseteq leases
      BY <2>6 DEF Outside, Enqueue, MarkPublished, PublisherFails, PublisherDies,
             PublisherRestarts, ExpireDeadLease, LoseLease, Approval
    <2> QED  BY <2>1, <2>2, <2>3, <2>4, <2>5, <2>6 DEF Next, Outside
  <1> QED  BY <1>0, <1>1, <1>2 DEF LeaseBounds

LEMMA NotedBoundsStep ==
  ASSUME PipelineInv, BoundsInv, Next
  PROVE  NotedBounds'
  <1>0. alive \in BOOLEAN /\ misread \subseteq DOMAIN tasks /\ DOMAIN tasks \subseteq DOMAIN tasks'
    BY TasksStay DEF BoundsInv, NotedBounds, TasksKept
  <1>1. ASSUME NEW s \in Slot, PayloadUnreadable(s) PROVE UNCHANGED alive /\ misread' \subseteq DOMAIN tasks
    <2>1. Mine(s) \in DOMAIN tasks
      BY <1>1, MineIsTask DEF PayloadUnreadable, CheckKey
    <2> QED  BY <1>0, <1>1, <2>1 DEF PayloadUnreadable, publisher
  <1>2. ASSUME NEW s \in Slot,
               \/ Process(s) \/ DeferDelivery(s) \/ AckUnavailable(s) \/ DatabaseError(s)
               \/ FinallyRaises(s) \/ Crash(s) \/ \E type \in TaskType : Dequeue(s, type)
        PROVE  UNCHANGED <<alive, misread>>
    BY <1>2 DEF Process, Dequeue, SkipDelivery, ProceedDelivery, DeferDelivery, AcquireLease,
           CheckBeforeExecution, CommitStage, HandlerTransient, HandlerPermanent, RetryLater,
           FailWorkflow, ReleaseLease, Ack, AckUnavailable, DatabaseError, Finally,
           FinallyRaises, Crash, publisher, history
  <1>3. ASSUME Outside \/ \E action \in ApprovalAction : Approval(action)
        PROVE  (alive' = alive \/ alive' = TRUE \/ alive' = FALSE) /\ UNCHANGED misread
    BY <1>3 DEF Outside, Enqueue, MarkPublished, PublisherFails, PublisherDies, PublisherRestarts,
           ExpireDeadLease, LoseLease, Approval, publisher, history
  <1>4. /\ alive' = alive \/ alive' = TRUE \/ alive' = FALSE
        /\ misread' = misread \/ misread' \subseteq DOMAIN tasks
    BY <1>1, <1>2, <1>3 DEF Next, Outside
  <1>5. alive' \in BOOLEAN
    BY <1>0, <1>4, Zenon
  <1> QED  BY <1>0, <1>4, <1>5 DEF NotedBounds

\* The bounds of a thread that a step leaves alone, or moves.
LEMMA BoundMoves ==
  ASSUME PipelineInv, BoundsInv, Next, NEW s \in Slot, NEW k, slot' = [slot EXCEPT ![s] = k],
         k.att \in Attempt \cup {0}, k.pc = "idle" => k.d = 0,
         k.pc = "retrying" => k.d \in DOMAIN entries /\ k.att < MaxAttempts[tasks[TaskOf(k.d)].type]
  PROVE  ThreadBounds'
  <1>1. ASSUME NEW d \in DOMAIN entries
        PROVE  TaskOf(d)' = TaskOf(d) /\ tasks'[TaskOf(d)].type = tasks[TaskOf(d)].type
    <2>1. TaskOf(d)' = TaskOf(d) /\ TaskOf(d) \in DOMAIN tasks
      BY DeliveriesStay DEF TaskOf, PipelineInv, StreamInv
    <2> QED  BY <2>1, TasksStay DEF TasksKept
  <1>2. ThreadBound(k)'
    BY <1>1 DEF ThreadBound
  <1>3. \A r \in Slot : slot'[r] = IF r = s THEN k ELSE slot[r]
    BY DEF PipelineInv, SlotInv
  <1>4. ASSUME NEW r \in Slot PROVE ThreadBound(slot[r])' \/ slot'[r] # slot[r]
    <2>1. PICK c : c = slot[r]
      OBVIOUS
    <2>2. ThreadBound(c) /\ (c.pc # "idle" => c.d \in DOMAIN entries)
      BY <2>1, MineIsTask DEF BoundsInv, ThreadBounds
    <2>3. ThreadBound(c)'
      BY <1>1, <2>2 DEF ThreadBound
    <2> QED  BY <2>1, <2>3
  <1> QED  BY <1>2, <1>3, <1>4 DEF ThreadBounds

LEMMA BoundGoesOn ==
  ASSUME PipelineInv, BoundsInv, Next, NEW s \in Slot, slot[s].pc # "idle",
         NEW pc \in PC \ {"idle"},
         \/ Go(s, pc)
         \/ \E err \in Err : Raise(s, pc, err)
         \/ \E att \in Attempt : pc # "retrying" /\ slot' = [slot EXCEPT ![s].pc = pc, ![s].att = att]
         \/ \E ver \in Nat : slot' = [slot EXCEPT ![s].ver = ver, ![s].pc = pc],
         pc = "retrying" => ~ Exhausted(s)
  PROVE  ThreadBounds'
  <1>0. /\ slot \in [Slot -> Thread] /\ slot[s] \in Thread /\ slot[s].att \in Attempt \cup {0}
        /\ slot[s].d \in DOMAIN entries
    BY MineIsTask DEF PipelineInv, SlotInv, Thread, BoundsInv, ThreadBounds, ThreadBound
  <1>1. pc = "retrying" => slot[s].att < MaxAttempts[tasks[TaskOf(slot[s].d)].type]
    <2>1. tasks[Mine(s)].type \in TaskType /\ slot[s].att \in Nat
      BY <1>0, MineIsTask DEF Thread
    <2> QED  BY <2>1, PipelineAssumption DEF Exhausted, Mine
  <1>2. PICK k \in Thread : /\ k.pc = pc /\ k.d = slot[s].d /\ slot' = [slot EXCEPT ![s] = k]
                            /\ k.att \in Attempt \cup {0}
                            /\ pc = "retrying" => k.att = slot[s].att
    <2>1. CASE Go(s, pc)
      <3> DEFINE k == [slot[s] EXCEPT !.pc = pc]
      <3>1. k \in Thread /\ k.pc = pc /\ k.d = slot[s].d /\ k.att = slot[s].att
        BY <1>0 DEF Thread
      <3>2. slot' = [slot EXCEPT ![s] = k]
        BY <1>0, <2>1 DEF Go
      <3> HIDE DEF k
      <3> QED  BY <1>0, <3>1, <3>2
    <2>2. ASSUME NEW err \in Err, Raise(s, pc, err)
          PROVE  \E k \in Thread : /\ k.pc = pc /\ k.d = slot[s].d /\ slot' = [slot EXCEPT ![s] = k]
                                   /\ k.att \in Attempt \cup {0}
                                   /\ pc = "retrying" => k.att = slot[s].att
      <3> DEFINE k == [slot[s] EXCEPT !.pc = pc, !.err = err]
      <3>1. k \in Thread /\ k.pc = pc /\ k.d = slot[s].d /\ k.att = slot[s].att
        BY <1>0 DEF Thread
      <3>2. slot' = [slot EXCEPT ![s] = k]
        BY <1>0, <2>2 DEF Raise
      <3> HIDE DEF k
      <3> QED  BY <1>0, <3>1, <3>2
    <2>3. ASSUME NEW att \in Attempt, pc # "retrying", slot' = [slot EXCEPT ![s].pc = pc, ![s].att = att]
          PROVE  \E k \in Thread : /\ k.pc = pc /\ k.d = slot[s].d /\ slot' = [slot EXCEPT ![s] = k]
                                   /\ k.att \in Attempt \cup {0}
                                   /\ pc = "retrying" => k.att = slot[s].att
      <3> DEFINE k == [slot[s] EXCEPT !.pc = pc, !.att = att]
      <3>1. k \in Thread /\ k.pc = pc /\ k.d = slot[s].d /\ k.att = att
        BY <1>0, Attempts DEF Thread
      <3>2. slot' = [slot EXCEPT ![s] = k]
        BY <1>0, <2>3
      <3> HIDE DEF k
      <3> QED  BY <2>3, <3>1, <3>2
    <2>4. ASSUME NEW ver \in Nat, slot' = [slot EXCEPT ![s].ver = ver, ![s].pc = pc]
          PROVE  \E k \in Thread : /\ k.pc = pc /\ k.d = slot[s].d /\ slot' = [slot EXCEPT ![s] = k]
                                   /\ k.att \in Attempt \cup {0}
                                   /\ pc = "retrying" => k.att = slot[s].att
      <3> DEFINE k == [slot[s] EXCEPT !.ver = ver, !.pc = pc]
      <3>1. k \in Thread /\ k.pc = pc /\ k.d = slot[s].d /\ k.att = slot[s].att
        BY <1>0 DEF Thread
      <3>2. slot' = [slot EXCEPT ![s] = k]
        BY <1>0, <2>4
      <3> HIDE DEF k
      <3> QED  BY <1>0, <3>1, <3>2
    <2> QED  BY <2>1, <2>2, <2>3, <2>4
  <1> QED  BY <1>0, <1>1, <1>2, BoundMoves

\* A thread that drops its delivery.
LEMMA BoundIdle ==
  ASSUME PipelineInv, BoundsInv, Next, NEW s \in Slot, slot' = [slot EXCEPT ![s] = Idle]
  PROVE  ThreadBounds'
  <1>1. Idle.att = 0 /\ Idle.pc = "idle" /\ Idle.d = 0
    BY DEF Idle
  <1> QED  BY <1>1, BoundMoves

LEMMA ThreadBoundsStep ==
  ASSUME PipelineInv, BoundsInv, Next
  PROVE  ThreadBounds'
  <1>1. CASE UNCHANGED slot
    <2>1. CASE Slot = {}
      BY <2>1 DEF ThreadBounds
    <2>2. CASE Slot # {}
      <3>1. PICK s \in Slot : TRUE
        BY <2>2
      <3>2. slot' = [slot EXCEPT ![s] = slot[s]] /\ ThreadBound(slot[s])
            /\ (slot[s].pc # "idle" => slot[s].d \in DOMAIN entries)
        BY <1>1, MineIsTask DEF PipelineInv, SlotInv, BoundsInv, ThreadBounds
      <3> QED  BY <3>2, BoundMoves DEF ThreadBound
    <2> QED  BY <2>1, <2>2
  <1>2. ASSUME NEW s \in Slot, NEW type \in TaskType, Dequeue(s, type) PROVE ThreadBounds'
    <2>1. PICK d \in DOMAIN entries : slot' = [slot EXCEPT ![s] = [Idle EXCEPT !.pc = "received", !.d = d]]
      BY <1>2, HandedOut DEF BoundsInv
    <2> DEFINE k == [Idle EXCEPT !.pc = "received", !.d = d]
    <2>2. k.att = 0 /\ k.pc = "received" /\ slot' = [slot EXCEPT ![s] = k]
      BY <2>1 DEF Idle
    <2> HIDE DEF k
    <2> QED  BY <2>2, BoundMoves
  <1>3. ASSUME NEW s \in Slot, ProceedDelivery(s) PROVE ThreadBounds'
    <2>1. slot[s].pc # "idle" /\ slot' = [slot EXCEPT ![s].pc = "leasing", ![s].att = EffectiveAttempt(s)]
      BY <1>3 DEF ProceedDelivery
    <2>2. EffectiveAttempt(s) \in Attempt
      BY <2>1, MineIsTask DEF EffectiveAttempt, BoundsInv, TableBounds, StreamBounds
    <2>3. "leasing" \in PC \ {"idle"} /\ "leasing" # "retrying"
      BY DEF PC
    <2> QED  BY <2>1, <2>2, <2>3, BoundGoesOn
  <1>4. ASSUME NEW s \in Slot, HandlerTransient(s) PROVE ThreadBounds'
    <2>1. slot[s].pc # "idle" /\ Raise(s, IF Exhausted(s) THEN "failing" ELSE "retrying", "error")
      BY <1>4 DEF HandlerTransient
    <2>2. "failing" \in PC \ {"idle"} /\ "retrying" \in PC \ {"idle"} /\ "error" \in Err
      BY DEF PC, Err
    <2>3. CASE Exhausted(s)
      BY <2>1, <2>2, <2>3, BoundGoesOn
    <2>4. CASE ~ Exhausted(s)
      BY <2>1, <2>2, <2>4, BoundGoesOn
    <2> QED  BY <2>3, <2>4
  <1>5. ASSUME NEW s \in Slot, slot[s].pc # "idle",
               NEW pc \in PC \ {"idle", "retrying"}, Go(s, pc) \/ \E err \in Err : Raise(s, pc, err)
        PROVE  ThreadBounds'
    BY <1>5, BoundGoesOn
  <1>6. ASSUME NEW s \in Slot, slot' = [slot EXCEPT ![s] = Idle] PROVE ThreadBounds'
    BY <1>6, BoundIdle
  <1>8. ASSUME NEW s \in Slot, CheckBeforeExecution(s) \/ PayloadUnreadable(s) PROVE ThreadBounds'
    <2>1. PICK ver : ver \in Nat /\ CheckKey(s, ver)
      <3>1. CASE CheckBeforeExecution(s)
        BY <3>1, MineIsTask DEF CheckBeforeExecution, CheckKey
      <3>2. CASE PayloadUnreadable(s)
        <4>1. FallbackVersion(tasks[Mine(s)].type) \in Nat
          BY DEF FallbackVersion, PipelineInv, DatabaseInv, Tables
        <4> QED  BY <3>2, <4>1 DEF PayloadUnreadable
      <3> QED  BY <1>8, <3>1, <3>2
    <2>2. PICK pc \in {"reuse", "handling"} : slot' = [slot EXCEPT ![s].ver = ver, ![s].pc = pc]
      BY <2>1 DEF CheckKey
    <2>3. pc \in PC \ {"idle"} /\ pc # "retrying" /\ slot[s].pc # "idle"
      BY <2>1, <2>2 DEF PC, CheckKey
    <2> QED  BY <2>1, <2>2, <2>3, BoundGoesOn
  <1>7. \/ UNCHANGED slot
        \/ \E s \in Slot :
             \/ \E type \in TaskType : Dequeue(s, type)
             \/ ProceedDelivery(s) \/ HandlerTransient(s)
             \/ CheckBeforeExecution(s) \/ PayloadUnreadable(s)
             \/ slot' = [slot EXCEPT ![s] = Idle]
             \/ /\ slot[s].pc # "idle"
                /\ \E pc \in PC \ {"idle", "retrying"} : Go(s, pc) \/ \E err \in Err : Raise(s, pc, err)
    <2>1. ASSUME NEW s \in Slot,
                 \/ Process(s) \/ DeferDelivery(s) \/ AckUnavailable(s) \/ DatabaseError(s)
                 \/ FinallyRaises(s) \/ Crash(s),
                 ~ ProceedDelivery(s), ~ HandlerTransient(s), ~ CheckBeforeExecution(s),
                 slot' # [slot EXCEPT ![s] = Idle]
          PROVE  /\ slot[s].pc # "idle"
                 /\ \E pc \in {"skip", "checking", "committed", "acking", "failing", "ackfail", "finally"} :
                      Go(s, pc) \/ \E err \in {"error", "duplicate", "keyword"} : Raise(s, pc, err)
      BY <2>1 DEF Process, SkipDelivery, DeferDelivery, AcquireLease, CommitStage,
             HandlerPermanent, RetryLater, FailWorkflow, ReleaseLease, Ack, AckUnavailable,
             DatabaseError, Finally, FinallyRaises, Crash, Leave
    <2>2. /\ {"skip", "checking", "committed", "acking", "failing", "ackfail", "finally"}
               \subseteq PC \ {"idle", "retrying"}
          /\ {"error", "duplicate", "keyword"} \subseteq Err
      BY DEF PC, Err
    <2>3. CASE Outside \/ \E action \in ApprovalAction : Approval(action)
      BY <2>3 DEF Outside, Enqueue, MarkPublished, PublisherFails, PublisherDies,
             PublisherRestarts, ExpireDeadLease, LoseLease, Approval
    <2>4. CASE \E s \in Slot : \/ \E type \in TaskType : Dequeue(s, type)
                               \/ Process(s) \/ DeferDelivery(s) \/ AckUnavailable(s)
                               \/ DatabaseError(s) \/ PayloadUnreadable(s)
                               \/ FinallyRaises(s) \/ Crash(s)
      BY <2>1, <2>2, <2>4, Zenon
    <2> QED  BY <2>3, <2>4 DEF Next, Outside
  <1> QED  BY <1>1, <1>2, <1>3, <1>4, <1>5, <1>6, <1>7, <1>8

LEMMA BoundsStep ==
  ASSUME PipelineInv, BoundsInv, Next
  PROVE  BoundsInv'
  BY TableBoundsStep, StreamBoundsStep, LeaseBoundsStep, ThreadBoundsStep, NotedBoundsStep
     DEF BoundsInv

------------------------------------------------------------------------------
\* While the pipeline moves, a scan's version goes stale or vouches for the
\* row still.
LEMMA PipelineBesideScan ==
  ASSUME ReconcileInv, PipelineStep
  PROVE  ReconcileInv'
  <1>1. PipelineInv' /\ InFlightInv' /\ BoundsInv'
    BY PipelineKept, InFlightStep, BoundsStep DEF ReconcileInv, PipelineStep
  <1>2. /\ version' = IF row' = row THEN version ELSE version + 1
        /\ old' = (old /\ row' = row) /\ scan' = scan /\ ScanInv
    BY DEF PipelineStep, ReconcileInv
  <1>3. version \in Nat \ {0} /\ scan.ver \in Nat /\ scan.ver <= version /\ scan \in ScanRecord
    BY <1>2 DEF ScanInv, ScanRecord
  <1>4. /\ version' \in Nat \ {0} /\ version <= version'
        /\ scan.ver = version' => version' = version /\ row' = row
    BY <1>2, <1>3
  <1>5. ScanInv'
    BY <1>2, <1>3, <1>4 DEF ScanInv
  <1> QED  BY <1>1, <1>5 DEF ReconcileInv

\* recreate_expected_outbox writes another row for the collection: a task
\* with a key that is there already.
LEMMA RepairTaskStep ==
  ASSUME ReconcileInv, RepairTask
  PROVE  ReconcileInv' /\ Keys' = Keys /\ UNCHANGED <<row, done, active>>
  <1> DEFINE t == [NewTask("COLLECT", 1) EXCEPT !.attempt = scan.attempt]
  <1>0. PICK n : n = Len(tasks) + 1
    OBVIOUS
  <1>1. /\ tasks \in Seq(TaskRecord) /\ scan \in ScanRecord /\ scan.task = "COLLECT"
        /\ scan.attempt # 0 /\ <<"COLLECT", 1>> \in Keys /\ InFlightInv /\ PipelineInv
    BY DEF ReconcileInv, PipelineInv, DatabaseInv, Tables, InFlightInv, ScanInv, RepairTask
  <1>2. /\ scan.attempt <= MaxAttempts["COLLECT"] /\ scan' = Resting
        /\ UNCHANGED <<row, done, artifacts, active, version, old, pub, alive, leases, slot, faults, misread>>
        /\ UNCHANGED <<entries, pending, acked>>
        /\ Recreate("COLLECT", scan.attempt)
    BY <1>1 DEF RepairTask, Recreate, streams, publisher, history
  <1>3. tasks' = Append(tasks, t) /\ outbox' = outbox \cup {n}
    <2>1. ResolveForTask("COLLECT", active, "COLLECT" = "GENERATE_SCENARIO") = 1
      BY DEF ResolveForTask
    <2> QED  BY <1>0, <1>2, <2>1 DEF Recreate
  <1>4. scan.attempt \in Nat
    <2>1. scan.attempt \in {0} \cup {a + 1 : a \in Attempt \cup {0}}
      BY <1>1 DEF ScanRecord
    <2> QED  BY <2>1, Attempts
  <1>5. scan.attempt \in Attempt
    BY <1>1, <1>2, <1>4, Attempts DEF TaskType
  <1>6. /\ t \in TaskRecord /\ t.type = "COLLECT" /\ t.ver = 1 /\ t.attempt = scan.attempt
        /\ t.status = "PENDING"
    BY <1>4 DEF NewTask, TaskRecord, TaskType
  <1> HIDE DEF t
  <1>7. /\ tasks' \in Seq(TaskRecord) /\ DOMAIN tasks' = DOMAIN tasks \cup {n} /\ n \notin DOMAIN tasks
        /\ tasks'[n] = t /\ \A j \in DOMAIN tasks : tasks'[j] = tasks[j]
    BY <1>0, <1>1, <1>3, <1>6
  <1>8. TasksKept /\ outbox' = outbox \cup (DOMAIN tasks' \ DOMAIN tasks)
    BY <1>3, <1>7 DEF TasksKept
  <1>9. Keys' = Keys
    <2>1. \A i \in DOMAIN tasks : Key(i)' = Key(i)
      BY <1>8 DEF TasksKept, Key
    <2>2. Key(n)' = <<"COLLECT", 1>>
      BY <1>6, <1>7 DEF Key
    <2> QED  BY <1>1, <1>7, <2>1, <2>2 DEF Keys
  <1>10. Advances
    BY <1>2, <1>8 DEF Advances
  <1>11. PipelineInv'
    <2>1. DatabaseInv'
      BY <1>1, <1>2, <1>8, <1>9, DatabaseKept
    <2>2. StreamInv'
      BY <1>1, <1>2, <1>8, <1>10, StreamsKept DEF PipelineInv, StreamInv
    <2>3. SlotInv'
      BY <1>1, <1>2, <1>10, ThreadsKept
    <2> QED  BY <2>1, <2>2, <2>3 DEF PipelineInv
  <1>12. InFlightInv'
    <2>1. \A i \in DOMAIN tasks' : tasks'[i].status \in IN_FLIGHT \/ Key(i)' \in done'
                                     \/ row'.state \in TERMINAL_STATES
      <3>1. tasks'[n].status \in IN_FLIGHT
        BY <1>6, <1>7 DEF IN_FLIGHT
      <3>2. \A i \in DOMAIN tasks : Key(i)' = Key(i)
        BY <1>8 DEF TasksKept, Key
      <3> QED  BY <1>1, <1>2, <1>7, <3>1, <3>2 DEF InFlightInv
    <2>2. tasks'[n].type # "GENERATE_SCENARIO"
      BY <1>6, <1>7
    <2> QED  BY <1>1, <1>7, <1>9, <2>1, <2>2 DEF InFlightInv
  <1>13. BoundsInv'
    <2>1. TableBounds' /\ StreamBounds' /\ LeaseBounds'
      BY <1>2, <1>5, <1>6, <1>7 DEF ReconcileInv, BoundsInv, TableBounds, StreamBounds, LeaseBounds
    <2>3. NotedBounds'
      BY <1>2, <1>7, Zenon DEF ReconcileInv, BoundsInv, NotedBounds
    <2>2. ASSUME NEW s \in Slot PROVE ThreadBound(slot[s])'
      <3>1. ThreadBound(slot[s])
        BY DEF ReconcileInv, BoundsInv, ThreadBounds
      <3>2. CASE slot[s].pc # "retrying"
        BY <1>2, <3>1, <3>2 DEF ThreadBound
      <3>3. CASE slot[s].pc = "retrying"
        <4>1. TaskOf(slot[s].d) \in DOMAIN tasks
          BY <1>1, <3>3, MineIsTask DEF Mine
        <4>2. tasks'[TaskOf(slot[s].d)] = tasks[TaskOf(slot[s].d)]
          BY <1>7, <4>1
        <4>3. TaskOf(slot[s].d)' = TaskOf(slot[s].d)
          BY <1>2 DEF TaskOf
        <4> QED  BY <1>2, <3>1, <4>2, <4>3 DEF ThreadBound
      <3> QED  BY <3>2, <3>3
    <2> QED  BY <2>1, <2>2, <2>3 DEF BoundsInv, ThreadBounds
  <1>14. ScanInv'
    BY <1>2, RestingOk DEF ReconcileInv, ScanInv
  <1> QED  BY <1>2, <1>9, <1>11, <1>12, <1>13, <1>14 DEF ReconcileInv

\* Otherwise the workflow fails, or the scan ends: a conflict is raised.
LEMMA RepairFailedStep ==
  ASSUME ReconcileInv, RepairFailed
  PROVE  /\ ReconcileInv' /\ Keys' = Keys /\ UNCHANGED <<done, active>>
         /\ \/ UNCHANGED row
            \/ row.state \in Working /\ row' = [row EXCEPT !.state = "FAILED"]
  <1>1. /\ UNCHANGED <<tasks, outbox, done, artifacts, active, pub, alive, leases, slot, faults, misread>>
        /\ UNCHANGED <<entries, pending, acked>> /\ scan.pc = "repair"
        /\ PipelineInv /\ InFlightInv /\ BoundsInv /\ ScanInv /\ tasks \in Seq(TaskRecord)
        /\ row \in [state : Reached, revision : Nat]
    BY DEF RepairFailed, streams, publisher, history, ReconcileInv, PipelineInv, DatabaseInv, Tables
  <1>2. CASE row.state = scan.state
    <2>1. row.state \in Working /\ version \in Nat \ {0}
      BY <1>1, <1>2 DEF ScanInv
    <2>2. ASSUME NEW d \in Lookup(row.state, "RECONCILIATION_REPAIR", row.revision, MaxRevisions)
          PROVE  d.to = "FAILED"
      BY <2>1, <2>2 DEF Lookup, Working, TRANSIENT_STATES, PRIMARY_MATRIX, FailureState, Move, Decide
    <2>3. row' = [row EXCEPT !.state = "FAILED"] /\ version' = version + 1 /\ old' = FALSE /\ scan' = Resting
      BY <1>2, <2>2 DEF RepairFailed
    <2>4. /\ row'.state = "FAILED" /\ row'.revision = row.revision
          /\ "FAILED" \in TERMINAL_STATES /\ row.state \notin TERMINAL_STATES
      BY <1>1, <2>1, <2>3 DEF Working, TERMINAL_STATES
    <2>5. TasksKept /\ Keys' = Keys
      BY <1>1, SameTasks
    <2>6. Advances
      BY <1>1, <2>4, <2>5 DEF Advances
    <2>7. PipelineInv'
      <3>1. DatabaseInv'
        BY <1>1, <2>3, <2>4, <2>5, DatabaseKept
      <3>2. StreamInv'
        BY <1>1, <2>6, StreamsKept DEF PipelineInv, StreamInv
      <3>3. SlotInv'
        BY <1>1, <2>6, ThreadsKept
      <3> QED  BY <3>1, <3>2, <3>3 DEF PipelineInv
    <2>8. InFlightInv'
      BY <1>1, <2>4, <2>5, InFlightKept
    <2>9. BoundsInv'
      BY <1>1, <2>4 DEF BoundsInv, TableBounds, StreamBounds, LeaseBounds, ThreadBounds,
             ThreadBound, TaskOf, NotedBounds
    <2>10. ScanInv'
      <3>1. version' \in Nat \ {0} /\ version' >= version
        BY <2>1, <2>3
      <3>2. old' \in BOOLEAN
        BY <2>3, Zenon
      <3> QED  BY <1>1, <2>3, <3>1, <3>2, RestingOk
    <2> QED  BY <1>1, <2>1, <2>3, <2>5, <2>7, <2>8, <2>9, <2>10 DEF ReconcileInv
  <1>3. CASE row.state # scan.state
    <2>1. UNCHANGED vars /\ UNCHANGED <<row, version, old>> /\ scan' = [Resting EXCEPT !.pc = "dead"]
      BY <1>1, <1>3 DEF RepairFailed, vars
    <2>2. PipelineInv' /\ InFlightInv' /\ BoundsInv' /\ Keys' = Keys
      BY <1>1, <2>1, SameState
    <2>3. ScanInv'
      BY <1>1, <2>1, RestingOk DEF ScanInv
    <2> QED  BY <1>1, <2>1, <2>2, <2>3 DEF ReconcileInv
  <1> QED  BY <1>2, <1>3

LEMMA ReconcileStep ==
  ASSUME ReconcileInv, [ReconcileNext]_reconcilerVars
  PROVE  ReconcileInv'
  <1>1. CASE PipelineStep
    BY <1>1, PipelineBesideScan
  <1>2. CASE Looks
    BY <1>2, LooksStep
  <1>3. CASE RepairTask
    BY <1>3, RepairTaskStep
  <1>4. CASE RepairFailed
    BY <1>4, RepairFailedStep
  <1>5. CASE UNCHANGED reconcilerVars
    <2>1. UNCHANGED vars /\ UNCHANGED <<version, old, scan, row>>
      BY <1>5 DEF reconcilerVars, vars
    <2>2. PipelineInv' /\ InFlightInv' /\ BoundsInv'
      BY <2>1, SameState DEF ReconcileInv
    <2>3. ScanInv'
      BY <2>1 DEF ReconcileInv, ScanInv
    <2> QED  BY <2>2, <2>3 DEF ReconcileInv
  <1> QED  BY <1>1, <1>2, <1>3, <1>4, <1>5 DEF ReconcileNext, Looks

LEMMA ReconcileStarts == ReconcileInit => ReconcileInv
  <1> SUFFICES ASSUME ReconcileInit PROVE ReconcileInv
    OBVIOUS
  <1>1. Init /\ version = 1 /\ old = FALSE /\ scan = Resting
    BY DEF ReconcileInit
  <1>2. PipelineInv /\ Keys = {<<"COLLECT", 1>>}
    BY <1>1, PipelineInit
  <1> DEFINE t == NewTask("COLLECT", 1)
  <1>3. t.type = "COLLECT" /\ t.status = "PENDING" /\ t.attempt = 1 /\ tasks = <<t>>
    BY <1>1 DEF NewTask, Init
  <1> HIDE DEF t
  <1>4. DOMAIN tasks = {1} /\ tasks[1] = t
    BY <1>3
  <1>5. InFlightInv
    BY <1>2, <1>3, <1>4 DEF InFlightInv, IN_FLIGHT
  <1>6. ScanInv
    <2>1. Resting \in ScanRecord /\ Resting.ver = 0 /\ Resting.pc = "idle"
      BY DEF Resting, ScanRecord, WorkflowState, TRANSIENT_STATES
    <2>2. old \in BOOLEAN
      BY <1>1, Zenon
    <2> QED  BY <1>1, <2>1, <2>2 DEF ScanInv
  <1>7. BoundsInv
    <2>1. TableBounds
      BY <1>1, <1>3, <1>4, Attempts, PipelineAssumption DEF Init, TableBounds
    <2>2. StreamBounds /\ LeaseBounds
      <3>1. DOMAIN entries = {} /\ pending = {} /\ pub = 0 /\ leases = {} /\ faults = 0
        BY <1>1 DEF Init
      <3> QED  BY <3>1, PipelineAssumption DEF StreamBounds, LeaseBounds
    <2>3. ThreadBounds
      <3>1. Idle.att = 0 /\ Idle.d = 0 /\ Idle.pc = "idle"
        BY DEF Idle
      <3>2. \A s \in Slot : slot[s] = Idle
        BY <1>1 DEF Init
      <3> QED  BY <3>1, <3>2 DEF ThreadBounds, ThreadBound
    <2>4. NotedBounds
      <3>1. alive = TRUE /\ misread = {}
        BY <1>1 DEF Init
      <3> QED  BY <3>1, Zenon DEF NotedBounds
    <2> QED  BY <2>1, <2>2, <2>3, <2>4 DEF BoundsInv
  <1> QED  BY <1>2, <1>5, <1>6, <1>7 DEF ReconcileInv

LEMMA ReconcileInvariant == ReconcileSpec => []ReconcileInv
  <1>1. ReconcileInv /\ [ReconcileNext]_reconcilerVars => ReconcileInv'
    BY ReconcileStep
  <1> QED  BY <1>1, ReconcileStarts, PTL DEF ReconcileSpec

------------------------------------------------------------------------------
\* What is known of the elements is known of the sequence.
LEMMA SeqOf ==
  ASSUME NEW A, NEW B, NEW q \in Seq(A), \A i \in DOMAIN q : q[i] \in B
  PROVE  q \in Seq(B)
  <1>1. Len(q) \in Nat /\ DOMAIN q = 1..Len(q) /\ q = [i \in 1..Len(q) |-> q[i]]
    OBVIOUS
  <1>2. q \in [1..Len(q) -> B]
    BY <1>1
  <1> QED  BY <1>1, <1>2

\* The types, the revision cap, the attempts within the configured maximum,
\* the streams in which nothing is both pending and acknowledged, and what a
\* scan holds.
THEOREM ReconcilerTypes == ReconcileSpec => []ReconcilerTypeOK
  <1>1. ASSUME ReconcileInv PROVE ReconcilerTypeOK
    <2>0. PipelineInv /\ BoundsInv /\ ScanInv /\ Attempt \subseteq Nat \ {0}
      BY <1>1, Attempts DEF ReconcileInv
    <2>1. row \in [state : WorkflowState, revision : 0..MaxRevisions]
      <3>1. row \in [state : Reached, revision : Nat] /\ row.revision <= MaxRevisions /\ MaxRevisions \in Nat
        BY <2>0, PipelineAssumption DEF PipelineInv, DatabaseInv, Tables, BoundsInv, TableBounds
      <3>2. Reached \subseteq WorkflowState
        BY DEF Reached, Working, WorkflowState, PAUSE_STATES, TRANSIENT_STATES
      <3> QED  BY <3>1, <3>2
    <2>2. tasks \in Seq([type : TaskType, ver : Nat, attempt : Attempt,
                         status : {"PENDING", "DISPATCHED", "COMPLETED", "FAILED", "DEAD_LETTER"}])
      <3>1. tasks \in Seq(TaskRecord) /\ \A i \in DOMAIN tasks : tasks[i].attempt \in Attempt
        BY <2>0 DEF PipelineInv, DatabaseInv, Tables, BoundsInv, TableBounds
      <3>2. \A i \in DOMAIN tasks :
              tasks[i] \in [type : TaskType, ver : Nat, attempt : Attempt,
                            status : {"PENDING", "DISPATCHED", "COMPLETED", "FAILED", "DEAD_LETTER"}]
        <4> TAKE i \in DOMAIN tasks
        <4>1. tasks[i] \in TaskRecord /\ tasks[i].attempt \in Attempt
          BY <3>1
        <4> QED  BY <4>1 DEF TaskRecord
      <3> QED  BY <3>1, <3>2, SeqOf
    <2>3. entries \in Seq([task : DOMAIN tasks, attempt : Attempt])
      <3>1. /\ entries \in Seq([task : Nat, attempt : Nat])
            /\ \A d \in DOMAIN entries : entries[d].task \in DOMAIN tasks /\ entries[d].attempt \in Attempt
        BY <2>0 DEF PipelineInv, StreamInv, BoundsInv, StreamBounds, TaskOf
      <3>2. \A d \in DOMAIN entries : entries[d] \in [task : DOMAIN tasks, attempt : Attempt]
        <4> TAKE d \in DOMAIN entries
        <4> DEFINE E == [task : Nat, attempt : Nat]
        <4>1. entries \in Seq(E)
          BY <3>1
        <4> HIDE DEF E
        <4>2. entries[d] \in E
          BY <4>1
        <4> QED  BY <3>1, <4>2 DEF E
      <3> QED  BY <3>1, <3>2, SeqOf
    <2>4. done \subseteq TaskType \X Nat
      <3>1. \A i \in DOMAIN tasks : Key(i) \in TaskType \X Nat
        <4> TAKE i \in DOMAIN tasks
        <4>1. tasks[i] \in TaskRecord
          BY <2>0 DEF PipelineInv, DatabaseInv, Tables
        <4> QED  BY <4>1 DEF TaskRecord, Key
      <3> QED  BY <2>0, <3>1 DEF PipelineInv, DatabaseInv, Tables, Keys
    <2>5. slot \in [Slot -> [pc : PC, d : DOMAIN entries \cup {0}, att : Attempt \cup {0}, ver : Nat, err : Err]]
      <3>1. slot \in [Slot -> Thread]
        BY <2>0 DEF PipelineInv, SlotInv, Thread
      <3>2. \A s \in Slot : slot[s].d \in DOMAIN entries \cup {0} /\ slot[s].att \in Attempt \cup {0}
        BY <2>0, MineIsTask DEF BoundsInv, ThreadBounds, ThreadBound
      <3> QED  BY <3>1, <3>2 DEF Thread
    <2>6. /\ outbox \subseteq DOMAIN tasks /\ pub \in DOMAIN tasks \cup {0}
          /\ pending \subseteq DOMAIN entries /\ acked \subseteq DOMAIN entries
          /\ pending \cap acked = {} /\ active \in Nat /\ faults \in 0..MaxFaults
          /\ leases \subseteq [task : DOMAIN tasks, holder : Slot \cup {"dead", "renewed"}]
          /\ artifacts \subseteq {"COLLECTED_STORIES", "TOPIC_SELECTION", "SCENARIO",
                                  "CRITIC_REVIEW"} \X Nat
      BY <2>0 DEF PipelineInv, DatabaseInv, Tables, StreamInv, BoundsInv, TableBounds,
             StreamBounds, LeaseBounds
    <2>8. alive \in BOOLEAN /\ misread \subseteq DOMAIN tasks
      BY <2>0 DEF BoundsInv, NotedBounds
    <2>7. TypeOK
      BY <2>1, <2>2, <2>3, <2>4, <2>5, <2>6, <2>8 DEF TypeOK
    <2> QED  BY <2>0, <2>7 DEF ReconcilerTypeOK, ScanInv, ScanRecord
  <1>2. ReconcileInv => ReconcilerTypeOK
    BY <1>1
  <1> QED  BY <1>2, ReconcileInvariant, PTL

\* Repairs do not break exactly-once: with a scanner that writes tasks again
\* or fails workflows between any two steps of the workers, the stages still
\* take effect one after the other, each once.
THEOREM RepairsKeepStages == ReconcileSpec => ImplementsStages
  <1>1. ReconcileInit => Stages!Init
    <2> SUFFICES ASSUME ReconcileInit PROVE Stages!Init
      OBVIOUS
    <2>1. Keys = {<<"COLLECT", 1>>} /\ row.state = "COLLECTING" /\ row.revision = 0
      BY PipelineInit DEF ReconcileInit, Init
    <2> QED  BY <2>1 DEF ReconcileInit, Init, Stages!Init, Keys
  <1>2. ASSUME ReconcileInv, [ReconcileNext]_reconcilerVars
        PROVE  [Stages!Next]_(Stages!vars)
    <2>0. PipelineInv /\ row \in [state : Reached, revision : Nat]
      BY <1>2 DEF ReconcileInv, PipelineInv, DatabaseInv, Tables
    <2>1. ASSUME Keys' = Keys, UNCHANGED <<row, done, active>> PROVE UNCHANGED Stages!vars
      BY <2>1 DEF Stages!vars, Keys
    <2>2. CASE PipelineStep
      BY <2>0, <2>2, StepIsAbstract DEF PipelineStep
    <2>3. CASE Looks
      BY <1>2, <2>0, <2>3, LooksStep, StepIsAbstract
    <2>4. CASE RepairTask
      BY <1>2, <2>1, <2>4, RepairTaskStep
    <2>5. CASE RepairFailed
      <3>1. /\ Keys' = Keys /\ UNCHANGED <<done, active>>
            /\ \/ UNCHANGED row
               \/ row.state \in Working /\ row' = [row EXCEPT !.state = "FAILED"]
        BY <1>2, <2>5, RepairFailedStep
      <3>2. CASE UNCHANGED row
        BY <2>1, <3>1, <3>2
      <3>3. CASE row.state \in Working /\ row' = [row EXCEPT !.state = "FAILED"]
        <4>1. row'.state = "FAILED" /\ row'.revision = row.revision
          BY <2>0, <3>3
        <4>2. Stages!Next
          BY <3>1, <3>3, <4>1 DEF Stages!Next, Stages!Fail, Stages!Working, Working, Keys
        <4> QED  BY <4>2
      <3> QED  BY <3>1, <3>2, <3>3
    <2>6. CASE UNCHANGED reconcilerVars
      BY <2>0, <2>6, StepIsAbstract DEF reconcilerVars
    <2> QED  BY <1>2, <2>2, <2>3, <2>4, <2>5, <2>6 DEF ReconcileNext, Looks
  <1>3. ReconcileInv /\ [ReconcileNext]_reconcilerVars => [Stages!Next]_(Stages!vars)
    BY <1>2
  <1> QED  BY <1>1, <1>3, ReconcileInvariant, PTL DEF ReconcileSpec, ImplementsStages, Stages!Spec

\* Acknowledgements beside a scanner: a delivery is still acknowledged only
\* when its task took effect, the workflow is over, or
\* _payload_logical_version swallowed the error that hid its version.
THEOREM RepairsKeepAcks == ReconcileSpec => []AckedIsSettled
  <1>1. ReconcileInv => AckedIsSettled
    BY InvSettles DEF ReconcileInv
  <1> QED  BY <1>1, ReconcileInvariant, PTL

\* No work is lost beside a scanner: what it writes or fails leaves an open
\* task for every working state, published or to be published, or passed over
\* because its payload could not be read.
THEOREM RepairsKeepWork == ReconcileSpec => []WorkNotLost
  <1>1. ReconcileInv => WorkNotLost
    BY InvKeepsWork DEF ReconcileInv
  <1> QED  BY <1>1, ReconcileInvariant, PTL

------------------------------------------------------------------------------
\* Two rows of the task table with the same idempotency key are the
\* collection's: recreate_expected_outbox never doubles a task that calls a
\* model.
OnlyCollectionTwice ==
  \A i, j \in DOMAIN tasks : i # j /\ Key(i) = Key(j) => tasks[i].type = "COLLECT"

\* Rows that keep their keys, and at most one with a new key.
LEMMA NoOtherTwice ==
  ASSUME OnlyCollectionTwice, TasksKept, NEW new, WrittenRows(new),
         new \cap Keys = {}
  PROVE  OnlyCollectionTwice'
  <1>1. \A i \in DOMAIN tasks : Key(i)' = Key(i) /\ Key(i) \in Keys
    BY DEF TasksKept, Key, Keys
  <1>2. \A j \in DOMAIN tasks' \ DOMAIN tasks : Key(j)' \in new
    BY DEF WrittenRows, Key
  <1>3. \A i, j \in DOMAIN tasks' \ DOMAIN tasks : i = j
    BY DEF WrittenRows
  <1> SUFFICES ASSUME NEW i \in DOMAIN tasks', NEW j \in DOMAIN tasks', i # j, Key(i)' = Key(j)'
               PROVE  tasks'[i].type = "COLLECT"
    BY DEF OnlyCollectionTwice
  <1>4. i \in DOMAIN tasks /\ j \in DOMAIN tasks
    BY <1>1, <1>2, <1>3
  <1> QED  BY <1>1, <1>4 DEF OnlyCollectionTwice, TasksKept

LEMMA SameRowsTwice ==
  ASSUME OnlyCollectionTwice, TasksKept, DOMAIN tasks' = DOMAIN tasks
  PROVE  OnlyCollectionTwice'
  <1>1. \A i \in DOMAIN tasks : Key(i)' = Key(i)
    BY DEF TasksKept, Key
  <1> QED  BY <1>1 DEF OnlyCollectionTwice, TasksKept

LEMMA PipelineTwice ==
  ASSUME PipelineInv, OnlyCollectionTwice, Next
  PROVE  OnlyCollectionTwice'
  <1>0. tasks \in Seq(TaskRecord)
    BY DEF PipelineInv, DatabaseInv, Tables
  <1>1. CASE Outside \/ \E s \in Slot : Delivers(s)
    <2>1. TasksKept /\ DOMAIN tasks' = DOMAIN tasks
      BY <1>0, <1>1, DeliveriesKeepRows, SameTasks, RetryStep
    <2> QED  BY <2>1, SameRowsTwice
  <1>2. CASE \E s \in Slot : FailWorkflow(s)
    BY <1>2, FailStep, SameRowsTwice
  <1>3. CASE \E s \in Slot : \E signal \in HandlerSignals(tasks[Mine(s)].type) : CommitStage(s, signal)
    <2>1. PICK new : TasksKept /\ WrittenRows(new) /\ new \cap Keys = {}
      BY <1>3, StageEffects, FreshKeys DEF Effect
    <2> QED  BY <2>1, NoOtherTwice
  <1>4. CASE \E action \in ApprovalAction : Approval(action)
    <2>1. \/ TasksKept /\ DOMAIN tasks' = DOMAIN tasks
          \/ \E new : TasksKept /\ WrittenRows(new) /\ new \cap Keys = {}
      BY <1>0, <1>4, ApprovalStep, SameTasks
    <2> QED  BY <2>1, NoOtherTwice, SameRowsTwice
  <1> QED  BY <1>1, <1>2, <1>3, <1>4, StepsOf

\* A scan of any age, whatever the workers did since it listed the workflow,
\* writes again the collection's task and no other.
THEOREM OnlyCollectionIsRepeated == ReconcileSpec => []OnlyCollectionTwice
  <1>1. ReconcileInit => OnlyCollectionTwice
    <2>1. ReconcileInit => \A i, j \in DOMAIN tasks : i = j
      BY DEF ReconcileInit, Init
    <2> QED  BY <2>1 DEF OnlyCollectionTwice
  <1>2. ASSUME ReconcileInv, OnlyCollectionTwice, [ReconcileNext]_reconcilerVars
        PROVE  OnlyCollectionTwice'
    <2>1. CASE PipelineStep
      BY <1>2, <2>1, PipelineTwice DEF PipelineStep, ReconcileInv
    <2>2. CASE UNCHANGED tasks
      BY <1>2, <2>2 DEF OnlyCollectionTwice, Key
    <2>3. CASE RepairTask
      <3>1. tasks \in Seq(TaskRecord) /\ scan.task = "COLLECT"
        BY <1>2, <2>3 DEF ReconcileInv, PipelineInv, DatabaseInv, Tables, ScanInv, RepairTask
      <3> DEFINE ver == ResolveForTask("COLLECT", active, FALSE)
                 t == [NewTask("COLLECT", ver) EXCEPT !.attempt = scan.attempt]
      <3>2. tasks' = Append(tasks, t)
        BY <2>3, <3>1 DEF RepairTask, Recreate, ResolveForTask
      <3>3. t.type = "COLLECT"
        BY DEF NewTask
      <3> HIDE DEF t
      <3>4. /\ DOMAIN tasks' = DOMAIN tasks \cup {Len(tasks) + 1}
            /\ \A i \in DOMAIN tasks : tasks'[i] = tasks[i]
            /\ tasks'[Len(tasks) + 1].type = "COLLECT"
        BY <3>1, <3>2, <3>3
      <3> SUFFICES ASSUME NEW i \in DOMAIN tasks', NEW j \in DOMAIN tasks', i # j, Key(i)' = Key(j)'
                   PROVE  tasks'[i].type = "COLLECT"
        BY DEF OnlyCollectionTwice
      <3>5. tasks'[i].type = tasks'[j].type /\ tasks'[i].ver = tasks'[j].ver
        BY DEF Key
      <3>6. CASE i \in DOMAIN tasks /\ j \in DOMAIN tasks
        BY <1>2, <3>4, <3>5, <3>6 DEF OnlyCollectionTwice, Key
      <3>7. CASE i \notin DOMAIN tasks \/ j \notin DOMAIN tasks
        BY <3>4, <3>5, <3>7
      <3> QED  BY <3>6, <3>7
    <2>4. PipelineStep \/ RepairTask \/ UNCHANGED tasks
      BY <1>2 DEF ReconcileNext, Age, ListStuck, JudgeStuck, ListExpected, JudgeExpected, Refresh,
             RepairFailed, ScanError, reconcilerVars, vars
    <2> QED  BY <2>1, <2>2, <2>3, <2>4
  <1>3. ReconcileInv /\ OnlyCollectionTwice /\ [ReconcileNext]_reconcilerVars => OnlyCollectionTwice'
    BY <1>2
  <1> QED  BY <1>1, <1>3, ReconcileInvariant, PTL DEF ReconcileSpec

------------------------------------------------------------------------------
\* The scanner takes nothing back either, and a repair that was decided while
\* the workflow was at work leaves alone one that is over.
LEMMA RepairKeepsAll ==
  ASSUME ReconcileInv, [ReconcileNext]_reconcilerVars
  PROVE  OverIsOver /\ NothingTakenBack
  <1>0. /\ PipelineInv /\ row \in [state : Reached, revision : Nat] /\ active \in Nat
        /\ Working \cap TERMINAL_STATES = {}
    BY DEF ReconcileInv, PipelineInv, DatabaseInv, Tables, Working, TERMINAL_STATES
  <1>1. CASE [Next]_vars
    BY <1>0, <1>1, StepKeepsAll
  <1>2. CASE RepairTask
    <2>1. Keys' = Keys /\ UNCHANGED <<row, done, artifacts, active, streams>>
      BY <1>2, RepairTaskStep DEF RepairTask, Recreate
    <2> QED  BY <1>0, <2>1 DEF OverIsOver, NothingTakenBack, streams
  <1>3. CASE RepairFailed
    <2>1. /\ Keys' = Keys /\ UNCHANGED <<done, artifacts, active, streams>>
          /\ \/ UNCHANGED row
             \/ row.state \in Working /\ row' = [row EXCEPT !.state = "FAILED"]
      BY <1>3, RepairFailedStep DEF RepairFailed
    <2>2. /\ row.state \in TERMINAL_STATES => UNCHANGED row
          /\ row'.revision = row.revision /\ row.revision \in Nat
      BY <1>0, <2>1
    <2> QED  BY <1>0, <2>1, <2>2 DEF OverIsOver, NothingTakenBack, streams
  <1>4. [Next]_vars \/ RepairTask \/ RepairFailed
    BY DEF ReconcileNext, PipelineStep, Age, ListStuck, JudgeStuck, ListExpected, JudgeExpected,
       Refresh, ScanError, reconcilerVars
  <1> QED  BY <1>1, <1>2, <1>3, <1>4

\* A terminal state is final beside a scanner that decides from old reads:
\* scan_and_repair revives no workflow and gives none that is over a new key
\* (it may write the collection's task again).
THEOREM RepairsKeepFinalStates == ReconcileSpec => [][OverIsOver]_reconcilerVars
  <1>1. ReconcileInv /\ [ReconcileNext]_reconcilerVars => [OverIsOver]_reconcilerVars
    BY RepairKeepsAll
  <1> QED  BY <1>1, ReconcileInvariant, PTL DEF ReconcileSpec

\* No repair takes back what was stored, claimed, published or acknowledged.
THEOREM RepairsTakeNothingBack == ReconcileSpec => [][NothingTakenBack]_reconcilerVars
  <1>1. ReconcileInv /\ [ReconcileNext]_reconcilerVars => [NothingTakenBack]_reconcilerVars
    BY RepairKeepsAll
  <1> QED  BY <1>1, ReconcileInvariant, PTL DEF ReconcileSpec
==============================================================================
