------------------------ MODULE WorkerPipelineProofs -------------------------
(***************************************************************************)
(* The worker pipeline for every number of threads, attempts, revisions,   *)
(* rounds and faults: deliveries are acknowledged only when their task is  *)
(* settled, no work is lost, every stage finds what it needs, and however  *)
(* often a task is delivered its stage takes effect once.                  *)
(***************************************************************************)
EXTENDS WorkerPipeline, WellFoundedInduction, TLAPS

\* The states between two transactions: the bridges leave no other.
Working == {"COLLECTING", "SELECTING_TOPIC", "GENERATING_SCENARIO", "REVIEWING"}
Reached == Working \cup {"AWAITING_HUMAN_APPROVAL"} \cup TERMINAL_STATES

\* The task whose completion moves a workflow out of a working state.
CurrentIn(state, scenario) ==
  CASE state = "COLLECTING"          -> <<"COLLECT", 1>>
    [] state = "SELECTING_TOPIC"     -> <<"SELECT_TOPIC", 1>>
    [] state = "GENERATING_SCENARIO" -> <<"GENERATE_SCENARIO", scenario + 1>>
    [] state = "REVIEWING"           -> <<"REVIEW_SCENARIO", scenario>>

TaskRecord ==
  [type : TaskType, ver : Nat, attempt : Nat,
   status : {"PENDING", "DISPATCHED", "COMPLETED", "FAILED", "DEAD_LETTER"}]

Keys == {Key(i) : i \in DOMAIN tasks}

Tables ==
  /\ row \in [state : Reached, revision : Nat]
  /\ tasks \in Seq(TaskRecord) /\ done \subseteq Keys /\ active \in Nat
  /\ row.state \in {"COLLECTING", "SELECTING_TOPIC"} => active = 0
  /\ row.state \in {"REVIEWING", "AWAITING_HUMAN_APPROVAL"} => active >= 1

\* Which tasks there are: what comes next has not been dispatched yet.
NumberedAt(v) ==
  /\ <<"COLLECT", v>> \in Keys => v = 1
  /\ <<"SELECT_TOPIC", v>> \in Keys => v = 1 /\ row.state # "COLLECTING"
  /\ <<"GENERATE_SCENARIO", v>> \in Keys =>
       /\ row.state \notin {"COLLECTING", "SELECTING_TOPIC"}
       /\ v >= 1 /\ v <= active + 1
       /\ row.state \in {"REVIEWING", "AWAITING_HUMAN_APPROVAL"} => v <= active
  /\ <<"REVIEW_SCENARIO", v>> \in Keys =>
       row.state \notin {"COLLECTING", "SELECTING_TOPIC"} /\ v >= 1 /\ v <= active
Numbered == \A v \in Nat : NumberedAt(v)

\* Until a workflow is over, all of its tasks took effect but the one of the
\* state it works in.
CurrentIsOpen ==
  /\ row.state \in Working => CurrentIn(row.state, active) \in Keys
  /\ row.state \notin TERMINAL_STATES =>
       \A k \in Keys : k \notin done <=> row.state \in Working /\ k = CurrentIn(row.state, active)

\* What took effect has stored its artifact, and so has the stage before
\* every task.
Stores(type, ver) == <<ArtifactType(type), IF type = "GENERATE_SCENARIO" THEN ver ELSE 1>>
Stored ==
  /\ \A t \in TaskType, v \in Nat : <<t, v>> \in done => Stores(t, v) \in artifacts
  /\ \A t \in TaskType, v \in Nat : <<t, v>> \in Keys => Prerequisite(t)
  /\ row.state \in {"GENERATING_SCENARIO", "REVIEWING", "AWAITING_HUMAN_APPROVAL"} =>
       <<"TOPIC_SELECTION", 1>> \in artifacts

\* Once there is a scenario, the first one was generated and every older one
\* was reviewed, also in a workflow that is over.
Past ==
  /\ active >= 1 => <<"GENERATE_SCENARIO", 1>> \in done
  /\ \A v \in Nat : <<"REVIEW_SCENARIO", v>> \in Keys /\ v < active => <<"REVIEW_SCENARIO", v>> \in done

DatabaseInv == Tables /\ Numbered /\ CurrentIsOpen /\ Stored /\ Past

\* Every task is to be published or was added to its stream.
Settled(d) ==
  Key(TaskOf(d)) \in done \/ row.state \in TERMINAL_STATES \/ TaskOf(d) \in misread
StreamInv ==
  /\ outbox \subseteq DOMAIN tasks
  /\ entries \in Seq([task : Nat, attempt : Nat])
  /\ \A d \in DOMAIN entries : TaskOf(d) \in DOMAIN tasks
  /\ pending \subseteq DOMAIN entries /\ acked \subseteq DOMAIN entries
  /\ \A i \in DOMAIN tasks : i \in outbox \/ \E d \in DOMAIN entries : TaskOf(d) = i
  /\ pub # 0 => \E d \in DOMAIN entries : TaskOf(d) = pub
  /\ \A d \in acked : Settled(d)

\* Where a thread is says what has become of its delivery.  One that handles
\* its task under another version's key will be refused by the artifact table.
RightVersion(k) == k.ver = tasks[TaskOf(k.d)].ver \/ ArtifactOf(TaskOf(k.d)) \in artifacts
SlotOK(k) ==
  /\ k.pc # "idle" => k.d \in DOMAIN entries
  /\ k.pc \in {"committed", "acking"} => Key(TaskOf(k.d)) \in done
  /\ k.pc \in {"skip", "reuse"} => Settled(k.d)
  /\ k.pc = "handling" => RightVersion(k)
  /\ k.pc = "ackfail" => row.state \in TERMINAL_STATES
SlotInv ==
  /\ slot \in [Slot -> [pc : PC, d : Nat, att : Nat, ver : Nat, err : Err]]
  /\ \A s \in Slot : SlotOK(slot[s])

PipelineInv == DatabaseInv /\ StreamInv /\ SlotInv

------------------------------------------------------------------------------
\* The decisions of the matrix that a stage of the pipeline may take.
LEMMA StageDecisions ==
  ASSUME NEW r \in Nat, NEW m \in Nat
  PROVE  /\ Lookup("COLLECTING", "STAGE_COMPLETED", r, m) =
              {Decide("COLLECTING", "COLLECTED", "SELECT_TOPIC", FALSE, FALSE)}
         /\ Lookup("COLLECTED", "STAGE_COMPLETED", r, m) =
              {Decide("COLLECTED", "SELECTING_TOPIC", NoTask, FALSE, FALSE)}
         /\ Lookup("SELECTING_TOPIC", "STAGE_COMPLETED", r, m) =
              {Decide("SELECTING_TOPIC", "TOPIC_SELECTED", "GENERATE_SCENARIO", FALSE, FALSE)}
         /\ Lookup("SELECTING_TOPIC", "NO_SUITABLE_TOPIC", r, m) =
              {Decide("SELECTING_TOPIC", "NO_SUITABLE_TOPIC", NoTask, FALSE, FALSE)}
         /\ Lookup("TOPIC_SELECTED", "STAGE_COMPLETED", r, m) =
              {Decide("TOPIC_SELECTED", "GENERATING_SCENARIO", NoTask, FALSE, FALSE)}
         /\ Lookup("GENERATING_SCENARIO", "STAGE_COMPLETED", r, m) =
              {Decide("GENERATING_SCENARIO", "SCENARIO_GENERATED", "REVIEW_SCENARIO",
                      FALSE, FALSE)}
         /\ Lookup("SCENARIO_GENERATED", "STAGE_COMPLETED", r, m) =
              {Decide("SCENARIO_GENERATED", "REVIEWING", NoTask, FALSE, FALSE)}
         /\ Lookup("REVIEWING", "CRITIC_PASS", r, m) =
              {Decide("REVIEWING", "REVIEW_PASSED", NoTask, FALSE, FALSE)}
         /\ Lookup("REVIEW_PASSED", "STAGE_COMPLETED", r, m) =
              {Decide("REVIEW_PASSED", "AWAITING_HUMAN_APPROVAL", NoTask, FALSE, FALSE)}
         /\ Lookup("REVIEWING", "CRITIC_REVISE", r, m) =
              IF r >= m THEN {Decide("REVIEWING", "REVIEW_FAILED", NoTask, FALSE, FALSE)}
              ELSE {Decide("REVIEWING", "REVISION_REQUIRED", NoTask, TRUE, FALSE)}
         /\ Lookup("REVISION_REQUIRED", "STAGE_COMPLETED", r, m) =
              {Decide("REVISION_REQUIRED", "GENERATING_SCENARIO", "GENERATE_SCENARIO",
                      FALSE, TRUE)}
  <1>1. \A signal \in {"STAGE_COMPLETED", "NO_SUITABLE_TOPIC", "CRITIC_PASS"} :
          \A state \in TRANSIENT_STATES :
            Lookup(state, signal, r, m) = {d \in PRIMARY_MATRIX(signal) : d.from = state}
    BY DEF Lookup, FailureState
  <1>2. PRIMARY_MATRIX("STAGE_COMPLETED") =
          {Decide("COLLECTING", "COLLECTED", "SELECT_TOPIC", FALSE, FALSE),
           Decide("COLLECTED", "SELECTING_TOPIC", NoTask, FALSE, FALSE),
           Decide("SELECTING_TOPIC", "TOPIC_SELECTED", "GENERATE_SCENARIO", FALSE, FALSE),
           Decide("TOPIC_SELECTED", "GENERATING_SCENARIO", NoTask, FALSE, FALSE),
           Decide("GENERATING_SCENARIO", "SCENARIO_GENERATED", "REVIEW_SCENARIO", FALSE, FALSE),
           Decide("SCENARIO_GENERATED", "REVIEWING", NoTask, FALSE, FALSE),
           Decide("REVISION_REQUIRED", "GENERATING_SCENARIO", "GENERATE_SCENARIO", FALSE, TRUE),
           Decide("REVIEW_PASSED", "AWAITING_HUMAN_APPROVAL", NoTask, FALSE, FALSE)}
    BY DEF PRIMARY_MATRIX, Move, MoveAndDispatch
  <1>3. /\ PRIMARY_MATRIX("NO_SUITABLE_TOPIC") =
             {Decide("SELECTING_TOPIC", "NO_SUITABLE_TOPIC", NoTask, FALSE, FALSE)}
        /\ PRIMARY_MATRIX("CRITIC_PASS") =
             {Decide("REVIEWING", "REVIEW_PASSED", NoTask, FALSE, FALSE)}
    BY DEF PRIMARY_MATRIX, Move
  <1>5. {"COLLECTING", "COLLECTED", "SELECTING_TOPIC", "TOPIC_SELECTED", "GENERATING_SCENARIO",
         "SCENARIO_GENERATED", "REVIEWING", "REVIEW_PASSED", "REVISION_REQUIRED"}
          \subseteq TRANSIENT_STATES
    BY DEF TRANSIENT_STATES
  <1>6. Lookup("REVIEWING", "CRITIC_REVISE", r, m) =
              IF r >= m THEN {Decide("REVIEWING", "REVIEW_FAILED", NoTask, FALSE, FALSE)}
              ELSE {Decide("REVIEWING", "REVISION_REQUIRED", NoTask, TRUE, FALSE)}
    BY <1>5 DEF Lookup, ReviseDecision, Move
  <1>7. ASSUME NEW state \in {"COLLECTING", "COLLECTED", "SELECTING_TOPIC", "TOPIC_SELECTED",
                              "GENERATING_SCENARIO", "SCENARIO_GENERATED", "REVIEW_PASSED",
                              "REVISION_REQUIRED"}
        PROVE  Lookup(state, "STAGE_COMPLETED", r, m) =
                 {d \in PRIMARY_MATRIX("STAGE_COMPLETED") : d.from = state}
    BY <1>1, <1>5
  <1>8. /\ Lookup("SELECTING_TOPIC", "NO_SUITABLE_TOPIC", r, m) =
             {Decide("SELECTING_TOPIC", "NO_SUITABLE_TOPIC", NoTask, FALSE, FALSE)}
        /\ Lookup("REVIEWING", "CRITIC_PASS", r, m) =
             {Decide("REVIEWING", "REVIEW_PASSED", NoTask, FALSE, FALSE)}
    BY <1>1, <1>3, <1>5 DEF Decide
  <1>9. Lookup("COLLECTING", "STAGE_COMPLETED", r, m) =
              {Decide("COLLECTING", "COLLECTED", "SELECT_TOPIC", FALSE, FALSE)}
    BY <1>2, <1>7 DEF Decide
  <1>10. Lookup("COLLECTED", "STAGE_COMPLETED", r, m) =
              {Decide("COLLECTED", "SELECTING_TOPIC", NoTask, FALSE, FALSE)}
    BY <1>2, <1>7 DEF Decide
  <1>11. Lookup("SELECTING_TOPIC", "STAGE_COMPLETED", r, m) =
              {Decide("SELECTING_TOPIC", "TOPIC_SELECTED", "GENERATE_SCENARIO", FALSE, FALSE)}
    BY <1>2, <1>7 DEF Decide
  <1>12. Lookup("TOPIC_SELECTED", "STAGE_COMPLETED", r, m) =
              {Decide("TOPIC_SELECTED", "GENERATING_SCENARIO", NoTask, FALSE, FALSE)}
    BY <1>2, <1>7 DEF Decide
  <1>13. Lookup("GENERATING_SCENARIO", "STAGE_COMPLETED", r, m) =
              {Decide("GENERATING_SCENARIO", "SCENARIO_GENERATED", "REVIEW_SCENARIO",
                      FALSE, FALSE)}
    BY <1>2, <1>7 DEF Decide
  <1>14. Lookup("SCENARIO_GENERATED", "STAGE_COMPLETED", r, m) =
              {Decide("SCENARIO_GENERATED", "REVIEWING", NoTask, FALSE, FALSE)}
    BY <1>2, <1>7 DEF Decide
  <1>15. Lookup("REVIEW_PASSED", "STAGE_COMPLETED", r, m) =
              {Decide("REVIEW_PASSED", "AWAITING_HUMAN_APPROVAL", NoTask, FALSE, FALSE)}
    BY <1>2, <1>7 DEF Decide
  <1>16. Lookup("REVISION_REQUIRED", "STAGE_COMPLETED", r, m) =
              {Decide("REVISION_REQUIRED", "GENERATING_SCENARIO", "GENERATE_SCENARIO",
                      FALSE, TRUE)}
    BY <1>2, <1>7 DEF Decide
  <1> QED
    BY <1>6, <1>8, <1>9, <1>10, <1>11, <1>12, <1>13, <1>14, <1>15, <1>16

\* The error signals end a workflow.
LEMMA FailureDecisions ==
  ASSUME NEW state \in Working, NEW signal \in {"RETRIES_EXHAUSTED", "UNRECOVERABLE_ERROR"},
         NEW r, NEW m, NEW d \in Lookup(state, signal, r, m)
  PROVE  d.to \in {"FAILED", "FAILED_PERMANENTLY"}
  BY DEF Working, Lookup, TRANSIENT_STATES, PRIMARY_MATRIX, FailureState, Move, Decide

\* Of a decision and its bridge at most one dispatches a task.
LEMMA DispatchedFirst ==
  ASSUME NEW d, NEW b, NEW scenario, d.task # NoTask, b.task = NoTask
  PROVE  Dispatched({d, b}, scenario) =
           {NewTask(d.task, ResolveForTask(d.task, scenario, d.incVer))}
  BY DEF Dispatched
LEMMA DispatchedSecond ==
  ASSUME NEW d, NEW b, NEW scenario, d.task = NoTask, b.task # NoTask
  PROVE  Dispatched({d, b}, scenario) =
           {NewTask(b.task, ResolveForTask(b.task, scenario, b.incVer))}
  BY DEF Dispatched
LEMMA DispatchedNothing ==
  ASSUME NEW d, NEW b, NEW scenario, d.task = NoTask, b.task = NoTask
  PROVE  Dispatched({d, b}, scenario) = {}
  BY DEF Dispatched

\* What is added to the task table.
LEMMA Added ==
  ASSUME NEW seq, NEW t
  PROVE  AddTasks(seq, {}) = seq /\ AddTasks(seq, {t}) = Append(seq, t)
  <1>1. (CHOOSE x \in {t} : TRUE) = t
    OBVIOUS
  <1> QED  BY <1>1 DEF AddTasks

------------------------------------------------------------------------------
\* A task keeps its type and its logical version for ever.
TasksKept ==
  /\ tasks' \in Seq(TaskRecord) /\ DOMAIN tasks \subseteq DOMAIN tasks'
  /\ \A i \in DOMAIN tasks : tasks'[i].type = tasks[i].type /\ tasks'[i].ver = tasks[i].ver

\* A row of the task table that is updated is the same task.
LEMMA UpdatedTask ==
  ASSUME tasks \in Seq(TaskRecord), NEW i \in DOMAIN tasks, NEW t \in TaskRecord,
         t.type = tasks[i].type, t.ver = tasks[i].ver
  PROVE  LET X == [tasks EXCEPT ![i] = t]
         IN /\ X \in Seq(TaskRecord) /\ DOMAIN X = DOMAIN tasks /\ Len(X) = Len(tasks)
            /\ \A j \in DOMAIN tasks : X[j].type = tasks[j].type /\ X[j].ver = tasks[j].ver
            /\ \A j \in DOMAIN tasks : X[j] = IF j = i THEN t ELSE tasks[j]
  <1> DEFINE X == [tasks EXCEPT ![i] = t]
  <1>1. /\ DOMAIN X = DOMAIN tasks /\ Len(X) = Len(tasks) /\ X \in Seq(TaskRecord)
        /\ \A j \in DOMAIN tasks : X[j] = IF j = i THEN t ELSE tasks[j]
    OBVIOUS
  <1> QED  BY <1>1

\* The keys of the task table when rows are updated and one is inserted.
LEMMA KeptKeys ==
  ASSUME tasks \in Seq(TaskRecord), NEW X \in Seq(TaskRecord), DOMAIN X = DOMAIN tasks,
         \A j \in DOMAIN tasks : X[j].type = tasks[j].type /\ X[j].ver = tasks[j].ver
  PROVE  /\ tasks' = X => TasksKept /\ Keys' = Keys /\ DOMAIN tasks' = DOMAIN tasks
         /\ \A t \in TaskType, v \in Nat : tasks' = Append(X, NewTask(t, v)) =>
              /\ TasksKept /\ Keys' = Keys \cup {<<t, v>>}
              /\ DOMAIN tasks' = DOMAIN tasks \cup {Len(tasks) + 1}
              /\ tasks'[Len(tasks) + 1] = NewTask(t, v) /\ \A j \in DOMAIN tasks : tasks'[j] = X[j]
  <1>1. ASSUME tasks' = X PROVE TasksKept /\ Keys' = Keys /\ DOMAIN tasks' = DOMAIN tasks
    BY <1>1 DEF TasksKept, Keys, Key
  <1>2. ASSUME NEW t \in TaskType, NEW v \in Nat, tasks' = Append(X, NewTask(t, v))
        PROVE  /\ TasksKept /\ Keys' = Keys \cup {<<t, v>>}
               /\ DOMAIN tasks' = DOMAIN tasks \cup {Len(tasks) + 1}
               /\ tasks'[Len(tasks) + 1] = NewTask(t, v) /\ \A j \in DOMAIN tasks : tasks'[j] = X[j]
    <2> DEFINE n == Len(tasks) + 1
               new == NewTask(t, v)
    <2>1. Len(X) = Len(tasks) /\ Len(tasks) \in Nat /\ DOMAIN tasks = 1 .. Len(tasks)
      OBVIOUS
    <2>2. new \in TaskRecord /\ new.type = t /\ new.ver = v
      BY DEF NewTask, TaskRecord
    <2> HIDE DEF new
    <2>3. tasks' = Append(X, new)
      BY <1>2 DEF new
    <2>4. /\ tasks' \in Seq(TaskRecord) /\ DOMAIN tasks' = DOMAIN tasks \cup {n}
          /\ tasks'[n] = new /\ \A j \in DOMAIN tasks : tasks'[j] = X[j]
      BY <2>1, <2>2, <2>3
    <2>5. TasksKept
      BY <2>4 DEF TasksKept
    <2>6. Keys' = {<<tasks'[j].type, tasks'[j].ver>> : j \in DOMAIN tasks \cup {n}}
      BY <2>4 DEF Keys, Key
    <2>7. Keys' = Keys \cup {<<t, v>>}
      BY <2>2, <2>4, <2>6 DEF Keys, Key
    <2> QED  BY <2>4, <2>5, <2>7 DEF new
  <1> QED  BY <1>1, <1>2

\* The rows a transaction writes: at most one is new, a PENDING first attempt,
\* and a status only changes with the effect of its task.
WrittenRows(new) ==
  /\ \A i, j \in DOMAIN tasks' \ DOMAIN tasks : i = j
  /\ \A j \in DOMAIN tasks' \ DOMAIN tasks :
       /\ <<tasks'[j].type, tasks'[j].ver>> \in new
       /\ tasks'[j].status = "PENDING" /\ tasks'[j].attempt = 1
  /\ \A j \in DOMAIN tasks :
       /\ tasks'[j].attempt = tasks[j].attempt
       /\ tasks'[j].status = tasks[j].status \/ Key(j) \in done'

\* What a committed stage leaves behind.
Effect(to, revision, scenario, new) ==
  /\ row' = [state |-> to, revision |-> revision] /\ active' = scenario
  /\ done' = done \cup {CurrentIn(row.state, active)} /\ Keys' = Keys \cup new
  /\ TasksKept /\ WrittenRows(new)
  /\ outbox' = outbox \cup (DOMAIN tasks' \ DOMAIN tasks)

\* The task of a delivery that is being processed.
LEMMA MineIsTask ==
  ASSUME PipelineInv, NEW s \in Slot, slot[s].pc # "idle"
  PROVE  /\ Mine(s) \in DOMAIN tasks /\ slot[s].d \in DOMAIN entries
         /\ tasks[Mine(s)] \in TaskRecord
         /\ tasks[Mine(s)].type \in TaskType /\ tasks[Mine(s)].ver \in Nat
         /\ Key(Mine(s)) \in Keys
  <1>1. Mine(s) \in DOMAIN tasks /\ slot[s].d \in DOMAIN entries
    BY DEF PipelineInv, SlotInv, SlotOK, StreamInv, Mine
  <1>2. tasks[Mine(s)] \in TaskRecord
    BY <1>1 DEF PipelineInv, DatabaseInv, Tables
  <1> QED  BY <1>1, <1>2 DEF TaskRecord, Keys

\* Who commits a stage has the task of the workflow's state, and that task
\* did not take effect before: its artifact would be there.
LEMMA CommitsCurrent ==
  ASSUME PipelineInv, NEW s \in Slot, NEW signal, CommitStage(s, signal)
  PROVE  /\ row.state \in Working /\ row.state = ExpectedStateForTask(tasks[Mine(s)].type)
         /\ Key(Mine(s)) = CurrentIn(row.state, active)
         /\ CurrentIn(row.state, active) \in Keys \ done
         /\ artifacts' = artifacts \cup {Stores(tasks[Mine(s)].type, tasks[Mine(s)].ver)}
         /\ done' = done \cup {CurrentIn(row.state, active)}
  <1> DEFINE i == Mine(s)
  <1>1. /\ i \in DOMAIN tasks /\ tasks[i].type \in TaskType /\ tasks[i].ver \in Nat
        /\ Key(i) \in Keys
    BY MineIsTask DEF CommitStage
  <1>2. row.state = ExpectedStateForTask(tasks[i].type) /\ row.state \in Working
    BY <1>1 DEF CommitStage, ExpectedStateForTask, TaskType, Working
  <1>3. ArtifactOf(i) = Stores(tasks[i].type, tasks[i].ver)
    BY DEF ArtifactOf, Stores
  <1>4. Key(i) \notin done
    BY <1>1, <1>3 DEF CommitStage, PipelineInv, DatabaseInv, Stored, Key
  <1>5. row.state \notin TERMINAL_STATES
    BY <1>2 DEF Working, TERMINAL_STATES
  <1>6. Key(i) = CurrentIn(row.state, active)
    BY <1>1, <1>4, <1>5 DEF PipelineInv, DatabaseInv, CurrentIsOpen
  <1>7. slot[s].ver = tasks[i].ver
    <2>1. SlotOK(slot[s]) /\ slot[s].pc = "handling" /\ ArtifactOf(TaskOf(slot[s].d)) \notin artifacts
      BY DEF PipelineInv, SlotInv, CommitStage, Mine
    <2> QED  BY <2>1 DEF SlotOK, RightVersion, Mine
  <1>8. done' = done \cup {Key(i)} /\ artifacts' = artifacts \cup {ArtifactOf(i)}
    BY <1>7 DEF CommitStage, Key
  <1> QED  BY <1>1, <1>2, <1>3, <1>4, <1>6, <1>8

\* The effect of a decision, with the one that follows it in the same
\* transaction, on the tables.
LEMMA EffectOf ==
  ASSUME PipelineInv, NEW s \in Slot, NEW signal, CommitStage(s, signal),
         NEW d, Lookup(row.state, signal, row.revision, MaxRevisions) = {d},
         NEW to, NEW t, NEW v, NEW scenario,
         scenario = IF tasks[Mine(s)].type = "GENERATE_SCENARIO" THEN tasks[Mine(s)].ver
                    ELSE active,
         d.incRev \in BOOLEAN,
         \/ Bridge(d) = {} /\ to = d.to
         \/ \E b : Bridge(d) = {b} /\ to = b.to,
         \/ Dispatched({d} \cup Bridge(d), scenario) = {}
         \/ t \in TaskType /\ v \in Nat /\ Dispatched({d} \cup Bridge(d), scenario) = {NewTask(t, v)}
  PROVE  Effect(to, IF d.incRev THEN row.revision + 1 ELSE row.revision, scenario,
                IF Dispatched({d} \cup Bridge(d), scenario) = {} THEN {} ELSE {<<t, v>>})
  <1> DEFINE i == Mine(s)
             new == Dispatched({d} \cup Bridge(d), scenario)
             X == [tasks EXCEPT ![i].status = "COMPLETED"]
  <1>1. i \in DOMAIN tasks /\ tasks[i] \in TaskRecord /\ tasks \in Seq(TaskRecord)
    BY MineIsTask DEF CommitStage, PipelineInv, DatabaseInv, Tables
  <1>2. /\ X \in Seq(TaskRecord) /\ DOMAIN X = DOMAIN tasks
        /\ \A j \in DOMAIN tasks : X[j].type = tasks[j].type /\ X[j].ver = tasks[j].ver
        /\ \A j \in DOMAIN tasks : X[j].attempt = tasks[j].attempt
        /\ \A j \in DOMAIN tasks : j = i \/ X[j].status = tasks[j].status
    <2> DEFINE u == [tasks[i] EXCEPT !.status = "COMPLETED"]
    <2>1. /\ u \in TaskRecord /\ u.type = tasks[i].type /\ u.ver = tasks[i].ver
          /\ u.attempt = tasks[i].attempt
      BY <1>1 DEF TaskRecord
    <2>2. X = [tasks EXCEPT ![i] = u]
      OBVIOUS
    <2> HIDE DEF u, X
    <2> QED  BY <1>1, <2>1, <2>2, UpdatedTask
  <1>3. /\ row' = [state |-> IF Bridge(d) = {} THEN d.to ELSE (CHOOSE b \in Bridge(d) : TRUE).to,
                   revision |-> IF d.incRev THEN row.revision + 1 ELSE row.revision]
        /\ tasks' = AddTasks(X, new)
        /\ outbox' = outbox \cup {j \in {Len(tasks) + 1} : new # {}}
        /\ active' = scenario
    BY DEF CommitStage
  <1>4. (IF Bridge(d) = {} THEN d.to ELSE (CHOOSE b \in Bridge(d) : TRUE).to) = to
    <2>1. CASE Bridge(d) = {} /\ to = d.to
      BY <2>1
    <2>2. CASE \E b : Bridge(d) = {b} /\ to = b.to
      <3>1. PICK b : Bridge(d) = {b} /\ to = b.to
        BY <2>2
      <3>2. (CHOOSE x \in {b} : TRUE) = b
        OBVIOUS
      <3> QED  BY <3>1, <3>2
    <2> QED  BY <2>1, <2>2
  <1>5. done' = done \cup {CurrentIn(row.state, active)} /\ Key(i) \in done'
    BY CommitsCurrent
  <1> HIDE DEF X, new
  <1>6. CASE new = {}
    <2>1. tasks' = X /\ outbox' = outbox
      BY <1>3, <1>6, Added
    <2>2. TasksKept /\ Keys' = Keys /\ DOMAIN tasks' = DOMAIN tasks
      BY <1>1, <1>2, <2>1, KeptKeys
    <2>3. WrittenRows({})
      BY <1>2, <1>5, <2>1, <2>2 DEF WrittenRows
    <2> QED  BY <1>3, <1>4, <1>5, <1>6, <2>1, <2>2, <2>3 DEF Effect, new
  <1>7. CASE t \in TaskType /\ v \in Nat /\ new = {NewTask(t, v)}
    <2>1. tasks' = Append(X, NewTask(t, v)) /\ outbox' = outbox \cup {Len(tasks) + 1}
      BY <1>3, <1>7, Added
    <2>2. /\ TasksKept /\ Keys' = Keys \cup {<<t, v>>}
          /\ DOMAIN tasks' = DOMAIN tasks \cup {Len(tasks) + 1}
          /\ tasks'[Len(tasks) + 1] = NewTask(t, v) /\ \A j \in DOMAIN tasks : tasks'[j] = X[j]
      BY <1>1, <1>2, <1>7, <2>1, KeptKeys
    <2>3. DOMAIN tasks' \ DOMAIN tasks = {Len(tasks) + 1}
      BY <1>1, <2>2
    <2>4. WrittenRows({<<t, v>>})
      <3>1. /\ NewTask(t, v).type = t /\ NewTask(t, v).ver = v /\ NewTask(t, v).attempt = 1
            /\ NewTask(t, v).status = "PENDING"
        BY DEF NewTask
      <3> QED  BY <1>2, <1>5, <2>2, <2>3, <3>1 DEF WrittenRows
    <2> QED  BY <1>3, <1>4, <1>5, <1>7, <2>1, <2>2, <2>3, <2>4 DEF Effect, new
  <1> QED  BY <1>6, <1>7 DEF new

\* The stages, as WorkerPipeline's abstract specification has them.
LEMMA StageEffects ==
  ASSUME PipelineInv, NEW s \in Slot, NEW signal \in HandlerSignals(tasks[Mine(s)].type),
         CommitStage(s, signal)
  PROVE  \/ /\ row.state = "COLLECTING"
            /\ Effect("SELECTING_TOPIC", row.revision, active, {<<"SELECT_TOPIC", 1>>})
         \/ /\ row.state = "SELECTING_TOPIC"
            /\ Effect("GENERATING_SCENARIO", row.revision, active, {<<"GENERATE_SCENARIO", 1>>})
         \/ /\ row.state = "SELECTING_TOPIC"
            /\ Effect("NO_SUITABLE_TOPIC", row.revision, active, {})
         \/ /\ row.state = "GENERATING_SCENARIO"
            /\ Effect("REVIEWING", row.revision, active + 1, {<<"REVIEW_SCENARIO", active + 1>>})
         \/ /\ row.state = "REVIEWING"
            /\ Effect("AWAITING_HUMAN_APPROVAL", row.revision, active, {})
         \/ /\ row.state = "REVIEWING" /\ row.revision < MaxRevisions
            /\ Effect("GENERATING_SCENARIO", row.revision + 1, active,
                      {<<"GENERATE_SCENARIO", active + 1>>})
         \/ /\ row.state = "REVIEWING" /\ row.revision >= MaxRevisions
            /\ Effect("REVIEW_FAILED", row.revision, active, {})
  <1> DEFINE i == Mine(s)
             type == tasks[i].type
             r == row.revision
             scenario == IF type = "GENERATE_SCENARIO" THEN tasks[i].ver ELSE active
  <1>1. /\ row.state \in Working /\ row.state = ExpectedStateForTask(type)
        /\ Key(i) = CurrentIn(row.state, active)
    BY CommitsCurrent
  <1>2. /\ type \in TaskType /\ tasks[i].ver \in Nat /\ r \in Nat /\ MaxRevisions \in Nat
        /\ active \in Nat
        /\ row.state \in {"COLLECTING", "SELECTING_TOPIC"} => active = 0
        /\ row.state \in {"REVIEWING", "AWAITING_HUMAN_APPROVAL"} => active >= 1
    BY MineIsTask, PipelineAssumption DEF CommitStage, PipelineInv, DatabaseInv, Tables
  <1>3. CASE type = "COLLECT"
    <2> DEFINE d == Decide("COLLECTING", "COLLECTED", "SELECT_TOPIC", FALSE, FALSE)
               b == Decide("COLLECTED", "SELECTING_TOPIC", NoTask, FALSE, FALSE)
    <2>1. row.state = "COLLECTING" /\ signal = "STAGE_COMPLETED"
      BY <1>1, <1>3 DEF ExpectedStateForTask, HandlerSignals
    <2>2. /\ Lookup("COLLECTING", "STAGE_COMPLETED", r, MaxRevisions) = {d}
          /\ Lookup("COLLECTED", "STAGE_COMPLETED", r, MaxRevisions) = {b}
      <3>1. r \in Nat /\ MaxRevisions \in Nat
        BY <1>2
      <3> HIDE DEF r
      <3> QED  BY <3>1, StageDecisions, Zenon
    <2>3. /\ d.to = "COLLECTED" /\ d.task = "SELECT_TOPIC" /\ d.incRev = FALSE /\ d.incVer = FALSE
          /\ b.to = "SELECTING_TOPIC" /\ b.task = NoTask /\ b.incVer = FALSE
      BY DEF Decide
    <2>4. Bridge(d) = {b}
      BY <2>2, <2>3 DEF Bridge, NoTask
    <2> HIDE DEF d, b
    <2>5. Dispatched({d} \cup Bridge(d), scenario) = {NewTask("SELECT_TOPIC", 1)}
      <3>1. {d} \cup Bridge(d) = {d, b}
        BY <2>4
      <3>2. d.task # NoTask
        BY <2>3 DEF NoTask
      <3>3. ResolveForTask("SELECT_TOPIC", scenario, d.incVer) = 1
        BY DEF ResolveForTask
      <3>4. Dispatched({d, b}, scenario) =
              {NewTask(d.task, ResolveForTask(d.task, scenario, d.incVer))}
        <4> HIDE DEF scenario
        <4> QED  BY <2>3, <3>2, DispatchedFirst
      <3> QED  BY <2>3, <3>1, <3>3, <3>4
    <2>6. Effect("SELECTING_TOPIC", IF d.incRev THEN r + 1 ELSE r, scenario,
                 IF Dispatched({d} \cup Bridge(d), scenario) = {} THEN {}
                 ELSE {<<"SELECT_TOPIC", 1>>})
      <3>1. "SELECT_TOPIC" \in TaskType /\ 1 \in Nat
        BY <1>2 DEF TaskType
      <3> QED  BY <2>1, <2>2, <2>3, <2>4, <2>5, <3>1, EffectOf
    <2>7. Dispatched({d} \cup Bridge(d), scenario) # {} /\ scenario = active
      BY <1>1, <1>3, <2>1, <2>5 DEF Key, CurrentIn
    <2> QED  BY <1>3, <2>1, <2>3, <2>5, <2>6, <2>7
  <1>4. CASE type = "SELECT_TOPIC" /\ signal = "STAGE_COMPLETED"
    <2> DEFINE d == Decide("SELECTING_TOPIC", "TOPIC_SELECTED", "GENERATE_SCENARIO", FALSE, FALSE)
               b == Decide("TOPIC_SELECTED", "GENERATING_SCENARIO", NoTask, FALSE, FALSE)
    <2>1. row.state = "SELECTING_TOPIC" /\ signal = "STAGE_COMPLETED"
      BY <1>1, <1>4 DEF ExpectedStateForTask, HandlerSignals
    <2>2. /\ Lookup("SELECTING_TOPIC", "STAGE_COMPLETED", r, MaxRevisions) = {d}
          /\ Lookup("TOPIC_SELECTED", "STAGE_COMPLETED", r, MaxRevisions) = {b}
      <3>1. r \in Nat /\ MaxRevisions \in Nat
        BY <1>2
      <3> HIDE DEF r
      <3> QED  BY <3>1, StageDecisions, Zenon
    <2>3. /\ d.to = "TOPIC_SELECTED" /\ d.task = "GENERATE_SCENARIO" /\ d.incRev = FALSE /\ d.incVer = FALSE
          /\ b.to = "GENERATING_SCENARIO" /\ b.task = NoTask /\ b.incVer = FALSE
      BY DEF Decide
    <2>4. Bridge(d) = {b}
      BY <2>2, <2>3 DEF Bridge, NoTask
    <2> HIDE DEF d, b
    <2>5. Dispatched({d} \cup Bridge(d), scenario) = {NewTask("GENERATE_SCENARIO", 1)}
      <3>1. {d} \cup Bridge(d) = {d, b}
        BY <2>4
      <3>2. d.task # NoTask
        BY <2>3 DEF NoTask
      <3>3. ResolveForTask("GENERATE_SCENARIO", scenario, d.incVer) = 1
        BY <1>2, <1>4, <2>1, <2>3 DEF ResolveForTask
      <3>4. Dispatched({d, b}, scenario) =
              {NewTask(d.task, ResolveForTask(d.task, scenario, d.incVer))}
        <4> HIDE DEF scenario
        <4> QED  BY <2>3, <3>2, DispatchedFirst
      <3> QED  BY <2>3, <3>1, <3>3, <3>4
    <2>6. Effect("GENERATING_SCENARIO", IF d.incRev THEN r + 1 ELSE r, scenario,
                 IF Dispatched({d} \cup Bridge(d), scenario) = {} THEN {}
                 ELSE {<<"GENERATE_SCENARIO", 1>>})
      <3>1. "GENERATE_SCENARIO" \in TaskType /\ 1 \in Nat
        BY <1>2 DEF TaskType
      <3> QED  BY <2>1, <2>2, <2>3, <2>4, <2>5, <3>1, EffectOf
    <2>7. Dispatched({d} \cup Bridge(d), scenario) # {} /\ scenario = active
      BY <1>1, <1>4, <2>1, <2>5 DEF Key, CurrentIn
    <2> QED  BY <1>4, <2>1, <2>3, <2>5, <2>6, <2>7
  <1>5. CASE type = "SELECT_TOPIC" /\ signal = "NO_SUITABLE_TOPIC"
    <2> DEFINE d == Decide("SELECTING_TOPIC", "NO_SUITABLE_TOPIC", NoTask, FALSE, FALSE)
    <2>1. row.state = "SELECTING_TOPIC" /\ signal = "NO_SUITABLE_TOPIC"
      BY <1>1, <1>5 DEF ExpectedStateForTask, HandlerSignals
    <2>2. /\ Lookup("SELECTING_TOPIC", "NO_SUITABLE_TOPIC", r, MaxRevisions) = {d}
      <3>1. r \in Nat /\ MaxRevisions \in Nat
        BY <1>2
      <3> HIDE DEF r
      <3> QED  BY <3>1, StageDecisions, Zenon
    <2>3. /\ d.to = "NO_SUITABLE_TOPIC" /\ d.task = NoTask /\ d.incRev = FALSE /\ d.incVer = FALSE
      BY DEF Decide
    <2>4. Bridge(d) = {}
      BY <2>2, <2>3 DEF Bridge, NoTask
    <2> HIDE DEF d
    <2>5. Dispatched({d} \cup Bridge(d), scenario) = {}
      BY <2>3, <2>4 DEF Dispatched
    <2>6. Effect("NO_SUITABLE_TOPIC", IF d.incRev THEN r + 1 ELSE r, scenario,
                 IF Dispatched({d} \cup Bridge(d), scenario) = {} THEN {} ELSE {<<0, 0>>})
      BY <2>1, <2>2, <2>3, <2>4, <2>5, EffectOf
    <2>7. scenario = active
      BY <1>5
    <2> QED  BY <1>5, <2>1, <2>3, <2>5, <2>6, <2>7
  <1>6. CASE type = "GENERATE_SCENARIO"
    <2> DEFINE d == Decide("GENERATING_SCENARIO", "SCENARIO_GENERATED", "REVIEW_SCENARIO", FALSE, FALSE)
               b == Decide("SCENARIO_GENERATED", "REVIEWING", NoTask, FALSE, FALSE)
    <2>1. row.state = "GENERATING_SCENARIO" /\ signal = "STAGE_COMPLETED"
      BY <1>1, <1>6 DEF ExpectedStateForTask, HandlerSignals
    <2>2. /\ Lookup("GENERATING_SCENARIO", "STAGE_COMPLETED", r, MaxRevisions) = {d}
          /\ Lookup("SCENARIO_GENERATED", "STAGE_COMPLETED", r, MaxRevisions) = {b}
      <3>1. r \in Nat /\ MaxRevisions \in Nat
        BY <1>2
      <3> HIDE DEF r
      <3> QED  BY <3>1, StageDecisions, Zenon
    <2>3. /\ d.to = "SCENARIO_GENERATED" /\ d.task = "REVIEW_SCENARIO" /\ d.incRev = FALSE /\ d.incVer = FALSE
          /\ b.to = "REVIEWING" /\ b.task = NoTask /\ b.incVer = FALSE
      BY DEF Decide
    <2>4. Bridge(d) = {b}
      BY <2>2, <2>3 DEF Bridge, NoTask
    <2> HIDE DEF d, b
    <2>5. Dispatched({d} \cup Bridge(d), scenario) = {NewTask("REVIEW_SCENARIO", active + 1)}
      <3>1. {d} \cup Bridge(d) = {d, b}
        BY <2>4
      <3>2. d.task # NoTask
        BY <2>3 DEF NoTask
      <3>3. ResolveForTask("REVIEW_SCENARIO", scenario, d.incVer) = active + 1
        BY <1>1, <1>2, <1>6, <2>1, <2>3 DEF ResolveForTask, Key, CurrentIn
      <3>4. Dispatched({d, b}, scenario) =
              {NewTask(d.task, ResolveForTask(d.task, scenario, d.incVer))}
        <4> HIDE DEF scenario
        <4> QED  BY <2>3, <3>2, DispatchedFirst
      <3> QED  BY <2>3, <3>1, <3>3, <3>4
    <2>6. Effect("REVIEWING", IF d.incRev THEN r + 1 ELSE r, scenario,
                 IF Dispatched({d} \cup Bridge(d), scenario) = {} THEN {}
                 ELSE {<<"REVIEW_SCENARIO", active + 1>>})
      <3>1. "REVIEW_SCENARIO" \in TaskType /\ active + 1 \in Nat
        BY <1>2 DEF TaskType
      <3> QED  BY <2>1, <2>2, <2>3, <2>4, <2>5, <3>1, EffectOf
    <2>7. Dispatched({d} \cup Bridge(d), scenario) # {} /\ scenario = active + 1
      BY <1>1, <1>6, <2>1, <2>5 DEF Key, CurrentIn
    <2> QED  BY <1>6, <2>1, <2>3, <2>5, <2>6, <2>7
  <1>7. CASE type = "REVIEW_SCENARIO" /\ signal = "CRITIC_PASS"
    <2> DEFINE d == Decide("REVIEWING", "REVIEW_PASSED", NoTask, FALSE, FALSE)
               b == Decide("REVIEW_PASSED", "AWAITING_HUMAN_APPROVAL", NoTask, FALSE, FALSE)
    <2>1. row.state = "REVIEWING" /\ signal = "CRITIC_PASS"
      BY <1>1, <1>7 DEF ExpectedStateForTask, HandlerSignals
    <2>2. /\ Lookup("REVIEWING", "CRITIC_PASS", r, MaxRevisions) = {d}
          /\ Lookup("REVIEW_PASSED", "STAGE_COMPLETED", r, MaxRevisions) = {b}
      <3>1. r \in Nat /\ MaxRevisions \in Nat
        BY <1>2
      <3> HIDE DEF r
      <3> QED  BY <3>1, StageDecisions, Zenon
    <2>3. /\ d.to = "REVIEW_PASSED" /\ d.task = NoTask /\ d.incRev = FALSE /\ d.incVer = FALSE
          /\ b.to = "AWAITING_HUMAN_APPROVAL" /\ b.task = NoTask /\ b.incVer = FALSE
      BY DEF Decide
    <2>4. Bridge(d) = {b}
      BY <2>2, <2>3 DEF Bridge, NoTask
    <2> HIDE DEF d, b
    <2>5. Dispatched({d} \cup Bridge(d), scenario) = {}
      <3>1. {d} \cup Bridge(d) = {d, b}
        BY <2>4
      <3>2. Dispatched({d, b}, scenario) = {}
        <4> HIDE DEF scenario
        <4> QED  BY <2>3, DispatchedNothing
      <3> QED  BY <3>1, <3>2
    <2>6. Effect("AWAITING_HUMAN_APPROVAL", IF d.incRev THEN r + 1 ELSE r, scenario,
                 IF Dispatched({d} \cup Bridge(d), scenario) = {} THEN {} ELSE {<<0, 0>>})
      BY <2>1, <2>2, <2>3, <2>4, <2>5, EffectOf
    <2>7. scenario = active
      BY <1>7
    <2> QED  BY <1>7, <2>1, <2>3, <2>5, <2>6, <2>7
  <1>8. CASE type = "REVIEW_SCENARIO" /\ signal = "CRITIC_REVISE" /\ r < MaxRevisions
    <2> DEFINE d == Decide("REVIEWING", "REVISION_REQUIRED", NoTask, TRUE, FALSE)
               b == Decide("REVISION_REQUIRED", "GENERATING_SCENARIO", "GENERATE_SCENARIO", FALSE, TRUE)
    <2>1. row.state = "REVIEWING" /\ signal = "CRITIC_REVISE"
      BY <1>1, <1>8 DEF ExpectedStateForTask, HandlerSignals
    <2>2. /\ Lookup("REVIEWING", "CRITIC_REVISE", r, MaxRevisions) = {d}
          /\ Lookup("REVISION_REQUIRED", "STAGE_COMPLETED", r, MaxRevisions) = {b}
      <3>1. r \in Nat /\ MaxRevisions \in Nat
        BY <1>2
      <3>2. ~ (r >= MaxRevisions)
        BY <1>8, <3>1
      <3> HIDE DEF r
      <3>3. Lookup("REVIEWING", "CRITIC_REVISE", r, MaxRevisions) = {d}
        BY <3>1, <3>2, StageDecisions
      <3>4. Lookup("REVISION_REQUIRED", "STAGE_COMPLETED", r, MaxRevisions) = {b}
        BY <3>1, StageDecisions, Zenon
      <3> QED  BY <3>3, <3>4
    <2>3. /\ d.to = "REVISION_REQUIRED" /\ d.task = NoTask /\ d.incRev = TRUE /\ d.incVer = FALSE
          /\ b.to = "GENERATING_SCENARIO" /\ b.task = "GENERATE_SCENARIO" /\ b.incVer = TRUE
      BY DEF Decide
    <2>4. Bridge(d) = {b}
      BY <2>2, <2>3 DEF Bridge, NoTask
    <2> HIDE DEF d, b
    <2>5. Dispatched({d} \cup Bridge(d), scenario) = {NewTask("GENERATE_SCENARIO", active + 1)}
      <3>1. {d} \cup Bridge(d) = {d, b}
        BY <2>4
      <3>2. b.task # NoTask
        BY <2>3 DEF NoTask
      <3>3. ResolveForTask("GENERATE_SCENARIO", scenario, b.incVer) = active + 1
        BY <1>2, <1>8, <2>1, <2>3 DEF ResolveForTask
      <3>4. Dispatched({d, b}, scenario) =
              {NewTask(b.task, ResolveForTask(b.task, scenario, b.incVer))}
        <4> HIDE DEF scenario
        <4> QED  BY <2>3, <3>2, DispatchedSecond
      <3> QED  BY <2>3, <3>1, <3>3, <3>4
    <2>6. Effect("GENERATING_SCENARIO", IF d.incRev THEN r + 1 ELSE r, scenario,
                 IF Dispatched({d} \cup Bridge(d), scenario) = {} THEN {}
                 ELSE {<<"GENERATE_SCENARIO", active + 1>>})
      <3>1. "GENERATE_SCENARIO" \in TaskType /\ active + 1 \in Nat
        BY <1>2 DEF TaskType
      <3> QED  BY <2>1, <2>2, <2>3, <2>4, <2>5, <3>1, EffectOf
    <2>7. Dispatched({d} \cup Bridge(d), scenario) # {} /\ scenario = active
      BY <1>1, <1>8, <2>1, <2>5 DEF Key, CurrentIn
    <2> QED  BY <1>8, <2>1, <2>3, <2>5, <2>6, <2>7
  <1>9. CASE type = "REVIEW_SCENARIO" /\ signal = "CRITIC_REVISE" /\ r >= MaxRevisions
    <2> DEFINE d == Decide("REVIEWING", "REVIEW_FAILED", NoTask, FALSE, FALSE)
    <2>1. row.state = "REVIEWING" /\ signal = "CRITIC_REVISE"
      BY <1>1, <1>9 DEF ExpectedStateForTask, HandlerSignals
    <2>2. /\ Lookup("REVIEWING", "CRITIC_REVISE", r, MaxRevisions) = {d}
      <3>1. r \in Nat /\ MaxRevisions \in Nat
        BY <1>2
      <3>2. r >= MaxRevisions
        BY <1>9
      <3> HIDE DEF r
      <3>3. Lookup("REVIEWING", "CRITIC_REVISE", r, MaxRevisions) = {d}
        BY <3>1, <3>2, StageDecisions
      <3> QED  BY <3>3
    <2>3. /\ d.to = "REVIEW_FAILED" /\ d.task = NoTask /\ d.incRev = FALSE /\ d.incVer = FALSE
      BY DEF Decide
    <2>4. Bridge(d) = {}
      BY <2>2, <2>3 DEF Bridge, NoTask
    <2> HIDE DEF d
    <2>5. Dispatched({d} \cup Bridge(d), scenario) = {}
      BY <2>3, <2>4 DEF Dispatched
    <2>6. Effect("REVIEW_FAILED", IF d.incRev THEN r + 1 ELSE r, scenario,
                 IF Dispatched({d} \cup Bridge(d), scenario) = {} THEN {} ELSE {<<0, 0>>})
      BY <2>1, <2>2, <2>3, <2>4, <2>5, EffectOf
    <2>7. scenario = active
      BY <1>9
    <2> QED  BY <1>9, <2>1, <2>3, <2>5, <2>6, <2>7
  <1>10. \/ type \in {"COLLECT", "GENERATE_SCENARIO"}
         \/ type = "SELECT_TOPIC" /\ signal \in {"STAGE_COMPLETED", "NO_SUITABLE_TOPIC"}
         \/ type = "REVIEW_SCENARIO" /\ signal \in {"CRITIC_PASS", "CRITIC_REVISE"}
    BY <1>2 DEF TaskType, HandlerSignals
  <1>11. r < MaxRevisions \/ r >= MaxRevisions
    BY <1>2
  <1> QED  BY <1>3, <1>4, <1>5, <1>6, <1>7, <1>8, <1>9, <1>10, <1>11

------------------------------------------------------------------------------
\* The database of the pipeline after a stage: the task of the new state is
\* the only one that is open.
LEMMA StageKeepsDatabase ==
  ASSUME PipelineInv, NEW s \in Slot, NEW signal \in HandlerSignals(tasks[Mine(s)].type),
         CommitStage(s, signal)
  PROVE  DatabaseInv'
  <1> DEFINE i == Mine(s)
             type == tasks[i].type
             cur == CurrentIn(row.state, active)
  <1>1. /\ type \in TaskType /\ tasks[i].ver \in Nat /\ active \in Nat
        /\ row.revision \in Nat /\ MaxRevisions \in Nat
        /\ row.state \in {"COLLECTING", "SELECTING_TOPIC"} => active = 0
        /\ row.state \in {"REVIEWING", "AWAITING_HUMAN_APPROVAL"} => active >= 1
        /\ done \subseteq Keys
    BY MineIsTask, PipelineAssumption DEF CommitStage, PipelineInv, DatabaseInv, Tables
  <1>2. /\ row.state \in Working /\ row.state = ExpectedStateForTask(type)
        /\ Key(i) = cur /\ cur \in Keys \ done
        /\ artifacts' = artifacts \cup {Stores(type, tasks[i].ver)}
    BY CommitsCurrent
  <1>3. Numbered /\ Stored /\ CurrentIsOpen
    BY DEF PipelineInv, DatabaseInv
  <1>4. /\ row.state = "COLLECTING" => type = "COLLECT"
        /\ row.state = "SELECTING_TOPIC" => type = "SELECT_TOPIC"
        /\ row.state = "GENERATING_SCENARIO" => type = "GENERATE_SCENARIO"
        /\ row.state = "REVIEWING" => type = "REVIEW_SCENARIO"
    BY <1>1, <1>2 DEF TaskType, ExpectedStateForTask
  <1>5. \A k \in Keys : k \notin done => k = cur
    <2>1. row.state \notin TERMINAL_STATES
      BY <1>2 DEF Working, TERMINAL_STATES
    <2> QED  BY <1>3, <2>1 DEF CurrentIsOpen
  <1>6. \A t \in TaskType, v \in Nat : <<t, v>> \in done' => Stores(t, v) \in artifacts'
    <2> SUFFICES ASSUME NEW t \in TaskType, NEW v \in Nat, <<t, v>> \in done'
                 PROVE  Stores(t, v) \in artifacts'
      OBVIOUS
    <2>1. <<t, v>> \in done \/ <<t, v>> = Key(i)
      BY <1>2, CommitsCurrent
    <2>2. CASE <<t, v>> \in done
      BY <1>2, <1>3, <2>2 DEF Stored
    <2>3. CASE <<t, v>> = Key(i)
      BY <1>2, <2>3 DEF Key
    <2> QED  BY <2>1, <2>2, <2>3
  <1>7. ASSUME NEW to \in Reached, NEW r \in Nat, NEW n \in Nat, NEW new, Effect(to, r, n, new),
               to \in {"COLLECTING", "SELECTING_TOPIC"} => n = 0,
               to \in {"REVIEWING", "AWAITING_HUMAN_APPROVAL"} => n >= 1
        PROVE  Tables' /\ row'.state = to /\ active' = n
    <2>1. row' = [state |-> to, revision |-> r] /\ active' = n
      BY <1>7 DEF Effect
    <2>2. row'.state = to /\ row' \in [state : Reached, revision : Nat]
      BY <2>1
    <2>3. tasks' \in Seq(TaskRecord) /\ done' \subseteq Keys'
      BY <1>1, <1>2, <1>7 DEF Effect, TasksKept
    <2> QED  BY <1>7, <2>1, <2>2, <2>3 DEF Tables
  <1>8. ASSUME NEW t \in TaskType, Prerequisite(t), active # 0 => active' # 0
        PROVE  Prerequisite(t)'
    BY <1>2, <1>8 DEF Prerequisite, TaskType
  <1>16. Past'
    <2>1. done' = done \cup {cur} /\ \A k \in Keys : k \in done'
      BY <1>5, CommitsCurrent
    <2>2. Past
      BY DEF PipelineInv, DatabaseInv
    <2>3. \/ active' = active /\ \A v \in Nat : <<"REVIEW_SCENARIO", v>> \in Keys' => <<"REVIEW_SCENARIO", v>> \in Keys
          \/ /\ row.state = "GENERATING_SCENARIO" /\ active' = active + 1
             /\ Keys' = Keys \cup {<<"REVIEW_SCENARIO", active + 1>>}
      BY StageEffects DEF Effect
    <2>4. CASE active' = active /\ \A v \in Nat : <<"REVIEW_SCENARIO", v>> \in Keys' => <<"REVIEW_SCENARIO", v>> \in Keys
      BY <2>1, <2>2, <2>4 DEF Past
    <2>5. CASE /\ row.state = "GENERATING_SCENARIO" /\ active' = active + 1
               /\ Keys' = Keys \cup {<<"REVIEW_SCENARIO", active + 1>>}
      <3>1. <<"GENERATE_SCENARIO", 1>> \in done'
        <4>1. CASE active = 0
          BY <2>1, <2>5, <4>1 DEF CurrentIn
        <4>2. CASE active >= 1
          BY <2>1, <2>2, <4>2 DEF Past
        <4> QED  BY <1>1, <4>1, <4>2
      <3>2. ASSUME NEW v \in Nat, <<"REVIEW_SCENARIO", v>> \in Keys', v < active'
            PROVE  <<"REVIEW_SCENARIO", v>> \in done'
        <4>1. v # active + 1
          BY <1>1, <2>5, <3>2
        <4> QED  BY <2>1, <2>5, <3>2, <4>1
      <3> QED  BY <3>1, <3>2 DEF Past
    <2> QED  BY <2>3, <2>4, <2>5
  <1>9. CASE /\ row.state = "COLLECTING"
             /\ Effect("SELECTING_TOPIC", row.revision, active, {<<"SELECT_TOPIC", 1>>})
    <2>1. /\ row'.state = "SELECTING_TOPIC" /\ active' = active /\ Keys' = Keys \cup {<<"SELECT_TOPIC", 1>>}
          /\ cur = <<"COLLECT", 1>> /\ done' = done \cup {cur}
      BY <1>9 DEF CurrentIn, Effect
    <2>2. Tables'
      <3>1. "SELECTING_TOPIC" \in Reached /\ row.revision \in Nat /\ active \in Nat
        BY <1>1 DEF Reached, Working, TERMINAL_STATES
      <3> QED  BY <1>1, <1>7, <1>9, <3>1
    <2>3. Numbered'
      BY <1>1, <1>3, <1>9, <2>1 DEF Numbered, NumberedAt
    <2>4. <<"SELECT_TOPIC", 1>> \notin Keys /\ CurrentIn(row'.state, active') = <<"SELECT_TOPIC", 1>>
      BY <1>1, <1>3, <1>9, <2>1 DEF Numbered, NumberedAt, CurrentIn
    <2>5. CurrentIsOpen'
      BY <1>1, <1>2, <1>5, <2>1, <2>4 DEF CurrentIsOpen, Working
    <2>6. <<"COLLECTED_STORIES", 1>> \in artifacts'
      BY <1>2, <1>3, <1>4, <1>9 DEF Stored, Stores, ArtifactType
    <2>7. \A t \in TaskType, v \in Nat : <<t, v>> \in Keys' => Prerequisite(t)'
      <3> SUFFICES ASSUME NEW t \in TaskType, NEW v \in Nat, <<t, v>> \in Keys' PROVE Prerequisite(t)'
        OBVIOUS
      <3>1. CASE <<t, v>> \in Keys
        BY <1>1, <1>3, <1>8, <2>1, <3>1 DEF Stored
      <3>2. CASE <<t, v>> = <<"SELECT_TOPIC", 1>>
        BY <2>6, <3>2 DEF Prerequisite
      <3> QED  BY <2>1, <3>1, <3>2
    <2>8. row'.state \in {"GENERATING_SCENARIO", "REVIEWING", "AWAITING_HUMAN_APPROVAL"} =>
            <<"TOPIC_SELECTION", 1>> \in artifacts'
      BY <1>2, <1>3, <1>4, <1>9, <2>1 DEF Stored, Stores, ArtifactType
    <2> QED  BY <1>6, <1>16, <2>2, <2>3, <2>5, <2>7, <2>8 DEF DatabaseInv, Stored
  <1>10. CASE /\ row.state = "SELECTING_TOPIC"
             /\ Effect("GENERATING_SCENARIO", row.revision, active, {<<"GENERATE_SCENARIO", 1>>})
    <2>1. /\ row'.state = "GENERATING_SCENARIO" /\ active' = active /\ Keys' = Keys \cup {<<"GENERATE_SCENARIO", 1>>}
          /\ cur = <<"SELECT_TOPIC", 1>> /\ done' = done \cup {cur}
      BY <1>10 DEF CurrentIn, Effect
    <2>2. Tables'
      <3>1. "GENERATING_SCENARIO" \in Reached /\ row.revision \in Nat /\ active \in Nat
        BY <1>1 DEF Reached, Working, TERMINAL_STATES
      <3> QED  BY <1>1, <1>7, <1>10, <3>1
    <2>3. Numbered'
      <3> SUFFICES ASSUME NEW v \in Nat PROVE NumberedAt(v)'
        BY DEF Numbered
      <3>1. /\ <<"COLLECT", v>> \in Keys' => <<"COLLECT", v>> \in Keys
            /\ <<"SELECT_TOPIC", v>> \in Keys' => <<"SELECT_TOPIC", v>> \in Keys
            /\ <<"GENERATE_SCENARIO", v>> \in Keys' => <<"GENERATE_SCENARIO", v>> \in Keys \/ v = 1
            /\ <<"REVIEW_SCENARIO", v>> \in Keys' => <<"REVIEW_SCENARIO", v>> \in Keys
        BY <2>1
      <3>2. NumberedAt(v)
        BY <1>3 DEF Numbered
      <3> QED  BY <1>1, <1>10, <2>1, <3>1, <3>2 DEF NumberedAt
    <2>4. <<"GENERATE_SCENARIO", 1>> \notin Keys /\ CurrentIn(row'.state, active') = <<"GENERATE_SCENARIO", 1>>
      <3>1. 1 \in Nat /\ ~ (active + 1 <= active)
        BY <1>1
      <3>2. <<"GENERATE_SCENARIO", 1>> \notin Keys
        BY <1>1, <1>3, <1>10, <3>1 DEF Numbered, NumberedAt
      <3>3. CurrentIn(row'.state, active') = <<"GENERATE_SCENARIO", 1>>
        BY <1>1, <1>10, <2>1 DEF CurrentIn
      <3> QED  BY <3>2, <3>3
    <2>5. CurrentIsOpen'
      BY <1>1, <1>2, <1>5, <2>1, <2>4 DEF CurrentIsOpen, Working
    <2>6. <<"TOPIC_SELECTION", 1>> \in artifacts'
      BY <1>2, <1>3, <1>4, <1>10 DEF Stored, Stores, ArtifactType
    <2>7. \A t \in TaskType, v \in Nat : <<t, v>> \in Keys' => Prerequisite(t)'
      <3> SUFFICES ASSUME NEW t \in TaskType, NEW v \in Nat, <<t, v>> \in Keys' PROVE Prerequisite(t)'
        OBVIOUS
      <3>1. CASE <<t, v>> \in Keys
        BY <1>1, <1>3, <1>8, <2>1, <3>1 DEF Stored
      <3>2. CASE <<t, v>> = <<"GENERATE_SCENARIO", 1>>
        BY <2>6, <3>2 DEF Prerequisite
      <3> QED  BY <2>1, <3>1, <3>2
    <2>8. row'.state \in {"GENERATING_SCENARIO", "REVIEWING", "AWAITING_HUMAN_APPROVAL"} =>
            <<"TOPIC_SELECTION", 1>> \in artifacts'
      BY <1>2, <1>3, <1>4, <1>10, <2>1 DEF Stored, Stores, ArtifactType
    <2> QED  BY <1>6, <1>16, <2>2, <2>3, <2>5, <2>7, <2>8 DEF DatabaseInv, Stored
  <1>11. CASE /\ row.state = "SELECTING_TOPIC"
             /\ Effect("NO_SUITABLE_TOPIC", row.revision, active, {})
    <2>1. /\ row'.state = "NO_SUITABLE_TOPIC" /\ active' = active /\ Keys' = Keys \cup {}
          /\ cur = <<"SELECT_TOPIC", 1>> /\ done' = done \cup {cur}
      BY <1>11 DEF CurrentIn, Effect
    <2>2. Tables'
      <3>1. "NO_SUITABLE_TOPIC" \in Reached /\ row.revision \in Nat /\ active \in Nat
        BY <1>1 DEF Reached, Working, TERMINAL_STATES
      <3> QED  BY <1>1, <1>7, <1>11, <3>1
    <2>3. Numbered'
      BY <1>1, <1>3, <1>11, <2>1 DEF Numbered, NumberedAt
    <2>5. CurrentIsOpen'
      BY <1>1, <1>2, <1>5, <2>1 DEF CurrentIsOpen, Working, TERMINAL_STATES
    <2>7. \A t \in TaskType, v \in Nat : <<t, v>> \in Keys' => Prerequisite(t)'
      BY <1>1, <1>3, <1>8, <2>1 DEF Stored
    <2>8. row'.state \in {"GENERATING_SCENARIO", "REVIEWING", "AWAITING_HUMAN_APPROVAL"} =>
            <<"TOPIC_SELECTION", 1>> \in artifacts'
      BY <1>2, <1>3, <1>4, <1>11, <2>1 DEF Stored, Stores, ArtifactType
    <2> QED  BY <1>6, <1>16, <2>2, <2>3, <2>5, <2>7, <2>8 DEF DatabaseInv, Stored
  <1>12. CASE /\ row.state = "GENERATING_SCENARIO"
             /\ Effect("REVIEWING", row.revision, active + 1, {<<"REVIEW_SCENARIO", active + 1>>})
    <2>1. /\ row'.state = "REVIEWING" /\ active' = active + 1 /\ Keys' = Keys \cup {<<"REVIEW_SCENARIO", active + 1>>}
          /\ cur = <<"GENERATE_SCENARIO", active + 1>> /\ done' = done \cup {cur}
      BY <1>12 DEF CurrentIn, Effect
    <2>2. Tables'
      <3>1. "REVIEWING" \in Reached /\ row.revision \in Nat /\ active + 1 \in Nat
        BY <1>1 DEF Reached, Working, TERMINAL_STATES
      <3> QED  BY <1>1, <1>7, <1>12, <3>1
    <2>3. Numbered'
      <3> SUFFICES ASSUME NEW v \in Nat PROVE NumberedAt(v)'
        BY DEF Numbered
      <3>1. /\ <<"COLLECT", v>> \in Keys' => <<"COLLECT", v>> \in Keys
            /\ <<"SELECT_TOPIC", v>> \in Keys' => <<"SELECT_TOPIC", v>> \in Keys
            /\ <<"GENERATE_SCENARIO", v>> \in Keys' => <<"GENERATE_SCENARIO", v>> \in Keys
            /\ <<"REVIEW_SCENARIO", v>> \in Keys' => <<"REVIEW_SCENARIO", v>> \in Keys \/ v = active + 1
        BY <2>1
      <3>2. NumberedAt(v)
        BY <1>3 DEF Numbered
      <3> QED  BY <1>1, <1>12, <2>1, <3>1, <3>2 DEF NumberedAt
    <2>4. <<"REVIEW_SCENARIO", active + 1>> \notin Keys /\ CurrentIn(row'.state, active') = <<"REVIEW_SCENARIO", active + 1>>
      <3>1. active + 1 \in Nat /\ ~ (active + 1 <= active)
        BY <1>1
      <3>2. <<"REVIEW_SCENARIO", active + 1>> \notin Keys
        BY <1>1, <1>3, <1>12, <3>1 DEF Numbered, NumberedAt
      <3>3. CurrentIn(row'.state, active') = <<"REVIEW_SCENARIO", active + 1>>
        BY <1>1, <1>12, <2>1 DEF CurrentIn
      <3> QED  BY <3>2, <3>3
    <2>5. CurrentIsOpen'
      BY <1>1, <1>2, <1>5, <2>1, <2>4 DEF CurrentIsOpen, Working
    <2>6. active' # 0
      BY <1>1, <2>1
    <2>7. \A t \in TaskType, v \in Nat : <<t, v>> \in Keys' => Prerequisite(t)'
      <3> SUFFICES ASSUME NEW t \in TaskType, NEW v \in Nat, <<t, v>> \in Keys' PROVE Prerequisite(t)'
        OBVIOUS
      <3>1. CASE <<t, v>> \in Keys
        BY <1>1, <1>3, <1>8, <2>1, <3>1 DEF Stored
      <3>2. CASE <<t, v>> = <<"REVIEW_SCENARIO", active + 1>>
        BY <2>6, <3>2 DEF Prerequisite
      <3> QED  BY <2>1, <3>1, <3>2
    <2>8. row'.state \in {"GENERATING_SCENARIO", "REVIEWING", "AWAITING_HUMAN_APPROVAL"} =>
            <<"TOPIC_SELECTION", 1>> \in artifacts'
      BY <1>2, <1>3, <1>4, <1>12, <2>1 DEF Stored, Stores, ArtifactType
    <2> QED  BY <1>6, <1>16, <2>2, <2>3, <2>5, <2>7, <2>8 DEF DatabaseInv, Stored
  <1>13. CASE /\ row.state = "REVIEWING"
             /\ Effect("AWAITING_HUMAN_APPROVAL", row.revision, active, {})
    <2>1. /\ row'.state = "AWAITING_HUMAN_APPROVAL" /\ active' = active /\ Keys' = Keys \cup {}
          /\ cur = <<"REVIEW_SCENARIO", active>> /\ done' = done \cup {cur}
      BY <1>13 DEF CurrentIn, Effect
    <2>2. Tables'
      <3>1. "AWAITING_HUMAN_APPROVAL" \in Reached /\ row.revision \in Nat /\ active \in Nat
        BY <1>1 DEF Reached, Working, TERMINAL_STATES
      <3> QED  BY <1>1, <1>7, <1>13, <3>1
    <2>3. Numbered'
      BY <1>1, <1>3, <1>13, <2>1 DEF Numbered, NumberedAt
    <2>5. CurrentIsOpen'
      BY <1>1, <1>2, <1>5, <2>1 DEF CurrentIsOpen, Working, TERMINAL_STATES
    <2>7. \A t \in TaskType, v \in Nat : <<t, v>> \in Keys' => Prerequisite(t)'
      BY <1>1, <1>3, <1>8, <2>1 DEF Stored
    <2>8. row'.state \in {"GENERATING_SCENARIO", "REVIEWING", "AWAITING_HUMAN_APPROVAL"} =>
            <<"TOPIC_SELECTION", 1>> \in artifacts'
      BY <1>2, <1>3, <1>4, <1>13, <2>1 DEF Stored, Stores, ArtifactType
    <2> QED  BY <1>6, <1>16, <2>2, <2>3, <2>5, <2>7, <2>8 DEF DatabaseInv, Stored
  <1>14. CASE /\ row.state = "REVIEWING" /\ row.revision < MaxRevisions
             /\ Effect("GENERATING_SCENARIO", row.revision + 1, active, {<<"GENERATE_SCENARIO", active + 1>>})
    <2>1. /\ row'.state = "GENERATING_SCENARIO" /\ active' = active /\ Keys' = Keys \cup {<<"GENERATE_SCENARIO", active + 1>>}
          /\ cur = <<"REVIEW_SCENARIO", active>> /\ done' = done \cup {cur}
      BY <1>14 DEF CurrentIn, Effect
    <2>2. Tables'
      <3>1. "GENERATING_SCENARIO" \in Reached /\ row.revision + 1 \in Nat /\ active \in Nat
        BY <1>1 DEF Reached, Working, TERMINAL_STATES
      <3> QED  BY <1>1, <1>7, <1>14, <3>1
    <2>3. Numbered'
      <3> SUFFICES ASSUME NEW v \in Nat PROVE NumberedAt(v)'
        BY DEF Numbered
      <3>1. /\ <<"COLLECT", v>> \in Keys' => <<"COLLECT", v>> \in Keys
            /\ <<"SELECT_TOPIC", v>> \in Keys' => <<"SELECT_TOPIC", v>> \in Keys
            /\ <<"GENERATE_SCENARIO", v>> \in Keys' => <<"GENERATE_SCENARIO", v>> \in Keys \/ v = active + 1
            /\ <<"REVIEW_SCENARIO", v>> \in Keys' => <<"REVIEW_SCENARIO", v>> \in Keys
        BY <2>1
      <3>2. NumberedAt(v)
        BY <1>3 DEF Numbered
      <3> QED  BY <1>1, <1>14, <2>1, <3>1, <3>2 DEF NumberedAt
    <2>4. <<"GENERATE_SCENARIO", active + 1>> \notin Keys /\ CurrentIn(row'.state, active') = <<"GENERATE_SCENARIO", active + 1>>
      <3>1. active + 1 \in Nat /\ ~ (active + 1 <= active)
        BY <1>1
      <3>2. <<"GENERATE_SCENARIO", active + 1>> \notin Keys
        BY <1>1, <1>3, <1>14, <3>1 DEF Numbered, NumberedAt
      <3>3. CurrentIn(row'.state, active') = <<"GENERATE_SCENARIO", active + 1>>
        BY <1>1, <1>14, <2>1 DEF CurrentIn
      <3> QED  BY <3>2, <3>3
    <2>5. CurrentIsOpen'
      BY <1>1, <1>2, <1>5, <2>1, <2>4 DEF CurrentIsOpen, Working
    <2>6. <<"TOPIC_SELECTION", 1>> \in artifacts'
      BY <1>2, <1>3, <1>4, <1>14 DEF Stored, Stores, ArtifactType
    <2>7. \A t \in TaskType, v \in Nat : <<t, v>> \in Keys' => Prerequisite(t)'
      <3> SUFFICES ASSUME NEW t \in TaskType, NEW v \in Nat, <<t, v>> \in Keys' PROVE Prerequisite(t)'
        OBVIOUS
      <3>1. CASE <<t, v>> \in Keys
        BY <1>1, <1>3, <1>8, <2>1, <3>1 DEF Stored
      <3>2. CASE <<t, v>> = <<"GENERATE_SCENARIO", active + 1>>
        BY <2>6, <3>2 DEF Prerequisite
      <3> QED  BY <2>1, <3>1, <3>2
    <2>8. row'.state \in {"GENERATING_SCENARIO", "REVIEWING", "AWAITING_HUMAN_APPROVAL"} =>
            <<"TOPIC_SELECTION", 1>> \in artifacts'
      BY <1>2, <1>3, <1>4, <1>14, <2>1 DEF Stored, Stores, ArtifactType
    <2> QED  BY <1>6, <1>16, <2>2, <2>3, <2>5, <2>7, <2>8 DEF DatabaseInv, Stored
  <1>15. CASE /\ row.state = "REVIEWING" /\ row.revision >= MaxRevisions
             /\ Effect("REVIEW_FAILED", row.revision, active, {})
    <2>1. /\ row'.state = "REVIEW_FAILED" /\ active' = active /\ Keys' = Keys \cup {}
          /\ cur = <<"REVIEW_SCENARIO", active>> /\ done' = done \cup {cur}
      BY <1>15 DEF CurrentIn, Effect
    <2>2. Tables'
      <3>1. "REVIEW_FAILED" \in Reached /\ row.revision \in Nat /\ active \in Nat
        BY <1>1 DEF Reached, Working, TERMINAL_STATES
      <3> QED  BY <1>1, <1>7, <1>15, <3>1
    <2>3. Numbered'
      BY <1>1, <1>3, <1>15, <2>1 DEF Numbered, NumberedAt
    <2>5. CurrentIsOpen'
      BY <1>1, <1>2, <1>5, <2>1 DEF CurrentIsOpen, Working, TERMINAL_STATES
    <2>7. \A t \in TaskType, v \in Nat : <<t, v>> \in Keys' => Prerequisite(t)'
      BY <1>1, <1>3, <1>8, <2>1 DEF Stored
    <2>8. row'.state \in {"GENERATING_SCENARIO", "REVIEWING", "AWAITING_HUMAN_APPROVAL"} =>
            <<"TOPIC_SELECTION", 1>> \in artifacts'
      BY <1>2, <1>3, <1>4, <1>15, <2>1 DEF Stored, Stores, ArtifactType
    <2> QED  BY <1>6, <1>16, <2>2, <2>3, <2>5, <2>7, <2>8 DEF DatabaseInv, Stored
  <1> QED  BY <1>9, <1>10, <1>11, <1>12, <1>13, <1>14, <1>15, StageEffects

------------------------------------------------------------------------------
\* Least picks a member.
LEMMA LeastIn ==
  ASSUME NEW S, S \subseteq Nat, S # {}
  PROVE  Least(S) \in S
  <1> DEFINE R == OpToRel(<, Nat)
  <1>1. \A x, y \in Nat : <<y, x>> \in R <=> y < x
    BY DEF OpToRel
  <1>2. IsWellFoundedOn(R, Nat)
    BY NatLessThanWellFounded
  <1> HIDE DEF R
  <1>3. PICK x \in S : \A y \in S : ~ (<<y, x>> \in R)
    BY <1>2, WFMin
  <1>4. \A y \in S : x <= y
    <2> TAKE y \in S
    <2>1. x \in Nat /\ y \in Nat
      OBVIOUS
    <2>2. ~ (y < x)
      BY <1>1, <1>3, <2>1
    <2> QED  BY <2>1, <2>2
  <1> QED  BY <1>3, <1>4 DEF Least

\* No step takes back what a delivery depends on: its task, the effect of the
\* task, the end of the workflow.
Advances ==
  /\ TasksKept /\ done \subseteq done' /\ artifacts \subseteq artifacts' /\ misread \subseteq misread'
  /\ row.state \in TERMINAL_STATES => row'.state \in TERMINAL_STATES
  /\ DOMAIN entries \subseteq DOMAIN entries'
  /\ \A d \in DOMAIN entries : entries'[d].task = entries[d].task

LEMMA SettledForGood ==
  ASSUME PipelineInv, Advances, NEW d \in DOMAIN entries
  PROVE  /\ TaskOf(d)' = TaskOf(d) /\ TaskOf(d) \in DOMAIN tasks'
         /\ Key(TaskOf(d))' = Key(TaskOf(d))
         /\ Settled(d) => Settled(d)'
  <1>1. TaskOf(d)' = TaskOf(d) /\ TaskOf(d) \in DOMAIN tasks
    BY DEF Advances, TaskOf, PipelineInv, StreamInv
  <1>2. TaskOf(d) \in DOMAIN tasks' /\ Key(TaskOf(d))' = Key(TaskOf(d))
    BY <1>1 DEF Advances, TasksKept, Key
  <1> QED  BY <1>1, <1>2 DEF Settled, Advances

\* The threads that a step leaves alone stay right.
LEMMA ThreadKept ==
  ASSUME PipelineInv, Advances, NEW k, k.pc \in PC, SlotOK(k)
  PROVE  SlotOK(k)'
  <1>1. CASE k.pc = "idle"
    BY <1>1 DEF SlotOK
  <1>2. CASE k.pc # "idle"
    <2>1. k.d \in DOMAIN entries
      BY <1>2 DEF SlotOK
    <2>2. /\ k.d \in DOMAIN entries' /\ done \subseteq done'
          /\ row.state \in TERMINAL_STATES => row'.state \in TERMINAL_STATES
          /\ artifacts \subseteq artifacts'
      BY <2>1 DEF Advances
    <2>3. /\ TaskOf(k.d)' = TaskOf(k.d) /\ Key(TaskOf(k.d))' = Key(TaskOf(k.d))
          /\ Settled(k.d) => Settled(k.d)'
      BY <2>1, SettledForGood
    <2>4. RightVersion(k) => RightVersion(k)'
      <3>1. TaskOf(k.d) \in DOMAIN tasks
        BY <2>1 DEF PipelineInv, StreamInv
      <3>2. /\ tasks'[TaskOf(k.d)].type = tasks[TaskOf(k.d)].type
            /\ tasks'[TaskOf(k.d)].ver = tasks[TaskOf(k.d)].ver
        BY <3>1 DEF Advances, TasksKept
      <3>3. ArtifactOf(TaskOf(k.d))' = ArtifactOf(TaskOf(k.d))
        BY <2>3, <3>2 DEF ArtifactOf
      <3> QED  BY <2>2, <2>3, <3>2, <3>3 DEF RightVersion
    <2> QED  BY <2>1, <2>2, <2>3, <2>4 DEF SlotOK
  <1> QED  BY <1>1, <1>2

LEMMA ThreadsKept ==
  ASSUME PipelineInv, Advances, UNCHANGED slot
  PROVE  SlotInv'
  <1>1. \A s \in Slot : slot[s].pc \in PC /\ SlotOK(slot[s])
    BY DEF PipelineInv, SlotInv
  <1> QED  BY <1>1, ThreadKept DEF PipelineInv, SlotInv

\* Only thread s moves.
Thread == [pc : PC, d : Nat, att : Nat, ver : Nat, err : Err]
LEMMA ThreadMoves ==
  ASSUME PipelineInv, Advances, NEW s \in Slot, NEW k \in Thread,
         slot' = [slot EXCEPT ![s] = k], SlotOK(k)'
  PROVE  SlotInv'
  <1>1. slot \in [Slot -> Thread] /\ \A r \in Slot : slot[r].pc \in PC /\ SlotOK(slot[r])
    BY DEF PipelineInv, SlotInv, Thread
  <1>2. slot' \in [Slot -> Thread] /\ \A r \in Slot : slot'[r] = IF r = s THEN k ELSE slot[r]
    BY <1>1
  <1> QED  BY <1>1, <1>2, ThreadKept DEF SlotInv, Thread

\* An idle thread has nothing to keep.
LEMMA IdleOk ==
  Idle \in Thread /\ SlotOK(Idle)'
  BY DEF Idle, Thread, PC, Err, SlotOK

\* Thread s goes on to pc with its delivery, whatever it notes of an error.
LEMMA GoesOn ==
  ASSUME PipelineInv, Advances, NEW s \in Slot, slot[s].pc # "idle", NEW pc \in PC,
         NEW d, d = slot[s].d,
         \/ Go(s, pc)
         \/ \E err \in Err : Raise(s, pc, err)
         \/ \E att \in Nat : slot' = [slot EXCEPT ![s].pc = pc, ![s].att = att],
         pc \in {"committed", "acking"} => Key(TaskOf(d)) \in done',
         pc \in {"skip", "reuse"} => Settled(d)', pc # "handling",
         pc = "ackfail" => row'.state \in TERMINAL_STATES
  PROVE  SlotInv'
  <1>1. PICK k \in Thread : k.pc = pc /\ k.d = d /\ slot' = [slot EXCEPT ![s] = k]
    <2>0. slot \in [Slot -> Thread] /\ slot[s] \in Thread
      BY DEF PipelineInv, SlotInv, Thread
    <2>1. CASE Go(s, pc)
      <3> DEFINE k == [slot[s] EXCEPT !.pc = pc]
      <3>1. k \in Thread /\ k.pc = pc /\ k.d = d
        BY <2>0 DEF Thread
      <3>2. slot' = [slot EXCEPT ![s] = k]
        BY <2>0, <2>1 DEF Go
      <3> HIDE DEF k
      <3> QED  BY <3>1, <3>2
    <2>2. ASSUME NEW err \in Err, Raise(s, pc, err)
          PROVE  \E k \in Thread : k.pc = pc /\ k.d = d /\ slot' = [slot EXCEPT ![s] = k]
      <3> DEFINE k == [slot[s] EXCEPT !.pc = pc, !.err = err]
      <3>1. k \in Thread /\ k.pc = pc /\ k.d = d
        BY <2>0 DEF Thread
      <3>2. slot' = [slot EXCEPT ![s] = k]
        BY <2>0, <2>2 DEF Raise
      <3> HIDE DEF k
      <3> QED  BY <3>1, <3>2
    <2>3. ASSUME NEW att \in Nat, slot' = [slot EXCEPT ![s].pc = pc, ![s].att = att]
          PROVE  \E k \in Thread : k.pc = pc /\ k.d = d /\ slot' = [slot EXCEPT ![s] = k]
      <3> DEFINE k == [slot[s] EXCEPT !.pc = pc, !.att = att]
      <3>1. k \in Thread /\ k.pc = pc /\ k.d = d
        BY <2>0 DEF Thread
      <3>2. slot' = [slot EXCEPT ![s] = k]
        BY <2>0, <2>3
      <3> HIDE DEF k
      <3> QED  BY <3>1, <3>2
    <2> QED  BY <2>1, <2>2, <2>3
  <1>2. d \in DOMAIN entries
    BY MineIsTask
  <1>3. d \in DOMAIN entries' /\ Key(TaskOf(d))' = Key(TaskOf(d))
    BY <1>2, SettledForGood DEF Advances
  <1>4. SlotOK(k)'
    BY <1>1, <1>2, <1>3 DEF SlotOK
  <1> QED  BY <1>1, <1>4, ThreadMoves

\* Thread s has looked up the key of version ver.
LEMMA HasChecked ==
  ASSUME PipelineInv, Advances, NEW s \in Slot, NEW ver \in Nat, CheckKey(s, ver),
         NEW d, d = slot[s].d,
         <<tasks[Mine(s)].type, ver>> \in done => Settled(d)',
         <<tasks[Mine(s)].type, ver>> \notin done =>
           \/ ver = tasks[TaskOf(d)].ver
           \/ ArtifactOf(TaskOf(d)) \in artifacts
  PROVE  SlotInv'
  <1> DEFINE pc == IF <<tasks[Mine(s)].type, ver>> \in done THEN "reuse" ELSE "handling"
             k == [slot[s] EXCEPT !.ver = ver, !.pc = pc]
  <1>1. slot \in [Slot -> Thread] /\ slot[s] \in Thread /\ slot[s].pc # "idle"
    BY DEF PipelineInv, SlotInv, Thread, CheckKey
  <1>2. d \in DOMAIN entries /\ TaskOf(d) \in DOMAIN tasks
    BY <1>1, MineIsTask DEF Mine
  <1>3. pc \in PC /\ pc \in {"reuse", "handling"}
    BY DEF PC
  <1>4. k \in Thread /\ k.pc = pc /\ k.d = d /\ k.ver = ver
    BY <1>1, <1>3 DEF Thread
  <1>5. slot' = [slot EXCEPT ![s] = k]
    BY <1>1 DEF CheckKey
  <1>6. d \in DOMAIN entries' /\ TaskOf(d)' = TaskOf(d) /\ artifacts \subseteq artifacts'
    BY <1>2, SettledForGood DEF Advances
  <1>7. pc = "reuse" => Settled(d)'
    OBVIOUS
  <1>8. /\ tasks'[TaskOf(d)].type = tasks[TaskOf(d)].type
        /\ tasks'[TaskOf(d)].ver = tasks[TaskOf(d)].ver
    BY <1>2 DEF Advances, TasksKept
  <1>9. ArtifactOf(TaskOf(d))' = ArtifactOf(TaskOf(d))
    BY <1>6, <1>8 DEF ArtifactOf
  <1>10. pc = "handling" =>
           ver = tasks'[TaskOf(d)'].ver \/ ArtifactOf(TaskOf(d))' \in artifacts'
    BY <1>6, <1>8, <1>9
  <1>11. PICK c \in Thread : c = k
    BY <1>4
  <1> HIDE DEF k, pc
  <1>12. c.pc = pc /\ c.d = d /\ c.ver = ver /\ slot' = [slot EXCEPT ![s] = c]
    BY <1>4, <1>5, <1>11
  <1>13. SlotOK(c)'
    BY <1>3, <1>6, <1>7, <1>10, <1>12 DEF SlotOK, RightVersion
  <1> QED  BY <1>12, <1>13, ThreadMoves

------------------------------------------------------------------------------
\* Updating rows of the task table does not disturb the database, and neither
\* does ending the workflow.
LEMMA DatabaseKept ==
  ASSUME PipelineInv, TasksKept, Keys' = Keys, UNCHANGED <<done, artifacts, active>>,
         \/ UNCHANGED row
         \/ \E to \in TERMINAL_STATES : row' = [row EXCEPT !.state = to]
  PROVE  DatabaseInv'
  <1>1. Tables /\ Numbered /\ CurrentIsOpen /\ Stored /\ Past
    BY DEF PipelineInv, DatabaseInv
  <1>2. /\ row' \in [state : Reached, revision : Nat]
        /\ row'.state = row.state \/ row'.state \in TERMINAL_STATES
    <2>1. CASE UNCHANGED row
      BY <1>1, <2>1 DEF Tables
    <2>2. ASSUME NEW to \in TERMINAL_STATES, row' = [row EXCEPT !.state = to]
          PROVE  row' \in [state : Reached, revision : Nat] /\ row'.state \in TERMINAL_STATES
      <3>1. to \in Reached /\ row \in [state : Reached, revision : Nat]
        BY <1>1 DEF Tables, Reached
      <3> QED  BY <2>2, <3>1
    <2> QED  BY <2>1, <2>2
  <1>3. /\ row'.state \in Working => row.state = row'.state
        /\ row'.state \in {"COLLECTING", "SELECTING_TOPIC", "GENERATING_SCENARIO", "REVIEWING",
                           "AWAITING_HUMAN_APPROVAL"} => row.state = row'.state
        /\ row'.state \notin TERMINAL_STATES => row.state = row'.state
    BY <1>2 DEF Working, TERMINAL_STATES
  <1>4. Tables'
    BY <1>1, <1>2, <1>3 DEF Tables, TasksKept
  <1>5. Numbered'
    BY <1>1, <1>3 DEF Numbered, NumberedAt
  <1>6. CurrentIsOpen'
    BY <1>1, <1>3 DEF CurrentIsOpen
  <1>7. Stored'
    <2>1. \A t : Prerequisite(t)' = Prerequisite(t)
      BY DEF Prerequisite
    <2> QED  BY <1>1, <1>3, <2>1 DEF Stored
  <1>8. Past'
    BY <1>1 DEF Past
  <1> QED  BY <1>4, <1>5, <1>6, <1>7, <1>8 DEF DatabaseInv

LEMMA SameTasks ==
  ASSUME tasks \in Seq(TaskRecord), UNCHANGED tasks
  PROVE  TasksKept /\ Keys' = Keys
  BY DEF TasksKept, Keys, Key

\* The streams, when nothing is added to them.
LEMMA StreamsKept ==
  ASSUME PipelineInv, Advances, UNCHANGED <<entries, pub>>,
         outbox' = outbox \cup (DOMAIN tasks' \ DOMAIN tasks),
         pending' \subseteq DOMAIN entries, acked' \subseteq DOMAIN entries,
         \A d \in acked' \ acked : Settled(d)'
  PROVE  StreamInv'
  <1>1. StreamInv
    BY DEF PipelineInv
  <1>2. \A d \in DOMAIN entries :
          /\ TaskOf(d)' = TaskOf(d) /\ TaskOf(d) \in DOMAIN tasks'
          /\ Settled(d) => Settled(d)'
    BY SettledForGood
  <1>3. outbox' \subseteq DOMAIN tasks'
    BY <1>1 DEF StreamInv, Advances, TasksKept
  <1>4. \A i \in DOMAIN tasks' : i \in outbox' \/ \E d \in DOMAIN entries' : TaskOf(d)' = i
    <2>1. /\ \A i \in DOMAIN tasks : i \in outbox \/ \E d \in DOMAIN entries : TaskOf(d) = i
          /\ DOMAIN entries' = DOMAIN entries
      BY <1>1 DEF StreamInv
    <2> TAKE i \in DOMAIN tasks'
    <2>2. i \in outbox' \/ \E d \in DOMAIN entries : TaskOf(d) = i
      BY <2>1
    <2> QED  BY <1>2, <2>1, <2>2, Zenon
  <1>5. pub' # 0 => \E d \in DOMAIN entries' : TaskOf(d)' = pub'
    <2>1. /\ pub # 0 => \E d \in DOMAIN entries : TaskOf(d) = pub
          /\ DOMAIN entries' = DOMAIN entries /\ pub' = pub
      BY <1>1 DEF StreamInv
    <2> QED  BY <1>2, <2>1, Zenon
  <1>6. \A d \in acked' : Settled(d)'
    <2>1. acked \subseteq DOMAIN entries /\ \A d \in acked : Settled(d)
      BY <1>1 DEF StreamInv
    <2> TAKE d \in acked'
    <2>2. CASE d \in acked
      BY <1>2, <2>1, <2>2, Zenon
    <2>3. CASE d \notin acked
      BY <2>3
    <2> QED  BY <2>2, <2>3
  <1>7. /\ entries' \in Seq([task : Nat, attempt : Nat])
        /\ pending' \subseteq DOMAIN entries' /\ acked' \subseteq DOMAIN entries'
    BY <1>1 DEF StreamInv
  <1>8. \A d \in DOMAIN entries' : TaskOf(d)' \in DOMAIN tasks'
    <2>1. DOMAIN entries' = DOMAIN entries
      OBVIOUS
    <2> QED  BY <1>2, <2>1, Zenon
  <1> QED  BY <1>3, <1>4, <1>5, <1>6, <1>7, <1>8 DEF StreamInv

\* A step that leaves the database alone.
LEMMA Aside ==
  ASSUME PipelineInv, UNCHANGED <<database, entries>>, misread \subseteq misread'
  PROVE  Advances /\ DatabaseInv' /\ Keys' = Keys
  <1>1. tasks \in Seq(TaskRecord)
    BY DEF PipelineInv, DatabaseInv, Tables
  <1>2. TasksKept /\ Keys' = Keys
    BY <1>1, SameTasks DEF database
  <1>3. Advances
    BY <1>2 DEF Advances, database
  <1>4. DatabaseInv'
    BY <1>2, DatabaseKept DEF database
  <1> QED  BY <1>2, <1>3, <1>4

\* One that touches a thread and its lease at most.
LEMMA AsideStreams ==
  ASSUME PipelineInv, UNCHANGED <<database, streams, pub>>, misread \subseteq misread'
  PROVE  Advances /\ DatabaseInv' /\ StreamInv' /\ Keys' = Keys
  <1>1. Advances /\ DatabaseInv' /\ Keys' = Keys
    BY Aside DEF streams
  <1>2. /\ UNCHANGED <<entries, pub, outbox, tasks, pending, acked>>
        /\ pending \subseteq DOMAIN entries /\ acked \subseteq DOMAIN entries
    BY DEF database, streams, PipelineInv, StreamInv
  <1>3. StreamInv'
    BY <1>1, <1>2, StreamsKept
  <1> QED  BY <1>1, <1>3

------------------------------------------------------------------------------
\* The publisher: a task leaves the outbox only after its message is in the
\* stream.
LEMMA PublisherStep ==
  ASSUME PipelineInv,
         Enqueue \/ MarkPublished \/ PublisherFails \/ PublisherDies \/ PublisherRestarts
  PROVE  PipelineInv' /\ Keys' = Keys
  <1>0. StreamInv /\ tasks \in Seq(TaskRecord)
    BY DEF PipelineInv, DatabaseInv, Tables
  <1>1. CASE Enqueue
    <2> DEFINE i == Least(outbox)
               e == [task |-> i, attempt |-> tasks[i].attempt]
    <2>1. i \in outbox /\ i \in DOMAIN tasks /\ i \in Nat
      <3>1. outbox \subseteq Nat /\ outbox # {} /\ outbox \subseteq DOMAIN tasks
        BY <1>0, <1>1 DEF StreamInv, Enqueue
      <3>2. i \in outbox
        BY <3>1, LeastIn
      <3> QED  BY <3>1, <3>2
    <2>2. e \in [task : Nat, attempt : Nat] /\ e.task = i
      <3>1. tasks[i] \in TaskRecord
        BY <1>0, <2>1
      <3>2. tasks[i].attempt \in Nat
        BY <3>1 DEF TaskRecord
      <3> HIDE DEF i
      <3> QED  BY <2>1, <3>2
    <2>3. /\ entries' = Append(entries, e) /\ pub' = i
          /\ UNCHANGED <<database, pending, acked, slot, misread>>
      BY <1>1 DEF Enqueue, history
    <2> HIDE DEF e, i
    <2>4. /\ entries' \in Seq([task : Nat, attempt : Nat])
          /\ DOMAIN entries' = DOMAIN entries \cup {Len(entries) + 1}
          /\ Len(entries) + 1 \notin DOMAIN entries
          /\ entries'[Len(entries) + 1] = e
          /\ \A d \in DOMAIN entries : entries'[d] = entries[d]
      BY <1>0, <2>2, <2>3 DEF StreamInv
    <2>5. TasksKept /\ Keys' = Keys
      BY <1>0, <2>3, SameTasks DEF database
    <2>6. Advances
      BY <2>3, <2>4, <2>5 DEF Advances, database
    <2>7. DatabaseInv' /\ SlotInv'
      BY <2>3, <2>5, <2>6, DatabaseKept, ThreadsKept DEF database
    <2>8. \A d \in DOMAIN entries :
          /\ TaskOf(d)' = TaskOf(d) /\ TaskOf(d) \in DOMAIN tasks'
          /\ Settled(d) => Settled(d)'
      BY <2>6, SettledForGood
    <2>9. PICK n : n = Len(entries) + 1
      OBVIOUS
    <2>10. TaskOf(n)' = i
      BY <2>2, <2>4, <2>9 DEF TaskOf
    <2>11. /\ DOMAIN entries' = DOMAIN entries \cup {n} /\ UNCHANGED <<tasks, outbox>>
           /\ i \in DOMAIN tasks'
      BY <2>1, <2>3, <2>4, <2>9 DEF database
    <2>12. \A d \in DOMAIN entries' : TaskOf(d)' \in DOMAIN tasks'
      BY <2>8, <2>10, <2>11, Zenon
    <2>13. \A j \in DOMAIN tasks' : j \in outbox' \/ \E d \in DOMAIN entries' : TaskOf(d)' = j
      <3>1. \A j \in DOMAIN tasks : j \in outbox \/ \E d \in DOMAIN entries : TaskOf(d) = j
        BY <1>0 DEF StreamInv
      <3>2. UNCHANGED tasks /\ UNCHANGED outbox
        BY <2>11
      <3>3. DOMAIN entries \subseteq DOMAIN entries'
        BY <2>11
      <3>4. \A j \in DOMAIN tasks : j \in outbox \/ \E d \in DOMAIN entries' : TaskOf(d)' = j
        BY <2>8, <3>1, <3>3, Zenon
      <3> QED  BY <3>2, <3>4
    <2>14. \E d \in DOMAIN entries' : TaskOf(d)' = pub'
      BY <2>3, <2>10, <2>11
    <2>15. \A d \in acked' : Settled(d)'
      <3>1. acked' = acked /\ acked \subseteq DOMAIN entries /\ \A d \in acked : Settled(d)
        BY <1>0, <2>3 DEF StreamInv
      <3> QED  BY <2>8, <3>1, Zenon
    <2>16. /\ outbox' \subseteq DOMAIN tasks'
           /\ pending' \subseteq DOMAIN entries' /\ acked' \subseteq DOMAIN entries'
      BY <1>0, <2>3, <2>11 DEF StreamInv
    <2>17. StreamInv'
      BY <2>4, <2>12, <2>13, <2>14, <2>15, <2>16 DEF StreamInv
    <2> QED  BY <2>5, <2>7, <2>17 DEF PipelineInv
  <1>2. CASE MarkPublished
    <2>1. UNCHANGED <<row, tasks, done, artifacts, active, entries, pending, acked, slot, misread>>
      BY <1>2 DEF MarkPublished, streams, history
    <2>2. TasksKept /\ Keys' = Keys
      BY <1>0, <2>1, SameTasks
    <2>3. Advances
      BY <2>1, <2>2 DEF Advances
    <2>4. DatabaseInv' /\ SlotInv'
      BY <2>1, <2>2, <2>3, DatabaseKept, ThreadsKept
    <2>5. \A d \in DOMAIN entries : TaskOf(d)' = TaskOf(d) /\ (Settled(d) => Settled(d)')
      BY <2>3, SettledForGood
    <2>6. StreamInv'
      BY <1>0, <1>2, <2>1, <2>5 DEF StreamInv, MarkPublished
    <2> QED  BY <2>2, <2>4, <2>6 DEF PipelineInv
  <1>3. CASE PublisherFails \/ PublisherDies
    <2>1. UNCHANGED <<database, streams, slot, misread>> /\ pub' = 0
      BY <1>3 DEF PublisherFails, PublisherDies
    <2>2. Advances /\ DatabaseInv' /\ Keys' = Keys
      BY <2>1, Aside DEF streams
    <2>3. \A d \in DOMAIN entries : TaskOf(d)' = TaskOf(d) /\ (Settled(d) => Settled(d)')
      BY <2>2, SettledForGood
    <2>4. StreamInv'
      BY <1>0, <2>1, <2>3 DEF StreamInv, database, streams
    <2> QED  BY <2>1, <2>2, <2>4, ThreadsKept DEF PipelineInv
  <1>4. CASE PublisherRestarts
    <2>1. UNCHANGED <<database, streams, pub>> /\ UNCHANGED slot /\ UNCHANGED misread
      BY <1>4 DEF PublisherRestarts, history
    <2> QED  BY <2>1, AsideStreams, ThreadsKept DEF PipelineInv
  <1> QED  BY <1>1, <1>2, <1>3, <1>4

------------------------------------------------------------------------------
\* The stale guard throws no work away: a delivery whose task is not the one
\* of the workflow's state has a task that took effect, or comes too late.
LEMMA StaleIsSettled ==
  ASSUME PipelineInv, NEW d \in DOMAIN entries,
         SkipStale(row.state, tasks[TaskOf(d)].type)
  PROVE  Settled(d)
  <1> DEFINE i == TaskOf(d)
  <1>1. i \in DOMAIN tasks
    BY DEF PipelineInv, StreamInv
  <1>2. tasks[i].type \in TaskType /\ Key(i) \in Keys
    <2>1. tasks[i] \in TaskRecord
      BY <1>1 DEF PipelineInv, DatabaseInv, Tables
    <2> QED  BY <1>1, <2>1 DEF TaskRecord, Keys
  <1>3. SUFFICES ASSUME row.state \notin TERMINAL_STATES, Key(i) \notin done PROVE FALSE
    BY DEF Settled
  <1>4. row.state \in Working /\ Key(i) = CurrentIn(row.state, active)
    BY <1>2, <1>3 DEF PipelineInv, DatabaseInv, CurrentIsOpen
  <1>5. row.state = ExpectedStateForTask(tasks[i].type)
    <2>1. CASE row.state = "COLLECTING"
      BY <1>2, <1>4, <2>1 DEF CurrentIn, Key, ExpectedStateForTask
    <2>2. CASE row.state = "SELECTING_TOPIC"
      BY <1>2, <1>4, <2>2 DEF CurrentIn, Key, ExpectedStateForTask
    <2>3. CASE row.state = "GENERATING_SCENARIO"
      BY <1>2, <1>4, <2>3 DEF CurrentIn, Key, ExpectedStateForTask
    <2>4. CASE row.state = "REVIEWING"
      BY <1>2, <1>4, <2>4 DEF CurrentIn, Key, ExpectedStateForTask
    <2> QED  BY <1>4, <2>1, <2>2, <2>3, <2>4 DEF Working
  <1> QED  BY <1>5 DEF SkipStale

\* The steps of a thread that touch neither the tables of the workflow nor
\* the streams.
Quiet(s) ==
  \/ SkipDelivery(s) \/ ProceedDelivery(s) \/ DeferDelivery(s) \/ AcquireLease(s)
  \/ CheckBeforeExecution(s) \/ PayloadUnreadable(s)
  \/ HandlerTransient(s) \/ HandlerPermanent(s) \/ ReleaseLease(s)
  \/ AckUnavailable(s) \/ DatabaseError(s) \/ Finally(s) \/ FinallyRaises(s) \/ Crash(s)

\* A thread that could not read its task's payload goes on with a key that is
\* done, or whose task it handles for the second time.
LEMMA FallbackIsRefused ==
  ASSUME PipelineInv, NEW s \in Slot, slot[s].pc # "idle", NEW ver,
         tasks[Mine(s)].type \in {"GENERATE_SCENARIO", "REVIEW_SCENARIO"},
         ver = FallbackVersion(tasks[Mine(s)].type),
         <<tasks[Mine(s)].type, ver>> \notin done
  PROVE  ver = tasks[Mine(s)].ver \/ ArtifactOf(Mine(s)) \in artifacts
  <1> DEFINE i == Mine(s)
             v == tasks[i].ver
  <1>1. v \in Nat /\ Key(i) = <<tasks[i].type, v>> /\ Key(i) \in Keys /\ active \in Nat
    BY MineIsTask DEF Key, PipelineInv, DatabaseInv, Tables
  <1>2. NumberedAt(v) /\ Past /\ Stored
    BY <1>1 DEF PipelineInv, DatabaseInv, Numbered
  <1>3. CASE tasks[i].type = "GENERATE_SCENARIO"
    <2>1. ver = 1 /\ <<"GENERATE_SCENARIO", 1>> \notin done
      BY <1>3 DEF FallbackVersion
    <2>2. active = 0 /\ v >= 1 /\ v <= active + 1
      BY <1>1, <1>2, <1>3, <2>1 DEF Past, NumberedAt
    <2> QED  BY <1>1, <2>1, <2>2
  <1>4. CASE tasks[i].type = "REVIEW_SCENARIO"
    <2>1. v >= 1 /\ v <= active
      BY <1>1, <1>2, <1>4 DEF NumberedAt
    <2>2. ver = active
      BY <1>1, <1>4, <2>1 DEF FallbackVersion
    <2>3. CASE v < active
      <3>1. <<"REVIEW_SCENARIO", v>> \in done
        BY <1>1, <1>2, <1>4, <2>3 DEF Past
      <3>2. Stores("REVIEW_SCENARIO", v) \in artifacts
        BY <1>1, <1>2, <3>1 DEF Stored, TaskType
      <3> QED  BY <1>4, <3>2 DEF Stores, ArtifactOf
    <2> QED  BY <1>1, <2>1, <2>2, <2>3
  <1> QED  BY <1>3, <1>4

LEMMA QuietStep ==
  ASSUME PipelineInv, NEW s \in Slot, Quiet(s)
  PROVE  PipelineInv' /\ Keys' = Keys
  <1>1. UNCHANGED <<database, streams, pub>> /\ slot[s].pc # "idle" /\ misread \subseteq misread'
    BY DEF Quiet, SkipDelivery, ProceedDelivery, DeferDelivery, AcquireLease,
           CheckBeforeExecution, PayloadUnreadable, CheckKey, HandlerTransient, HandlerPermanent,
           ReleaseLease, AckUnavailable, DatabaseError, Finally, FinallyRaises, Crash,
           publisher, history
  <1>2. Advances /\ DatabaseInv' /\ StreamInv' /\ Keys' = Keys
    BY <1>1, AsideStreams
  <1> SUFFICES SlotInv'
    BY <1>2 DEF PipelineInv
  <1>3. PICK d : d = slot[s].d
    OBVIOUS
  <1>4. /\ d \in DOMAIN entries /\ Mine(s) = TaskOf(d) /\ Mine(s) \in DOMAIN tasks
        /\ tasks[Mine(s)] \in TaskRecord /\ UNCHANGED <<row, done>>
        /\ slot[s].pc \in PC /\ slot[s] \in Thread
    BY <1>1, <1>3, MineIsTask DEF Mine, database, PipelineInv, SlotInv, Thread
  <1>5. SlotOK(slot[s])
    BY DEF PipelineInv, SlotInv
  <1>6. CASE Leave(s)
    BY <1>2, <1>6, IdleOk, ThreadMoves DEF Leave
  <1>7. ASSUME NEW pc \in PC \ {"committed", "acking", "reuse", "skip", "ackfail", "handling"},
               \/ Go(s, pc)
               \/ \E err \in Err : Raise(s, pc, err)
               \/ \E att \in Nat : slot' = [slot EXCEPT ![s].pc = pc, ![s].att = att]
        PROVE  SlotInv'
    BY <1>1, <1>2, <1>3, <1>7, GoesOn
  <1>8. CASE SkipDelivery(s)
    <2>1. Settled(d)'
      BY <1>2, <1>4, <1>8, StaleIsSettled, SettledForGood DEF SkipDelivery
    <2>2. "skip" \in PC /\ Go(s, "skip")
      BY <1>8 DEF SkipDelivery, PC
    <2> QED  BY <1>1, <1>2, <1>3, <2>1, <2>2, GoesOn
  <1>9. CASE ProceedDelivery(s)
    <2>1. EffectiveAttempt(s) \in Nat
      <3> DEFINE M == [task : Nat, attempt : Nat]
      <3>0. entries \in Seq(M) /\ d \in DOMAIN entries
        BY <1>4 DEF PipelineInv, StreamInv
      <3>1. entries[d] \in M
        <4> HIDE DEF M
        <4> QED  BY <3>0
      <3>2. entries[d].attempt \in Nat /\ tasks[Mine(s)].attempt \in Nat
        BY <1>4, <3>1 DEF TaskRecord
      <3> QED  BY <1>3, <3>2 DEF EffectiveAttempt
    <2> QED  BY <1>7, <1>9, <2>1 DEF ProceedDelivery, PC
  <1>10. CASE DeferDelivery(s) \/ Finally(s) \/ FinallyRaises(s) \/ Crash(s)
    BY <1>6, <1>10 DEF DeferDelivery, Finally, FinallyRaises, Crash
  <1>11. CASE AcquireLease(s)
    BY <1>6, <1>7, <1>11 DEF AcquireLease, PC
  <1>12. CASE CheckBeforeExecution(s)
    <2>1. /\ CheckKey(s, tasks[Mine(s)].ver) /\ tasks[Mine(s)].ver \in Nat
          /\ Key(TaskOf(d)) = <<tasks[Mine(s)].type, tasks[Mine(s)].ver>>
      BY <1>4, <1>12 DEF CheckBeforeExecution, Key, TaskRecord
    <2>2. Key(TaskOf(d)) \in done => Settled(d)'
      BY <1>2, <1>4, SettledForGood DEF Settled
    <2> QED  BY <1>2, <1>3, <1>4, <2>1, <2>2, HasChecked
  <1>18. CASE PayloadUnreadable(s)
    <2>1. PICK ver : ver = FallbackVersion(tasks[Mine(s)].type)
      OBVIOUS
    <2>2. /\ CheckKey(s, ver) /\ tasks[Mine(s)].type \in {"GENERATE_SCENARIO", "REVIEW_SCENARIO"}
          /\ <<tasks[Mine(s)].type, ver>> \in done /\ Key(Mine(s)) \notin done => Mine(s) \in misread'
      BY <1>18, <2>1 DEF PayloadUnreadable
    <2>3. ver \in Nat
      BY <2>1 DEF FallbackVersion, PipelineInv, DatabaseInv, Tables
    <2>4. TaskOf(d)' = TaskOf(d) /\ Key(TaskOf(d))' = Key(TaskOf(d))
      BY <1>2, <1>4, SettledForGood
    <2>5. <<tasks[Mine(s)].type, ver>> \in done => Settled(d)'
      BY <1>4, <2>2, <2>4 DEF Settled
    <2>6. <<tasks[Mine(s)].type, ver>> \notin done =>
            ver = tasks[TaskOf(d)].ver \/ ArtifactOf(TaskOf(d)) \in artifacts
      BY <1>1, <1>4, <2>1, <2>2, FallbackIsRefused
    <2> QED  BY <1>2, <1>3, <2>2, <2>3, <2>5, <2>6, HasChecked
  <1>13. CASE HandlerTransient(s)
    BY <1>7, <1>13 DEF HandlerTransient, PC, Err
  <1>14. CASE HandlerPermanent(s)
    BY <1>7, <1>14 DEF HandlerPermanent, PC, Err
  <1>15. CASE ReleaseLease(s)
    <2>1. "acking" \in PC /\ Go(s, "acking") /\ Key(TaskOf(d)) \in done'
      BY <1>3, <1>4, <1>5, <1>15 DEF ReleaseLease, PC, SlotOK
    <2> QED  BY <1>1, <1>2, <1>3, <2>1, GoesOn
  <1>16. CASE AckUnavailable(s)
    BY <1>6, <1>7, <1>16 DEF AckUnavailable, PC, Err
  <1>17. CASE DatabaseError(s)
    BY <1>6, <1>7, <1>17 DEF DatabaseError, PC, Err
  <1> QED
    BY <1>8, <1>9, <1>10, <1>11, <1>12, <1>13, <1>14, <1>15, <1>16, <1>17, <1>18 DEF Quiet

\* Leases come and go without the tables or the threads.
LEMMA LeaseStep ==
  ASSUME PipelineInv, ExpireDeadLease \/ LoseLease
  PROVE  PipelineInv' /\ Keys' = Keys
  <1>1. UNCHANGED <<database, streams, pub>> /\ UNCHANGED slot /\ UNCHANGED misread
    BY DEF ExpireDeadLease, LoseLease, publisher, history
  <1> QED  BY <1>1, AsideStreams, ThreadsKept DEF PipelineInv

\* A thread is given a delivery that is in the stream and not acknowledged.
LEMMA DequeueStep ==
  ASSUME PipelineInv, NEW s \in Slot, NEW type \in TaskType, Dequeue(s, type)
  PROVE  PipelineInv' /\ Keys' = Keys
  <1> DEFINE x == IF Unread(type) # {} THEN Least(Unread(type)) ELSE Least(Unacked(type))
  <1>1. x \in DOMAIN entries /\ x \in Nat
    <2>1. /\ Unread(type) \subseteq DOMAIN entries /\ Unacked(type) \subseteq DOMAIN entries
          /\ DOMAIN entries \subseteq Nat
      BY DEF Unread, Unacked, PipelineInv, StreamInv
    <2>2. Unread(type) # {} \/ Unacked(type) # {}
      BY DEF Dequeue
    <2>3. CASE Unread(type) # {}
      BY <2>1, <2>3, LeastIn
    <2>4. CASE Unread(type) = {}
      BY <2>1, <2>2, <2>4, LeastIn
    <2> QED  BY <2>3, <2>4
  <1>2. /\ pending' = pending \cup {x} /\ UNCHANGED <<database, pub, entries, acked, misread>>
        /\ slot' = [slot EXCEPT ![s] = [Idle EXCEPT !.pc = "received", !.d = x]]
    BY DEF Dequeue, publisher, history
  <1>3. PICK d \in Nat : d = x
    BY <1>1
  <1> HIDE DEF x
  <1>4. Advances /\ DatabaseInv' /\ Keys' = Keys
    BY <1>2, Aside
  <1>5. StreamInv'
    <2>1. /\ pending' \subseteq DOMAIN entries /\ acked' \subseteq DOMAIN entries /\ acked' = acked
          /\ UNCHANGED <<entries, pub>> /\ outbox' = outbox \cup (DOMAIN tasks' \ DOMAIN tasks)
      BY <1>1, <1>2 DEF PipelineInv, StreamInv, database
    <2> QED  BY <1>4, <2>1, StreamsKept
  <1>6. SlotInv'
    <2> DEFINE k == [Idle EXCEPT !.pc = "received", !.d = d]
    <2>1. k \in Thread /\ k.pc = "received" /\ k.d = d
      BY DEF Idle, Thread, PC, Err
    <2>2. slot' = [slot EXCEPT ![s] = k]
      BY <1>2, <1>3
    <2> HIDE DEF k
    <2>3. d \in DOMAIN entries'
      BY <1>1, <1>2, <1>3
    <2>4. SlotOK(k)'
      <3>1. PICK c : c = k
        OBVIOUS
      <3>2. SlotOK(c)'
        BY <2>1, <2>3, <3>1 DEF SlotOK
      <3> QED  BY <3>1, <3>2
    <2> QED  BY <1>4, <2>1, <2>2, <2>4, ThreadMoves
  <1> QED  BY <1>4, <1>5, <1>6 DEF PipelineInv

\* What is acknowledged is settled.
LEMMA AckStep ==
  ASSUME PipelineInv, NEW s \in Slot, Ack(s)
  PROVE  PipelineInv' /\ Keys' = Keys
  <1>1. PICK d : d = slot[s].d
    OBVIOUS
  <1>2. /\ pending' = pending \ {d} /\ acked' = acked \cup {d}
        /\ UNCHANGED <<database, pub, entries, misread>>
        /\ slot[s].pc \in {"skip", "acking", "reuse", "ackfail"}
        /\ Raise(s, "failing", "error") \/ Go(s, "finally") \/ Leave(s)
    BY <1>1 DEF Ack, publisher, history
  <1>3. Advances /\ DatabaseInv' /\ Keys' = Keys
    BY <1>2, Aside
  <1>4. d \in DOMAIN entries /\ slot[s].pc # "idle"
    BY <1>1, <1>2, MineIsTask
  <1>5. Settled(d)'
    <2>1. SlotOK(slot[s])
      BY DEF PipelineInv, SlotInv
    <2>2. Settled(d)
      BY <1>1, <1>2, <2>1 DEF SlotOK, Settled
    <2> QED  BY <1>3, <1>4, <2>2, SettledForGood
  <1>6. StreamInv'
    <2>1. /\ pending' \subseteq DOMAIN entries /\ acked' \subseteq DOMAIN entries
          /\ UNCHANGED <<entries, pub>> /\ outbox' = outbox \cup (DOMAIN tasks' \ DOMAIN tasks)
      BY <1>2, <1>4 DEF PipelineInv, StreamInv, database
    <2>2. \A e \in acked' \ acked : Settled(e)'
      BY <1>2, <1>5
    <2> QED  BY <1>3, <2>1, <2>2, StreamsKept
  <1>7. SlotInv'
    <2>1. CASE Raise(s, "failing", "error")
      <3>1. "failing" \in PC /\ "error" \in Err
        BY DEF PC, Err
      <3> QED  BY <1>1, <1>3, <1>4, <2>1, <3>1, GoesOn
    <2>2. CASE Go(s, "finally")
      <3>1. "finally" \in PC
        BY DEF PC
      <3> QED  BY <1>1, <1>3, <1>4, <2>2, <3>1, GoesOn
    <2>3. CASE Leave(s)
      BY <1>3, <2>3, IdleOk, ThreadMoves DEF Leave
    <2> QED  BY <1>2, <2>1, <2>2, <2>3
  <1> QED  BY <1>3, <1>6, <1>7 DEF PipelineInv

\* A failed attempt is written into the task's row.
LEMMA RetryStep ==
  ASSUME PipelineInv, NEW s \in Slot, RetryLater(s)
  PROVE  /\ PipelineInv' /\ Keys' = Keys /\ TasksKept /\ DOMAIN tasks' = DOMAIN tasks
         /\ \A j \in DOMAIN tasks :
              \/ tasks'[j] = tasks[j]
              \/ /\ j = Mine(s) /\ tasks'[j].status = "DISPATCHED"
                 /\ tasks'[j].attempt = slot[s].att + 1
  <1> DEFINE i == Mine(s)
             u == [tasks[i] EXCEPT !.status = "DISPATCHED", !.attempt = slot[s].att + 1]
  <1>1. PICK d : d = slot[s].d
    OBVIOUS
  <1>2. /\ slot[s].pc # "idle" /\ d \in DOMAIN entries
        /\ i \in DOMAIN tasks /\ tasks[i] \in TaskRecord /\ tasks \in Seq(TaskRecord)
    BY <1>1, MineIsTask DEF RetryLater, PipelineInv, DatabaseInv, Tables
  <1>3. /\ u \in TaskRecord /\ u.type = tasks[i].type /\ u.ver = tasks[i].ver
        /\ u.status = "DISPATCHED" /\ u.attempt = slot[s].att + 1
    <2>1. slot[s].att + 1 \in Nat
      BY DEF PipelineInv, SlotInv
    <2> QED  BY <1>2, <2>1 DEF TaskRecord
  <1>4. /\ tasks' = [tasks EXCEPT ![i] = u] /\ Go(s, "finally")
        /\ UNCHANGED <<row, outbox, pub, done, artifacts, active, entries, pending, acked, misread>>
    BY <1>2 DEF RetryLater, streams, publisher, history
  <1> HIDE DEF u, i
  <1>5. TasksKept /\ Keys' = Keys /\ DOMAIN tasks' = DOMAIN tasks
    BY <1>2, <1>3, <1>4, UpdatedTask, KeptKeys
  <1>6. Advances
    BY <1>4, <1>5 DEF Advances
  <1>7. DatabaseInv'
    BY <1>4, <1>5, DatabaseKept
  <1>8. StreamInv'
    <2>1. /\ pending' \subseteq DOMAIN entries /\ acked' \subseteq DOMAIN entries /\ acked' = acked
          /\ outbox' = outbox \cup (DOMAIN tasks' \ DOMAIN tasks)
      BY <1>4, <1>5 DEF PipelineInv, StreamInv
    <2> QED  BY <1>4, <1>6, <2>1, StreamsKept
  <1>9. SlotInv'
    <2>1. "finally" \in PC
      BY DEF PC
    <2> QED  BY <1>1, <1>2, <1>4, <1>6, <2>1, GoesOn
  <1>10. \A j \in DOMAIN tasks : tasks'[j] = IF j = i THEN u ELSE tasks[j]
    BY <1>2, <1>3, <1>4, UpdatedTask
  <1> QED  BY <1>3, <1>5, <1>7, <1>8, <1>9, <1>10 DEF PipelineInv, i

\* A permanent failure ends the workflow only in the state of its own task;
\* anywhere else it changes nothing.
LEMMA FailStep ==
  ASSUME PipelineInv, NEW s \in Slot, FailWorkflow(s)
  PROVE  /\ PipelineInv' /\ Keys' = Keys /\ UNCHANGED <<done, active>>
         /\ TasksKept /\ DOMAIN tasks' = DOMAIN tasks
         /\ \A j \in DOMAIN tasks :
              /\ tasks'[j].attempt = tasks[j].attempt
              /\ tasks'[j].status = tasks[j].status \/ row'.state \in TERMINAL_STATES
         /\ \/ UNCHANGED row
            \/ /\ row.state \in Working
               /\ \E to \in {"FAILED", "FAILED_PERMANENTLY"} : row' = [row EXCEPT !.state = to]
  <1> DEFINE i == Mine(s)
             status == IF Exhausted(s) THEN "DEAD_LETTER" ELSE "FAILED"
             u == [tasks[i] EXCEPT !.status = status]
  <1>1. PICK d : d = slot[s].d
    OBVIOUS
  <1>2. /\ slot[s].pc # "idle" /\ d \in DOMAIN entries
        /\ i \in DOMAIN tasks /\ tasks[i] \in TaskRecord /\ tasks \in Seq(TaskRecord)
        /\ tasks[i].type \in TaskType
    BY <1>1, MineIsTask DEF FailWorkflow, PipelineInv, DatabaseInv, Tables
  <1>3. UNCHANGED <<outbox, pub, done, artifacts, active, entries, pending, acked, misread>>
    BY DEF FailWorkflow, streams, publisher, history
  <1>4. CASE row.state = ExpectedStateForTask(tasks[i].type)
    <2>1. row.state \in Working /\ row.state \notin TERMINAL_STATES
      BY <1>2, <1>4 DEF ExpectedStateForTask, TaskType, Working, TERMINAL_STATES
    <2>2. PICK to \in {"FAILED", "FAILED_PERMANENTLY"} : row' = [row EXCEPT !.state = to]
      <3> DEFINE signal == IF Exhausted(s) THEN "RETRIES_EXHAUSTED" ELSE "UNRECOVERABLE_ERROR"
      <3>1. PICK dec \in Lookup(row.state, signal, row.revision, MaxRevisions) :
              row' = [row EXCEPT !.state = dec.to]
        BY <1>4 DEF FailWorkflow
      <3>2. signal \in {"RETRIES_EXHAUSTED", "UNRECOVERABLE_ERROR"}
        OBVIOUS
      <3> HIDE DEF signal
      <3>3. dec.to \in {"FAILED", "FAILED_PERMANENTLY"}
        BY <2>1, <3>2, FailureDecisions
      <3> QED  BY <3>1, <3>3
    <2>3. to \in TERMINAL_STATES /\ row'.state = to
      BY <2>2 DEF TERMINAL_STATES, PipelineInv, DatabaseInv, Tables
    <2>4. /\ u \in TaskRecord /\ u.type = tasks[i].type /\ u.ver = tasks[i].ver
          /\ u.attempt = tasks[i].attempt
      BY <1>2 DEF TaskRecord
    <2>5. tasks' = [tasks EXCEPT ![i] = u] /\ Go(s, "ackfail")
      BY <1>2, <1>4 DEF FailWorkflow
    <2> HIDE DEF u, i
    <2>6. TasksKept /\ Keys' = Keys /\ DOMAIN tasks' = DOMAIN tasks
      BY <1>2, <2>4, <2>5, UpdatedTask, KeptKeys
    <2>7. Advances
      BY <1>3, <2>1, <2>6 DEF Advances
    <2>8. DatabaseInv'
      BY <1>3, <2>2, <2>3, <2>6, DatabaseKept
    <2>9. StreamInv'
      <3>1. /\ pending' \subseteq DOMAIN entries /\ acked' \subseteq DOMAIN entries
            /\ acked' = acked /\ outbox' = outbox \cup (DOMAIN tasks' \ DOMAIN tasks)
        BY <1>3, <2>6 DEF PipelineInv, StreamInv
      <3> QED  BY <1>3, <2>7, <3>1, StreamsKept
    <2>10. SlotInv'
      <3>1. "ackfail" \in PC /\ row'.state \in TERMINAL_STATES
        BY <2>3 DEF PC
      <3> QED  BY <1>1, <1>2, <2>5, <2>7, <3>1, GoesOn
    <2>11. \A j \in DOMAIN tasks : tasks'[j] = IF j = i THEN u ELSE tasks[j]
      BY <1>2, <2>4, <2>5, UpdatedTask
    <2> QED  BY <1>3, <2>1, <2>2, <2>3, <2>4, <2>6, <2>8, <2>9, <2>10, <2>11 DEF PipelineInv
  <1>5. CASE row.state # ExpectedStateForTask(tasks[i].type)
    <2>1. UNCHANGED <<database, streams, pub>> /\ UNCHANGED row /\ Go(s, "finally")
      BY <1>3, <1>5 DEF FailWorkflow, database, streams
    <2>2. Advances /\ DatabaseInv' /\ StreamInv' /\ Keys' = Keys
      BY <1>3, <2>1, AsideStreams
    <2>3. SlotInv'
      <3>1. "finally" \in PC
        BY DEF PC
      <3> QED  BY <1>1, <1>2, <2>1, <2>2, <3>1, GoesOn
    <2> QED  BY <1>3, <2>1, <2>2, <2>3 DEF PipelineInv, Advances, database
  <1> QED  BY <1>4, <1>5

\* The stage's transaction.
LEMMA CommitStep ==
  ASSUME PipelineInv, NEW s \in Slot, NEW signal \in HandlerSignals(tasks[Mine(s)].type),
         CommitStage(s, signal)
  PROVE  PipelineInv'
  <1>1. PICK d : d = slot[s].d
    OBVIOUS
  <1>2. /\ slot[s].pc # "idle" /\ d \in DOMAIN entries /\ Mine(s) = TaskOf(d)
        /\ UNCHANGED <<pub, entries, pending, acked, misread>> /\ Go(s, "committed")
    BY <1>1, MineIsTask DEF CommitStage, streams, publisher, history, Mine
  <1>3. /\ Key(Mine(s)) \in done' /\ done \subseteq done' /\ row.state \notin TERMINAL_STATES
        /\ artifacts \subseteq artifacts'
    BY CommitsCurrent DEF Working, TERMINAL_STATES
  <1>4. TasksKept /\ outbox' = outbox \cup (DOMAIN tasks' \ DOMAIN tasks)
    BY StageEffects DEF Effect
  <1>5. Advances
    BY <1>2, <1>3, <1>4 DEF Advances
  <1>6. StreamInv'
    <2>1. pending' \subseteq DOMAIN entries /\ acked' \subseteq DOMAIN entries /\ acked' = acked
      BY <1>2 DEF PipelineInv, StreamInv
    <2> QED  BY <1>2, <1>4, <1>5, <2>1, StreamsKept
  <1>7. SlotInv'
    <2>1. "committed" \in PC /\ Key(TaskOf(d)) \in done'
      BY <1>2, <1>3 DEF PC
    <2> QED  BY <1>1, <1>2, <1>5, <2>1, GoesOn
  <1> QED  BY <1>6, <1>7, StageKeepsDatabase DEF PipelineInv

\* A human decides: the workflow ends, or its next scenario is asked for.
LEMMA ApprovalStep ==
  ASSUME PipelineInv, NEW action \in ApprovalAction, Approval(action)
  PROVE  /\ PipelineInv' /\ row.state = "AWAITING_HUMAN_APPROVAL" /\ UNCHANGED <<done, active>>
         /\ \/ /\ \E to \in {"APPROVED", "REJECTED"} : row' = [row EXCEPT !.state = to]
               /\ Keys' = Keys /\ UNCHANGED tasks
            \/ /\ row' = [row EXCEPT !.state = "GENERATING_SCENARIO"]
               /\ <<"GENERATE_SCENARIO", active + 1>> \notin Keys
               /\ Keys' = Keys \cup {<<"GENERATE_SCENARIO", active + 1>>}
               /\ TasksKept /\ WrittenRows({<<"GENERATE_SCENARIO", active + 1>>})
  <1> DEFINE d == LookupApproval(action)
             new == Dispatched({d}, active)
  <1>1. /\ row.state = "AWAITING_HUMAN_APPROVAL" /\ row' = [row EXCEPT !.state = d.to]
        /\ tasks' = AddTasks(tasks, new)
        /\ outbox' = outbox \cup {j \in {Len(tasks) + 1} : new # {}}
        /\ UNCHANGED <<pub, done, artifacts, active, entries, pending, acked, slot, misread>>
    BY DEF Approval, streams, publisher, history
  <1>2. /\ tasks \in Seq(TaskRecord) /\ active \in Nat /\ active >= 1
        /\ row \in [state : Reached, revision : Nat] /\ row.state \notin TERMINAL_STATES
        /\ done \subseteq Keys
    BY <1>1 DEF PipelineInv, DatabaseInv, Tables, TERMINAL_STATES
  <1>3. ASSUME TasksKept, outbox' = outbox \cup (DOMAIN tasks' \ DOMAIN tasks), DatabaseInv'
        PROVE  PipelineInv'
    <2>1. Advances
      BY <1>1, <1>2, <1>3 DEF Advances
    <2>2. /\ pending' \subseteq DOMAIN entries /\ acked' \subseteq DOMAIN entries /\ acked' = acked
      BY <1>1 DEF PipelineInv, StreamInv
    <2>3. StreamInv'
      BY <1>1, <1>3, <2>1, <2>2, StreamsKept
    <2> QED  BY <1>1, <1>3, <2>1, <2>3, ThreadsKept DEF PipelineInv
  <1>4. CASE action \in {"APPROVE", "REJECT"}
    <2>1. d.to \in {"APPROVED", "REJECTED"} /\ d.task = NoTask
      BY <1>4 DEF LookupApproval, Move, Decide
    <2> HIDE DEF d
    <2>2. new = {}
      BY <2>1 DEF Dispatched
    <2>3. UNCHANGED tasks /\ UNCHANGED outbox
      <3> HIDE DEF new
      <3> QED  BY <1>1, <2>2, Added
    <2>4. TasksKept /\ Keys' = Keys
      BY <1>2, <2>3, SameTasks
    <2>5. d.to \in TERMINAL_STATES /\ outbox' = outbox \cup (DOMAIN tasks' \ DOMAIN tasks)
      BY <2>1, <2>3 DEF TERMINAL_STATES
    <2>6. DatabaseInv'
      BY <1>1, <2>4, <2>5, DatabaseKept
    <2> QED  BY <1>1, <1>3, <2>1, <2>3, <2>4, <2>5, <2>6
  <1>5. CASE action = "REQUEST_REGENERATION"
    <2>1. d.to = "GENERATING_SCENARIO" /\ d.task = "GENERATE_SCENARIO" /\ d.incVer = TRUE
      BY <1>5 DEF LookupApproval, Decide
    <2> HIDE DEF d
    <2> DEFINE n == active + 1
               k == <<"GENERATE_SCENARIO", n>>
    <2>2. new = {NewTask("GENERATE_SCENARIO", n)}
      <3>1. ResolveForTask("GENERATE_SCENARIO", active, TRUE) = n
        BY <1>2 DEF ResolveForTask
      <3>2. {e \in {d} : e.task # NoTask} = {d}
        BY <2>1 DEF NoTask
      <3>3. new = {NewTask(d.task, ResolveForTask(d.task, active, d.incVer))}
        BY <3>2 DEF Dispatched
      <3> QED  BY <2>1, <3>1, <3>3
    <2>3. /\ n \in Nat /\ "GENERATE_SCENARIO" \in TaskType /\ ~ (n <= active)
          /\ row'.state = "GENERATING_SCENARIO" /\ row' \in [state : Reached, revision : Nat]
      <3>1. "GENERATING_SCENARIO" \in Reached
        BY DEF Reached, Working
      <3> QED  BY <1>1, <1>2, <2>1, <3>1 DEF TaskType
    <2>4. tasks' = Append(tasks, NewTask("GENERATE_SCENARIO", n)) /\ outbox' = outbox \cup {Len(tasks) + 1}
      <3> HIDE DEF new, n
      <3> QED  BY <1>1, <2>2, Added
    <2>5. /\ TasksKept /\ Keys' = Keys \cup {k} /\ DOMAIN tasks' = DOMAIN tasks \cup {Len(tasks) + 1}
          /\ tasks'[Len(tasks) + 1] = NewTask("GENERATE_SCENARIO", n)
          /\ \A j \in DOMAIN tasks : tasks'[j] = tasks[j]
      <3> HIDE DEF n
      <3> QED  BY <1>2, <2>3, <2>4, KeptKeys
    <2>6. outbox' = outbox \cup (DOMAIN tasks' \ DOMAIN tasks)
      <3>1. Len(tasks) + 1 \notin DOMAIN tasks
        BY <1>2
      <3> QED  BY <2>4, <2>5, <3>1
    <2>7. Numbered /\ CurrentIsOpen /\ Stored /\ Past
      BY DEF PipelineInv, DatabaseInv
    <2>8. k \notin Keys /\ CurrentIn(row'.state, active') = k
      <3>1. k \notin Keys
        BY <1>1, <2>3, <2>7 DEF Numbered, NumberedAt
      <3>2. CurrentIn(row'.state, active') = k
        BY <1>1, <2>3 DEF CurrentIn
      <3> QED  BY <3>1, <3>2
    <2>9. Tables'
      BY <1>1, <1>2, <2>3, <2>5 DEF Tables, TasksKept
    <2>10. Numbered'
      <3> SUFFICES ASSUME NEW v \in Nat PROVE NumberedAt(v)'
        BY DEF Numbered
      <3>1. /\ <<"COLLECT", v>> \in Keys' => <<"COLLECT", v>> \in Keys
            /\ <<"SELECT_TOPIC", v>> \in Keys' => <<"SELECT_TOPIC", v>> \in Keys
            /\ <<"GENERATE_SCENARIO", v>> \in Keys' => <<"GENERATE_SCENARIO", v>> \in Keys \/ v = active + 1
            /\ <<"REVIEW_SCENARIO", v>> \in Keys' => <<"REVIEW_SCENARIO", v>> \in Keys
        BY <2>5
      <3>2. NumberedAt(v)
        BY <2>7 DEF Numbered
      <3> QED  BY <1>1, <1>2, <2>3, <3>1, <3>2 DEF NumberedAt
    <2>11. CurrentIsOpen'
      <3>1. \A j \in Keys : j \in done
        BY <1>1, <1>2, <2>7 DEF CurrentIsOpen, Working
      <3> HIDE DEF k
      <3> QED  BY <1>1, <1>2, <2>3, <2>5, <2>8, <3>1 DEF CurrentIsOpen, Working
    <2>12. Stored'
      <3>1. \A t : Prerequisite(t)' = Prerequisite(t)
        BY <1>1 DEF Prerequisite
      <3>2. Prerequisite("GENERATE_SCENARIO")
        BY <1>1, <2>7 DEF Stored, Prerequisite
      <3>3. \A t \in TaskType, v \in Nat : <<t, v>> \in Keys' => Prerequisite(t)
        BY <2>5, <2>7, <3>2 DEF Stored
      <3> QED  BY <1>1, <2>7, <3>1, <3>3 DEF Stored
    <2>13. Past'
      <3>1. \A v \in Nat : <<"REVIEW_SCENARIO", v>> \in Keys' => <<"REVIEW_SCENARIO", v>> \in Keys
        BY <2>5
      <3> QED  BY <1>1, <2>7, <3>1 DEF Past
    <2> QED
      <3>1. DatabaseInv'
        BY <2>9, <2>10, <2>11, <2>12, <2>13 DEF DatabaseInv
      <3>2. PipelineInv'
        BY <1>3, <2>5, <2>6, <3>1
      <3>3. WrittenRows({k})
        <4> DEFINE t == NewTask("GENERATE_SCENARIO", n)
        <4>1. /\ t.type = "GENERATE_SCENARIO" /\ t.ver = n /\ t.attempt = 1 /\ t.status = "PENDING"
          BY DEF NewTask
        <4> HIDE DEF t, n
        <4> QED  BY <2>5, <4>1 DEF WrittenRows, t
      <3> QED  BY <1>1, <2>1, <2>5, <2>8, <3>2, <3>3
  <1> QED  BY <1>4, <1>5 DEF ApprovalAction

------------------------------------------------------------------------------
\* initiate_workflow leaves one task, to be published.
LEMMA PipelineInit == Init => PipelineInv /\ Keys = {<<"COLLECT", 1>>}
  <1> SUFFICES ASSUME Init PROVE PipelineInv /\ Keys = {<<"COLLECT", 1>>}
    OBVIOUS
  <1> DEFINE t == NewTask("COLLECT", 1)
  <1>1. t \in TaskRecord /\ t.type = "COLLECT" /\ t.ver = 1
    BY DEF NewTask, TaskRecord, TaskType
  <1>2. tasks = <<t>>
    BY DEF Init
  <1> HIDE DEF t
  <1>3. tasks \in Seq(TaskRecord) /\ DOMAIN tasks = {1} /\ tasks[1] = t
    BY <1>1, <1>2
  <1>4. Keys = {<<"COLLECT", 1>>}
    BY <1>1, <1>3 DEF Keys, Key
  <1>5. row.state = "COLLECTING" /\ row \in [state : Reached, revision : Nat]
    BY DEF Init, Reached, Working
  <1>6. Tables
    BY <1>3, <1>5 DEF Init, Tables
  <1>7. Numbered
    BY <1>4, <1>5 DEF Numbered, NumberedAt
  <1>8. CurrentIsOpen
    BY <1>4, <1>5 DEF CurrentIsOpen, CurrentIn, Working, Init
  <1>9. Stored
    BY <1>4, <1>5 DEF Stored, Init, Prerequisite
  <1>12. Past
    BY DEF Past, Init
  <1>10. StreamInv
    BY <1>3 DEF StreamInv, Init
  <1>11. SlotInv
    <2>1. Idle \in [pc : PC, d : Nat, att : Nat, ver : Nat, err : Err] /\ SlotOK(Idle)
      BY DEF Idle, PC, Err, SlotOK
    <2> QED  BY <2>1 DEF SlotInv, Init
  <1> QED  BY <1>4, <1>6, <1>7, <1>8, <1>9, <1>10, <1>11, <1>12 DEF PipelineInv, DatabaseInv

\* Every step, by what it does to the workflow.
Outside ==
  \/ Enqueue \/ MarkPublished \/ PublisherFails \/ PublisherDies \/ PublisherRestarts
  \/ ExpireDeadLease \/ LoseLease
Delivers(s) ==
  \/ \E type \in TaskType : Dequeue(s, type)
  \/ Quiet(s) \/ Ack(s) \/ RetryLater(s)
LEMMA StepsOf ==
  ASSUME Next
  PROVE  \/ Outside \/ \E s \in Slot : Delivers(s)
         \/ \E s \in Slot : FailWorkflow(s)
         \/ \E s \in Slot : \E signal \in HandlerSignals(tasks[Mine(s)].type) : CommitStage(s, signal)
         \/ \E action \in ApprovalAction : Approval(action)
  BY DEF Next, Process, Outside, Delivers, Quiet

LEMMA DeliverySteps ==
  ASSUME PipelineInv, Outside \/ \E s \in Slot : Delivers(s)
  PROVE  PipelineInv' /\ Keys' = Keys /\ UNCHANGED <<row, done, active>>
  <1>1. PipelineInv' /\ Keys' = Keys
    BY PublisherStep, LeaseStep, DequeueStep, QuietStep, AckStep, RetryStep DEF Outside, Delivers
  <1>2. UNCHANGED <<row, done, active>>
    <2>1. CASE Outside
      BY <2>1 DEF Outside, Enqueue, MarkPublished, PublisherFails, PublisherDies,
             PublisherRestarts, ExpireDeadLease, LoseLease, database
    <2>2. ASSUME NEW s \in Slot, Delivers(s) PROVE UNCHANGED <<row, done, active>>
      BY <2>2 DEF Delivers, Quiet, Dequeue, Ack, RetryLater, SkipDelivery, ProceedDelivery,
             DeferDelivery, AcquireLease, CheckBeforeExecution, PayloadUnreadable,
             HandlerTransient, HandlerPermanent, ReleaseLease, AckUnavailable, DatabaseError,
             Finally, FinallyRaises, Crash, database
    <2> QED  BY <2>1, <2>2
  <1> QED  BY <1>1, <1>2

LEMMA Stutters ==
  ASSUME PipelineInv, UNCHANGED vars
  PROVE  PipelineInv' /\ Keys' = Keys /\ UNCHANGED <<row, done, active>>
  <1>1. /\ UNCHANGED <<database, streams, pub>> /\ UNCHANGED slot /\ UNCHANGED misread
        /\ UNCHANGED <<row, done, active>>
    BY DEF vars, database, streams
  <1> QED  BY <1>1, AsideStreams, ThreadsKept DEF PipelineInv

LEMMA PipelineKept == PipelineInv /\ [Next]_vars => PipelineInv'
  <1> SUFFICES ASSUME PipelineInv, [Next]_vars PROVE PipelineInv'
    OBVIOUS
  <1>1. CASE Next
    BY <1>1, StepsOf, DeliverySteps, FailStep, CommitStep, ApprovalStep
  <1>2. CASE UNCHANGED vars
    BY <1>2, Stutters
  <1> QED  BY <1>1, <1>2

LEMMA PipelineInvariant == Spec => []PipelineInv
  <1>1. Init => PipelineInv
    BY PipelineInit
  <1> QED  BY <1>1, PipelineKept, PTL DEF Spec

\* What the invariant says of acknowledgements, of the handlers' input, of
\* the loser path and of the work at hand.
LEMMA InvSettles == PipelineInv => AckedIsSettled
  BY DEF PipelineInv, StreamInv, AckedIsSettled, Settled

\* A delivery is acknowledged only when its task took effect, the workflow is
\* over, or the task's payload could not be read when its key was looked up
\* (_process_delivery and RedisTaskQueue.ack), for every number of threads,
\* crashes, lost leases and redeliveries.
THEOREM AcknowledgedIsSettled == Spec => []AckedIsSettled
  BY InvSettles, PipelineInvariant, PTL

LEMMA InvFeeds == PipelineInv => PrerequisitesThere
  <1>1. ASSUME PipelineInv, NEW s \in Slot, slot[s].pc = "handling"
        PROVE  Prerequisite(tasks[Mine(s)].type)
    <2>1. tasks[Mine(s)].type \in TaskType /\ tasks[Mine(s)].ver \in Nat /\ Key(Mine(s)) \in Keys
      BY <1>1, MineIsTask
    <2> QED  BY <1>1, <2>1 DEF PipelineInv, DatabaseInv, Stored, Key
  <1> QED  BY <1>1 DEF PrerequisitesThere

\* A handler finds the artifact of the stage before it in the database.
THEOREM HandlersFindInput == Spec => []PrerequisitesThere
  BY InvFeeds, PipelineInvariant, PTL

LEMMA InvExcludesLoser == PipelineInv => NoLoserPath
  <1>1. ASSUME PipelineInv, NEW s \in Slot, slot[s].pc = "handling"
        PROVE  ~ LosesClaim(s)
    <2>1. tasks[Mine(s)].type \in TaskType /\ tasks[Mine(s)].ver \in Nat
      BY <1>1, MineIsTask
    <2>2. slot[s].ver = tasks[Mine(s)].ver \/ ArtifactOf(Mine(s)) \in artifacts
      BY <1>1 DEF PipelineInv, SlotInv, SlotOK, RightVersion, Mine
    <2>3. Stored
      BY <1>1 DEF PipelineInv, DatabaseInv
    <2> QED  BY <2>1, <2>2, <2>3 DEF Stored, Stores, LosesClaim, ArtifactOf
  <1> QED  BY <1>1 DEF NoLoserPath

\* _scenario_c_loser_path is dead code: the artifact table refuses the second
\* executor of a task before its idempotency key can.
THEOREM LoserPathUnreachable == Spec => []NoLoserPath
  BY InvExcludesLoser, PipelineInvariant, PTL

LEMMA InvKeepsWork == PipelineInv => WorkNotLost
  <1>1. ASSUME PipelineInv, row.state \in {ExpectedStateForTask(type) : type \in TaskType}
        PROVE  \E i \in DOMAIN tasks :
                 /\ row.state = ExpectedStateForTask(tasks[i].type)
                 /\ Key(i) \notin done
                 /\ \/ i \in outbox
                    \/ \E d \in DOMAIN entries \ acked : TaskOf(d) = i
                    \/ i \in misread
    <2>1. row.state \in Working /\ row.state \notin TERMINAL_STATES
      BY <1>1 DEF ExpectedStateForTask, TaskType, Working, TERMINAL_STATES
    <2>2. CurrentIn(row.state, active) \in Keys
      BY <1>1, <2>1 DEF PipelineInv, DatabaseInv, CurrentIsOpen
    <2>3. PICK i \in DOMAIN tasks : Key(i) = CurrentIn(row.state, active)
      BY <2>2 DEF Keys
    <2>4. Key(i) \notin done
      BY <1>1, <2>1, <2>2, <2>3 DEF PipelineInv, DatabaseInv, CurrentIsOpen
    <2>5. row.state = ExpectedStateForTask(tasks[i].type)
      <3>1. CASE row.state = "COLLECTING"
        BY <2>3, <3>1 DEF CurrentIn, Key, ExpectedStateForTask
      <3>2. CASE row.state = "SELECTING_TOPIC"
        BY <2>3, <3>2 DEF CurrentIn, Key, ExpectedStateForTask
      <3>3. CASE row.state = "GENERATING_SCENARIO"
        BY <2>3, <3>3 DEF CurrentIn, Key, ExpectedStateForTask
      <3>4. CASE row.state = "REVIEWING"
        BY <2>3, <3>4 DEF CurrentIn, Key, ExpectedStateForTask
      <3> QED  BY <2>1, <3>1, <3>2, <3>3, <3>4 DEF Working
    <2>6. i \in outbox \/ (\E d \in DOMAIN entries \ acked : TaskOf(d) = i) \/ i \in misread
      <3>1. i \in outbox \/ \E d \in DOMAIN entries : TaskOf(d) = i
        BY <1>1 DEF PipelineInv, StreamInv
      <3>2. \A d \in acked : TaskOf(d) # i \/ i \in misread
        BY <1>1, <2>1, <2>4 DEF PipelineInv, StreamInv, Settled
      <3> QED  BY <3>1, <3>2
    <2> QED  BY <2>4, <2>5, <2>6
  <1> QED  BY <1>1 DEF WorkNotLost

\* At least once: a workflow in a working state has an open task for that
\* state which is in the outbox or in a stream, not acknowledged, unless a
\* thread took it for a completed one because it could not read its payload.
THEOREM NoWorkLost == Spec => []WorkNotLost
  BY InvKeepsWork, PipelineInvariant, PTL

------------------------------------------------------------------------------
\* The task that a stage dispatches is a new one.
LEMMA FreshKeys ==
  ASSUME PipelineInv
  PROVE  /\ row.state = "COLLECTING" => <<"SELECT_TOPIC", 1>> \notin Keys
         /\ row.state = "SELECTING_TOPIC" => <<"GENERATE_SCENARIO", 1>> \notin Keys
         /\ row.state = "GENERATING_SCENARIO" => <<"REVIEW_SCENARIO", active + 1>> \notin Keys
         /\ row.state = "REVIEWING" => <<"GENERATE_SCENARIO", active + 1>> \notin Keys
  <1>1. 1 \in Nat /\ active \in Nat /\ active + 1 \in Nat /\ ~ (active + 1 <= active) /\ Numbered
    BY DEF PipelineInv, DatabaseInv, Tables
  <1>2. NumberedAt(1) /\ NumberedAt(active + 1)
    BY <1>1 DEF Numbered
  <1> QED  BY <1>1, <1>2 DEF NumberedAt

LEMMA StageIsAbstract ==
  ASSUME PipelineInv, NEW s \in Slot, NEW signal \in HandlerSignals(tasks[Mine(s)].type),
         CommitStage(s, signal)
  PROVE  Stages!Next
  <1>1. CurrentIn(row.state, active) \in Keys \ done
    BY CommitsCurrent
  <1>2. Stages!Current = CurrentIn(row.state, active)
    BY DEF Stages!Current, CurrentIn
  <1>3. ASSUME NEW to, NEW r, NEW n, NEW new, Effect(to, r, n, new)
        PROVE  /\ row'.state = to /\ row'.revision = r /\ active' = n /\ Stages!Completes
               /\ Keys' = Keys \cup new
    BY <1>1, <1>2, <1>3 DEF Effect, Stages!Completes, Keys
  <1>4. CASE /\ row.state = "COLLECTING"
             /\ Effect("SELECTING_TOPIC", row.revision, active, {<<"SELECT_TOPIC", 1>>})
    BY <1>3, <1>4, FreshKeys DEF Stages!Next, Stages!Collect, Stages!Dispatches, Keys
  <1>5. CASE /\ row.state = "SELECTING_TOPIC"
             /\ Effect("GENERATING_SCENARIO", row.revision, active, {<<"GENERATE_SCENARIO", 1>>})
    BY <1>3, <1>5, FreshKeys DEF Stages!Next, Stages!SelectTopic, Stages!Dispatches, Keys
  <1>6. CASE row.state = "SELECTING_TOPIC" /\ Effect("NO_SUITABLE_TOPIC", row.revision, active, {})
    <2>1. Keys' = Keys
      BY <1>3, <1>6
    <2> QED  BY <1>3, <1>6, <2>1 DEF Stages!Next, Stages!NoSuitableTopic, Keys
  <1>7. CASE /\ row.state = "GENERATING_SCENARIO"
             /\ Effect("REVIEWING", row.revision, active + 1, {<<"REVIEW_SCENARIO", active + 1>>})
    BY <1>3, <1>7, FreshKeys DEF Stages!Next, Stages!Generate, Stages!Dispatches, Keys
  <1>8. CASE row.state = "REVIEWING" /\ Effect("AWAITING_HUMAN_APPROVAL", row.revision, active, {})
    <2>1. Keys' = Keys
      BY <1>3, <1>8
    <2> QED  BY <1>3, <1>8, <2>1 DEF Stages!Next, Stages!Pass, Keys
  <1>9. CASE /\ row.state = "REVIEWING" /\ row.revision < MaxRevisions
             /\ Effect("GENERATING_SCENARIO", row.revision + 1, active,
                       {<<"GENERATE_SCENARIO", active + 1>>})
    BY <1>3, <1>9, FreshKeys DEF Stages!Next, Stages!Revise, Stages!Dispatches, Keys
  <1>10. CASE /\ row.state = "REVIEWING" /\ row.revision >= MaxRevisions
              /\ Effect("REVIEW_FAILED", row.revision, active, {})
    <2>1. Keys' = Keys
      BY <1>3, <1>10
    <2> QED  BY <1>3, <1>10, <2>1 DEF Stages!Next, Stages!GiveUp, Keys
  <1> QED  BY <1>4, <1>5, <1>6, <1>7, <1>8, <1>9, <1>10, StageEffects

LEMMA StepIsAbstract ==
  ASSUME PipelineInv, [Next]_vars
  PROVE  [Stages!Next]_(Stages!vars)
  <1>0. row \in [state : Reached, revision : Nat]
    BY DEF PipelineInv, DatabaseInv, Tables
  <1>1. ASSUME Keys' = Keys, UNCHANGED <<row, done, active>> PROVE UNCHANGED Stages!vars
    BY <1>1 DEF Stages!vars, Keys
  <1>2. CASE UNCHANGED vars
    BY <1>1, <1>2, Stutters
  <1>3. CASE Outside \/ \E s \in Slot : Delivers(s)
    BY <1>1, <1>3, DeliverySteps
  <1>4. CASE \E s \in Slot : FailWorkflow(s)
    <2>1. /\ Keys' = Keys /\ UNCHANGED <<done, active>>
          /\ \/ UNCHANGED row
             \/ /\ row.state \in Working
                /\ \E to \in {"FAILED", "FAILED_PERMANENTLY"} : row' = [row EXCEPT !.state = to]
      BY <1>4, FailStep
    <2>2. CASE UNCHANGED row
      BY <1>1, <2>1, <2>2
    <2>3. ASSUME row.state \in Working, NEW to \in {"FAILED", "FAILED_PERMANENTLY"},
                 row' = [row EXCEPT !.state = to]
          PROVE  Stages!Next
      <3>1. row'.state = to /\ row'.revision = row.revision
        BY <1>0, <2>3
      <3> QED  BY <2>1, <2>3, <3>1 DEF Stages!Next, Stages!Fail, Stages!Working, Working, Keys
    <2> QED  BY <2>1, <2>2, <2>3
  <1>5. CASE \E s \in Slot : \E signal \in HandlerSignals(tasks[Mine(s)].type) : CommitStage(s, signal)
    BY <1>5, StageIsAbstract
  <1>6. CASE \E action \in ApprovalAction : Approval(action)
    <2>1. /\ row.state = "AWAITING_HUMAN_APPROVAL" /\ UNCHANGED <<done, active>>
          /\ \/ /\ \E to \in {"APPROVED", "REJECTED"} : row' = [row EXCEPT !.state = to]
                /\ Keys' = Keys
             \/ /\ row' = [row EXCEPT !.state = "GENERATING_SCENARIO"]
                /\ <<"GENERATE_SCENARIO", active + 1>> \notin Keys
                /\ Keys' = Keys \cup {<<"GENERATE_SCENARIO", active + 1>>}
      BY <1>6, ApprovalStep
    <2>2. ASSUME NEW to \in {"APPROVED", "REJECTED"}, row' = [row EXCEPT !.state = to], Keys' = Keys
          PROVE  Stages!Next
      <3>1. row'.state = to /\ row'.revision = row.revision
        BY <1>0, <2>2
      <3> QED  BY <2>1, <2>2, <3>1 DEF Stages!Next, Stages!Decide, Keys
    <2>3. ASSUME row' = [row EXCEPT !.state = "GENERATING_SCENARIO"],
                 <<"GENERATE_SCENARIO", active + 1>> \notin Keys,
                 Keys' = Keys \cup {<<"GENERATE_SCENARIO", active + 1>>}
          PROVE  Stages!Next
      <3>1. row'.state = "GENERATING_SCENARIO" /\ row'.revision = row.revision
        BY <1>0, <2>3
      <3> QED  BY <2>1, <2>3, <3>1 DEF Stages!Next, Stages!Decide, Stages!Dispatches, Keys
    <2> QED  BY <2>1, <2>2, <2>3
  <1> QED  BY <1>2, <1>3, <1>4, <1>5, <1>6, StepsOf

\* Exactly-once effects over at-least-once delivery: whatever is delivered
\* twice, retried, lost with a process or executed by two threads at once,
\* the stages of a workflow take effect one after the other, each once.
THEOREM StagesTakeEffectOnce == Spec => ImplementsStages
  <1>1. Init => Stages!Init
    <2> SUFFICES ASSUME Init PROVE Stages!Init
      OBVIOUS
    <2>1. Keys = {<<"COLLECT", 1>>} /\ row.state = "COLLECTING" /\ row.revision = 0
      BY PipelineInit DEF Init
    <2> QED  BY <2>1 DEF Init, Stages!Init, Keys
  <1>2. PipelineInv /\ [Next]_vars => [Stages!Next]_(Stages!vars)
    BY StepIsAbstract
  <1> QED  BY <1>1, <1>2, PipelineInvariant, PTL DEF Spec, ImplementsStages, Stages!Spec

------------------------------------------------------------------------------
\* What a step may never do.  A workflow that is over stays so, with the keys
\* and artifacts it has, whatever threads with an old delivery, a lost lease or
\* an open except clause do; the status of a task row is theirs.
OverIsOver ==
  row.state \in TERMINAL_STATES => UNCHANGED <<row, done, artifacts, active>> /\ Keys' = Keys

\* And nothing is taken back: no claimed key, no artifact, no task, no message
\* of a stream, no acknowledgement; a delivery leaves the pending list by an
\* acknowledgement only.
NothingTakenBack ==
  /\ done \subseteq done' /\ artifacts \subseteq artifacts' /\ Keys \subseteq Keys'
  /\ active <= active' /\ row.revision <= row'.revision
  /\ acked \subseteq acked' /\ pending \ pending' \subseteq acked'
  /\ DOMAIN entries \subseteq DOMAIN entries' /\ \A d \in DOMAIN entries : entries'[d] = entries[d]

\* Messages are only added to the streams, and a delivery leaves the pending
\* list by Ack.
LEMMA StreamsGrow ==
  ASSUME PipelineInv, [Next]_vars
  PROVE  /\ acked \subseteq acked' /\ pending \ pending' \subseteq acked'
         /\ DOMAIN entries \subseteq DOMAIN entries'
         /\ \A d \in DOMAIN entries : entries'[d] = entries[d]
  <1> DEFINE Kept == UNCHANGED streams
  <1>0. entries \in Seq([task : Nat, attempt : Nat])
    BY DEF PipelineInv, StreamInv
  <1>1. CASE Kept
    BY <1>1 DEF streams
  <1>2. CASE Enqueue
    <2>1. PICK e : entries' = Append(entries, e) /\ UNCHANGED <<pending, acked>>
      BY <1>2 DEF Enqueue
    <2> QED  BY <1>0, <2>1
  <1>3. ASSUME NEW s \in Slot, NEW type \in TaskType, Dequeue(s, type)
        PROVE  pending \subseteq pending' /\ UNCHANGED <<entries, acked>>
    BY <1>3 DEF Dequeue
  <1>4. ASSUME NEW s \in Slot, Ack(s)
        PROVE  pending' = pending \ {slot[s].d} /\ acked' = acked \cup {slot[s].d} /\ UNCHANGED entries
    BY <1>4 DEF Ack
  <1>5. ASSUME NEW s \in Slot,
               \/ Process(s) \/ DeferDelivery(s) \/ AckUnavailable(s) \/ DatabaseError(s)
               \/ PayloadUnreadable(s) \/ FinallyRaises(s) \/ Crash(s)
        PROVE  Kept \/ Ack(s)
    BY <1>5 DEF Process, SkipDelivery, ProceedDelivery, DeferDelivery, AcquireLease,
       CheckBeforeExecution, PayloadUnreadable, CommitStage, HandlerTransient, HandlerPermanent,
       RetryLater, FailWorkflow, ReleaseLease, AckUnavailable, DatabaseError, Finally,
       FinallyRaises, Crash
  <1>6. ASSUME \/ MarkPublished \/ PublisherFails \/ PublisherDies \/ PublisherRestarts
               \/ ExpireDeadLease \/ LoseLease \/ \E action \in ApprovalAction : Approval(action)
        PROVE  Kept
    BY <1>6 DEF MarkPublished, PublisherFails, PublisherDies, PublisherRestarts, ExpireDeadLease,
       LoseLease, Approval
  <1>7. ASSUME UNCHANGED vars PROVE Kept
    BY <1>7 DEF vars, streams
  <1>8. \/ Kept \/ Enqueue \/ \E s \in Slot : Ack(s)
        \/ \E s \in Slot : \E type \in TaskType : Dequeue(s, type)
    <2> HIDE DEF Kept
    <2> QED  BY <1>5, <1>6, <1>7, Zenon DEF Next
  <1> QED  BY <1>1, <1>2, <1>3, <1>4, <1>8

\* Only a stage's transaction writes artifacts, keys and the active scenario.
LEMMA StoresKept ==
  ASSUME PipelineInv, [Next]_vars
  PROVE  \/ UNCHANGED <<done, artifacts, active>>
         \/ \E s \in Slot : \E signal \in HandlerSignals(tasks[Mine(s)].type) : CommitStage(s, signal)
  BY DEF Next, Process, Enqueue, MarkPublished, PublisherFails, PublisherDies,
     PublisherRestarts, Dequeue, SkipDelivery, ProceedDelivery, DeferDelivery, AcquireLease,
     CheckBeforeExecution, PayloadUnreadable, HandlerTransient, HandlerPermanent, RetryLater,
     FailWorkflow, ReleaseLease, Ack, AckUnavailable, DatabaseError, Finally, FinallyRaises,
     Crash, ExpireDeadLease, LoseLease, Approval, vars, database

LEMMA StepKeepsAll ==
  ASSUME PipelineInv, [Next]_vars
  PROVE  OverIsOver /\ NothingTakenBack
  <1>0. /\ row \in [state : Reached, revision : Nat] /\ active \in Nat /\ row.revision \in Nat
        /\ "AWAITING_HUMAN_APPROVAL" \notin TERMINAL_STATES /\ Working \cap TERMINAL_STATES = {}
    BY DEF PipelineInv, DatabaseInv, Tables, Working, TERMINAL_STATES
  <1> DEFINE Streams == /\ acked \subseteq acked' /\ pending \ pending' \subseteq acked'
                        /\ DOMAIN entries \subseteq DOMAIN entries'
                        /\ \A d \in DOMAIN entries : entries'[d] = entries[d]
  <1>1. Streams
    BY StreamsGrow
  <1>2. CASE UNCHANGED <<done, artifacts, active>>
    <2>1. \/ UNCHANGED row /\ Keys' = Keys
          \/ /\ row.state \notin TERMINAL_STATES /\ row'.revision = row.revision
             /\ Keys \subseteq Keys'
      <3>1. CASE UNCHANGED vars
        BY <3>1, Stutters
      <3>2. CASE Outside \/ \E s \in Slot : Delivers(s)
        BY <3>2, DeliverySteps
      <3>3. CASE \E s \in Slot : FailWorkflow(s)
        <4>1. /\ Keys' = Keys
              /\ \/ UNCHANGED row
                 \/ /\ row.state \in Working
                    /\ \E to \in {"FAILED", "FAILED_PERMANENTLY"} : row' = [row EXCEPT !.state = to]
          BY <3>3, FailStep
        <4> QED  BY <1>0, <4>1
      <3>4. CASE \E s \in Slot : \E signal \in HandlerSignals(tasks[Mine(s)].type) :
                   CommitStage(s, signal)
        BY <1>2, <3>4, CommitsCurrent
      <3>5. CASE \E action \in ApprovalAction : Approval(action)
        <4>1. /\ row.state = "AWAITING_HUMAN_APPROVAL" /\ Keys \subseteq Keys'
              /\ \E to : row' = [row EXCEPT !.state = to]
          BY <3>5, ApprovalStep
        <4> QED  BY <1>0, <4>1
      <3> QED  BY <3>1, <3>2, <3>3, <3>4, <3>5, StepsOf
    <2>2. row.revision <= row'.revision /\ active <= active' /\ Keys \subseteq Keys'
      BY <1>0, <1>2, <2>1
    <2> QED  BY <1>1, <1>2, <2>1, <2>2 DEF OverIsOver, NothingTakenBack
  <1>3. CASE \E s \in Slot : \E signal \in HandlerSignals(tasks[Mine(s)].type) : CommitStage(s, signal)
    <2>1. row.state \in Working /\ artifacts \subseteq artifacts' /\ done \subseteq done'
      BY <1>3, CommitsCurrent
    <2>2. row.state \notin TERMINAL_STATES
      BY <1>0, <2>1
    <2>3. \E to, new : \E revision \in {row.revision, row.revision + 1} :
            \E scenario \in {active, active + 1} : Effect(to, revision, scenario, new)
      BY <1>3, StageEffects
    <2>4. /\ Keys \subseteq Keys' /\ row'.revision \in {row.revision, row.revision + 1}
          /\ active' \in {active, active + 1}
      BY <2>3 DEF Effect
    <2>5. row.revision <= row'.revision /\ active <= active'
      BY <1>0, <2>4
    <2> QED  BY <1>1, <2>1, <2>2, <2>4, <2>5 DEF OverIsOver, NothingTakenBack
  <1> QED  BY <1>2, <1>3, StoresKept

\* A terminal state is final: no thread that still holds a delivery of the
\* workflow, and no approval, changes its row, what it has stored or claimed,
\* or gives it another task (_process_delivery, apply_approval_action).
THEOREM FinalStatesAreFinal == Spec => [][OverIsOver]_vars
  <1>1. PipelineInv /\ [Next]_vars => [OverIsOver]_vars
    BY StepKeepsAll
  <1> QED  BY <1>1, PipelineInvariant, PTL DEF Spec

\* No crash, retry or redelivery takes back what was stored, claimed,
\* published or acknowledged.
THEOREM PipelineTakesNothingBack == Spec => [][NothingTakenBack]_vars
  <1>1. PipelineInv /\ [Next]_vars => [NothingTakenBack]_vars
    BY StepKeepsAll
  <1> QED  BY <1>1, PipelineInvariant, PTL DEF Spec
==============================================================================
