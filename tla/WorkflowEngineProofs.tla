------------------------ MODULE WorkflowEngineProofs -------------------------
(***************************************************************************)
(* Proofs about WorkflowEngine for any set of callers, any revision cap    *)
(* and any number of generation rounds.                                    *)
(***************************************************************************)
EXTENDS WorkflowEngine, FiniteSetTheorems, TLAPS

\* What a decision of the matrix or of the approval table can look like.
\* The rest of the proofs argues from these cases and never opens the tables.
Success ==
  {MoveAndDispatch("COLLECTING", "COLLECTED", "SELECT_TOPIC"),
   Move("COLLECTED", "SELECTING_TOPIC"),
   MoveAndDispatch("SELECTING_TOPIC", "TOPIC_SELECTED", "GENERATE_SCENARIO"),
   Move("TOPIC_SELECTED", "GENERATING_SCENARIO"),
   MoveAndDispatch("GENERATING_SCENARIO", "SCENARIO_GENERATED",
                   "REVIEW_SCENARIO"),
   Move("SCENARIO_GENERATED", "REVIEWING"),
   Decide("REVISION_REQUIRED", "GENERATING_SCENARIO", "GENERATE_SCENARIO",
          FALSE, TRUE),
   Move("REVIEW_PASSED", "AWAITING_HUMAN_APPROVAL"),
   Move("REVIEWING", "REVIEW_PASSED"),
   Decide("REVIEWING", "REVISION_REQUIRED", NoTask, TRUE, FALSE),
   Decide("AWAITING_HUMAN_APPROVAL", "GENERATING_SCENARIO",
          "GENERATE_SCENARIO", FALSE, TRUE)}

IsFailure(d) ==
  /\ d.from \in TRANSIENT_STATES \cup PAUSE_STATES
  /\ d.to \in TERMINAL_STATES
  /\ d = Move(d.from, d.to)

\* A decision starts in the state it was looked up for, counts a revision
\* only below the cap, and is a row of the pipeline or ends the workflow.
LEMMA LookupShape ==
  ASSUME NEW s, NEW signal \in TransitionSignal, NEW r \in Nat, NEW m \in Nat,
         NEW d \in Lookup(s, signal, r, m)
  PROVE  /\ d.from = s
         /\ s \in TRANSIENT_STATES
         /\ d.incRev => r < m
         /\ d \in Success \/ IsFailure(d)
<1>1. s \in TRANSIENT_STATES
  BY DEF Lookup
<1>2. CASE s = "REVIEWING" /\ signal = "CRITIC_REVISE"
  <2>1. d = ReviseDecision(r, m)
    BY <1>1, <1>2 DEF Lookup
  <2>2. CASE r >= m
    <3>1. d = Move(s, "REVIEW_FAILED")
      BY <1>2, <2>1, <2>2 DEF ReviseDecision
    <3>2. QED
      BY <1>1, <3>1 DEF IsFailure, Move, Decide, TERMINAL_STATES
  <2>3. CASE ~(r >= m)
    <3>1. d = Decide("REVIEWING", "REVISION_REQUIRED", NoTask, TRUE, FALSE)
      BY <2>1, <2>3 DEF ReviseDecision
    <3>2. r < m
      BY <2>3
    <3>3. QED
      BY <1>1, <1>2, <3>1, <3>2 DEF Success, Decide
  <2>4. QED BY <2>2, <2>3
<1>3. CASE ~(s = "REVIEWING" /\ signal = "CRITIC_REVISE")
  <2>1. \/ d \in PRIMARY_MATRIX(signal) /\ d.from = s
        \/ \E f \in FailureState(signal) : d = Move(s, f)
    BY <1>1, <1>3 DEF Lookup
  <2>2. CASE d \in PRIMARY_MATRIX(signal) /\ d.from = s
    <3>1. CASE signal = "STAGE_COMPLETED"
      BY <1>1, <2>2, <3>1
      DEF PRIMARY_MATRIX, Success, Move, MoveAndDispatch, Decide
    <3>2. CASE signal = "NO_SUITABLE_TOPIC"
      BY <1>1, <2>2, <3>2
      DEF PRIMARY_MATRIX, IsFailure, Move, Decide, TERMINAL_STATES
    <3>3. CASE signal = "CRITIC_PASS"
      BY <1>1, <2>2, <3>3 DEF PRIMARY_MATRIX, Success, Move, Decide
    <3>4. CASE signal \notin {"STAGE_COMPLETED", "NO_SUITABLE_TOPIC",
                              "CRITIC_PASS"}
      BY <2>2, <3>4 DEF PRIMARY_MATRIX
    <3>5. QED BY <3>1, <3>2, <3>3, <3>4
  <2>3. CASE \E f \in FailureState(signal) : d = Move(s, f)
    <3>1. PICK f \in FailureState(signal) : d = Move(s, f)
      BY <2>3
    <3>2. f \in TERMINAL_STATES
      BY <3>1 DEF FailureState, TransitionSignal, TERMINAL_STATES
    <3>3. QED
      BY <1>1, <3>1, <3>2 DEF IsFailure, Move, Decide
  <2>4. QED BY <2>1, <2>2, <2>3
<1>4. QED BY <1>2, <1>3

LEMMA ApprovalShape ==
  ASSUME NEW action \in ApprovalAction
  PROVE  /\ LookupApproval(action).from = "AWAITING_HUMAN_APPROVAL"
         /\ ~ LookupApproval(action).incRev
         /\ \/ LookupApproval(action) \in Success
            \/ IsFailure(LookupApproval(action))
<1>1. CASE action = "APPROVE"
  BY <1>1 DEF LookupApproval, IsFailure, Move, Decide, PAUSE_STATES,
              TERMINAL_STATES
<1>2. CASE action = "REJECT"
  BY <1>2 DEF LookupApproval, IsFailure, Move, Decide, PAUSE_STATES,
              TERMINAL_STATES
<1>3. CASE action = "REQUEST_REGENERATION"
  BY <1>3 DEF LookupApproval, Success, Decide
<1>4. QED BY <1>1, <1>2, <1>3 DEF ApprovalAction

\* Both shapes are decisions.
LEMMA ShapeIsDecision ==
  ASSUME NEW d, d \in Success \/ IsFailure(d)
  PROVE  d \in TransitionDecision
<1>1. ASSUME NEW a \in WorkflowState, NEW b \in WorkflowState,
             NEW t \in TaskType \cup {NoTask},
             NEW x \in BOOLEAN, NEW y \in BOOLEAN
      PROVE  Decide(a, b, t, x, y) \in TransitionDecision
  BY DEF Decide, TransitionDecision
<1>2. CASE d \in Success
  <2>1. TRANSIENT_STATES \cup PAUSE_STATES \subseteq WorkflowState
    BY DEF WorkflowState
  <2>2. \E a, b \in TRANSIENT_STATES \cup PAUSE_STATES,
           t \in TaskType \cup {NoTask}, x \in BOOLEAN, y \in BOOLEAN :
             d = Decide(a, b, t, x, y)
    BY <1>2 DEF Success, Move, MoveAndDispatch, TRANSIENT_STATES,
                PAUSE_STATES, TaskType, NoTask
  <2>3. QED BY <1>1, <2>1, <2>2
<1>3. CASE IsFailure(d)
  BY <1>1, <1>3 DEF IsFailure, Move, WorkflowState
<1>4. QED BY <1>2, <1>3

------------------------------------------------------------------------------
\* An element of a sequence belongs to the set the sequence is over.
LEMMA SeqElement ==
  ASSUME NEW S, NEW seq \in Seq(S), NEW i \in DOMAIN seq
  PROVE  seq[i] \in S
OBVIOUS

\* Appending keeps the old elements in place and puts the new one last.
LEMMA AppendFacts ==
  ASSUME NEW S, NEW seq \in Seq(S), NEW e \in S
  PROVE  /\ Append(seq, e) \in Seq(S)
         /\ Len(seq) \in Nat
         /\ Len(Append(seq, e)) = Len(seq) + 1
         /\ DOMAIN seq = 1..Len(seq)
         /\ DOMAIN Append(seq, e) = 1..(Len(seq) + 1)
         /\ \A i \in DOMAIN seq : Append(seq, e)[i] = seq[i]
         /\ Append(seq, e)[Len(seq) + 1] = e
         /\ Append(seq, e) # <<>>
OBVIOUS

\* Everything a call with the current version may rely on.
LEMMA CurrentShape ==
  ASSUME TypeOK, NEW k, CurrentCall(k)
  PROVE  /\ k.dec \in TransitionDecision
         /\ k.dec.from = row.state
         /\ k.dec.incRev => row.revision < MaxRevisions
         /\ k.dec \in Success \/ IsFailure(k.dec)
<1>1. row.revision \in Nat /\ MaxRevisions \in Nat
  BY EngineAssumption DEF TypeOK
<1>2. CASE \E signal \in TransitionSignal :
             k.dec \in Lookup(row.state, signal, row.revision, MaxRevisions)
  <2>1. PICK signal \in TransitionSignal :
          k.dec \in Lookup(row.state, signal, row.revision, MaxRevisions)
    BY <1>2
  <2>2. k.dec.from = row.state
    BY <1>1, <2>1, LookupShape
  <2>3. k.dec.incRev => row.revision < MaxRevisions
    BY <1>1, <2>1, LookupShape
  <2>4. k.dec \in Success \/ IsFailure(k.dec)
    BY <1>1, <2>1, LookupShape
  <2>5. QED BY <2>2, <2>3, <2>4, ShapeIsDecision, Zenon
<1>3. CASE /\ row.state = "AWAITING_HUMAN_APPROVAL"
           /\ \E action \in ApprovalAction : k.dec = LookupApproval(action)
  BY <1>3, ApprovalShape, ShapeIsDecision
<1>4. QED BY <1>2, <1>3 DEF CurrentCall

\* The numbers a committing call writes: a generation stores the version
\* after the active one, and both scenario tasks are numbered with it.
LEMMA CommitNumbers ==
  ASSUME IInv, NEW c \in Caller, ExecuteTransition(c)
  PROVE  LET k == call[c]
         IN /\ CurrentCall(k)
            /\ row # Absent
            /\ k.wrote = IF k.dec.to = "SCENARIO_GENERATED" THEN active + 1
                         ELSE 0
            /\ k.dec.task \in {"GENERATE_SCENARIO", "REVIEW_SCENARIO"} =>
                 k.ver = active + 1
            /\ k.dec.task = "SELECT_TOPIC" => k.ver = 1
<1> DEFINE k == call[c]
<1>0. k \in Call /\ active \in Nat /\ row.version \in Nat
  BY DEF IInv, TypeOK
<1>1. CurrentCall(k) /\ row # Absent
  <2>1. k.pc = "built" /\ Updatable(k)
    BY DEF ExecuteTransition
  <2>2. row.version = k.version
    BY <2>1 DEF Updatable
  <2>3. QED BY <2>1, <2>2 DEF IInv, CallInv
<1>2. /\ k.dec \in TransitionDecision
      /\ k.dec.from = row.state
      /\ k.dec \in Success \/ IsFailure(k.dec)
  BY <1>1, CurrentShape DEF IInv
<1>3. k.pc = "built" /\ k.wrote \notin scenarios
  BY DEF ExecuteTransition
<1>4. k.wrote \in ScenarioWrites(k.dec)
  BY <1>1 DEF CurrentCall
<1>5. k.wrote = IF k.dec.to = "SCENARIO_GENERATED" THEN active + 1 ELSE 0
  <2>1. CASE k.dec.to = "SCENARIO_GENERATED"
    <3>1. PICK i \in DOMAIN outbox :
            outbox[i].task = "GENERATE_SCENARIO" /\ k.wrote = outbox[i].ver
      BY <1>4, <2>1 DEF ScenarioWrites, GenerateVersions
    <3>2. outbox[i] \in [task : TaskType, ver : Nat]
      <4>1. outbox \in Seq([task : TaskType, ver : Nat])
        BY DEF IInv, TypeOK
      <4>2. QED BY <4>1, SeqElement
    <3>3. k.wrote >= 1 /\ k.wrote <= active + 1
      BY <3>1 DEF IInv, StageInv, ScenariosInStep
    <3>4. k.wrote \notin 1..active
      BY <1>3 DEF IInv, ScenariosInStep
    <3>5. QED BY <1>0, <2>1, <3>1, <3>2, <3>3, <3>4
  <2>2. CASE k.dec.to # "SCENARIO_GENERATED"
    BY <1>4, <2>2 DEF ScenarioWrites
  <2>3. QED BY <2>1, <2>2
<1>6. k.dec.task # NoTask =>
        k.ver = ResolveForTask(k.dec.task,
                               IF k.wrote = 0 THEN active ELSE k.wrote,
                               k.dec.incVer)
  BY <1>1, <1>3 DEF CurrentCall
<1>7. CASE IsFailure(k.dec)
  BY <1>1, <1>5, <1>7 DEF IsFailure, Move, Decide, NoTask
<1>8. CASE k.dec \in Success
  <2>1. k.dec.task = "SELECT_TOPIC" => k.ver = 1
    BY <1>6 DEF ResolveForTask, NoTask
  <2>2. CASE k.dec.task = "REVIEW_SCENARIO"
    <3>1. k.dec.to = "SCENARIO_GENERATED" /\ k.dec.incVer = FALSE
      BY <1>8, <2>2 DEF Success, Move, MoveAndDispatch, Decide, NoTask
    <3>2. QED
      BY <1>0, <1>1, <1>5, <1>6, <2>2, <3>1 DEF ResolveForTask, NoTask
  <2>3. CASE k.dec.task = "GENERATE_SCENARIO"
    <3>1. /\ k.dec.to # "SCENARIO_GENERATED"
          /\ \/ row.state = "SELECTING_TOPIC" /\ k.dec.incVer = FALSE
             \/ /\ row.state \in {"REVISION_REQUIRED",
                                  "AWAITING_HUMAN_APPROVAL"}
                /\ k.dec.incVer = TRUE
      BY <1>2, <1>8, <2>3 DEF Success, Move, MoveAndDispatch, Decide, NoTask
    <3>2. k.wrote = 0
      BY <1>5, <3>1
    <3>3. CASE row.state = "SELECTING_TOPIC" /\ k.dec.incVer = FALSE
      <4>1. active = 0
        BY <3>3 DEF IInv, StageInv, BeforeScenarios
      <4>2. k.ver = 1
        BY <1>6, <2>3, <3>2, <3>3, <4>1 DEF ResolveForTask, NoTask
      <4>3. QED BY <1>1, <1>5, <2>3, <4>1, <4>2
    <3>4. CASE /\ row.state \in {"REVISION_REQUIRED",
                                 "AWAITING_HUMAN_APPROVAL"}
               /\ k.dec.incVer = TRUE
      <4>1. active >= 1
        BY <3>4 DEF IInv, StageInv, AfterScenarios
      <4>2. k.ver = active + 1
        BY <1>0, <1>6, <2>3, <3>2, <3>4, <4>1 DEF ResolveForTask, NoTask
      <4>3. QED BY <1>1, <1>5, <2>3, <4>2
    <3>5. QED BY <3>1, <3>3, <3>4
  <2>4. QED BY <1>1, <1>5, <2>1, <2>2, <2>3
<1>9. QED BY <1>2, <1>7, <1>8

------------------------------------------------------------------------------
\* Type correctness is inductive by itself.
LEMMA TypeInit == Init => TypeOK
<1> SUFFICES ASSUME Init PROVE TypeOK
  OBVIOUS
<1>1. Idle \in Call
  BY DEF Idle, Call, NoDecision, Move, Decide, TransitionDecision,
         WorkflowState, TRANSIENT_STATES, NoTask
<1>2. QED
  BY <1>1 DEF Init, TypeOK, Absent

LEMMA IdleType == Idle \in Call
  BY DEF Idle, Call, NoDecision, Move, Decide, TransitionDecision,
         WorkflowState, TRANSIENT_STATES, NoTask

LEMMA TypeStep == TypeOK /\ [Next]_vars => TypeOK'
<1> SUFFICES ASSUME TypeOK, [Next]_vars PROVE TypeOK'
  OBVIOUS
<1>t. /\ row.state \in WorkflowState \cup {"ABSENT"}
      /\ row.version \in Nat /\ row.revision \in Nat
      /\ active \in Nat
      /\ call \in [Caller -> Call]
  BY DEF TypeOK
<1>r. ASSUME NEW c \in Caller, NEW k \in Call,
             call' = [call EXCEPT ![c] = k], UNCHANGED tables
      PROVE  TypeOK'
  BY <1>r DEF TypeOK, tables
<1>1. CASE UNCHANGED vars
  BY <1>1 DEF vars, TypeOK
<1>2. CASE \E c \in Caller : InitiateRead(c)
  <2>1. PICK c \in Caller : InitiateRead(c)
    BY <1>2
  <2>2. [Idle EXCEPT !.pc = "initiating"] \in Call
    BY IdleType DEF Call
  <2>3. QED BY <1>r, <2>1, <2>2 DEF InitiateRead
<1>3. CASE \E c \in Caller : InitiateCommit(c)
  <2>1. PICK c \in Caller : InitiateCommit(c)
    BY <1>3
  <2>2. row' \in [state : WorkflowState \cup {"ABSENT"}, version : Nat,
                  revision : Nat]
    BY <2>1 DEF InitiateCommit, WorkflowState, TRANSIENT_STATES
  <2>3. history' \in Seq([from : WorkflowState, to : WorkflowState])
    <3>1. [from |-> "CREATED", to |-> "COLLECTING"]
            \in [from : WorkflowState, to : WorkflowState]
      BY DEF WorkflowState, TRANSIENT_STATES
    <3>2. history \in Seq([from : WorkflowState, to : WorkflowState])
      BY DEF TypeOK
    <3>3. QED BY <2>1, <3>1, <3>2, AppendFacts DEF InitiateCommit
  <2>4. outbox' \in Seq([task : TaskType, ver : Nat])
    <3>1. [task |-> "COLLECT", ver |-> 1] \in [task : TaskType, ver : Nat]
      BY DEF TaskType
    <3>2. outbox \in Seq([task : TaskType, ver : Nat])
      BY DEF TypeOK
    <3>3. QED BY <2>1, <3>1, <3>2, AppendFacts DEF InitiateCommit
  <2>5. call' \in [Caller -> Call]
    BY <1>t, <2>1, IdleType DEF InitiateCommit
  <2>6. QED BY <2>1, <2>2, <2>3, <2>4, <2>5 DEF InitiateCommit, TypeOK
<1>d. ASSUME NEW d \in TransitionDecision, NEW w \in Nat
      PROVE  Decided(d, w) \in Call
  BY <1>d, <1>t DEF Decided, Call
<1>4. CASE \E c \in Caller, expected \in WorkflowState,
              signal \in TransitionSignal :
             ApplyTransition(c, expected, signal)
  <2>1. PICK c \in Caller, expected \in WorkflowState,
             signal \in TransitionSignal : ApplyTransition(c, expected, signal)
    BY <1>4
  <2>2. PICK d \in Lookup(expected, signal, row.revision, MaxRevisions) :
               \E w \in ScenarioWrites(d) :
                 call' = [call EXCEPT ![c] = Decided(d, w)]
    BY <2>1 DEF ApplyTransition
  <2>w. PICK w \in ScenarioWrites(d) :
               call' = [call EXCEPT ![c] = Decided(d, w)]
    BY <2>2
  <2>3. d \in TransitionDecision
    <3>1. d \in Success \/ IsFailure(d)
      BY <1>t, <2>2, EngineAssumption, LookupShape
    <3>2. QED BY <3>1, ShapeIsDecision
  <2>4. w \in Nat
    <3>1. outbox \in Seq([task : TaskType, ver : Nat])
      BY DEF TypeOK
    <3>2. \A i \in DOMAIN outbox : outbox[i] \in [task : TaskType, ver : Nat]
      BY <3>1, SeqElement
    <3>3. QED BY <2>w, <3>2 DEF ScenarioWrites, GenerateVersions
  <2>5. QED BY <1>d, <1>r, <2>1, <2>w, <2>3, <2>4 DEF ApplyTransition
<1>5. CASE \E c \in Caller, action \in ApprovalAction :
             ApplyApprovalAction(c, action)
  <2>1. PICK c \in Caller, action \in ApprovalAction :
               ApplyApprovalAction(c, action)
    BY <1>5
  <2>2. LookupApproval(action) \in TransitionDecision
    BY ApprovalShape, ShapeIsDecision
  <2>3. Decided(LookupApproval(action), 0) \in Call
    BY <1>d, <2>2
  <2>4. QED BY <1>r, <2>1, <2>3 DEF ApplyApprovalAction
<1>6. CASE \E c \in Caller : BuildForDecision(c)
  <2>1. PICK c \in Caller : BuildForDecision(c)
    BY <1>6
  <2> DEFINE k == call[c]
             seen == IF k.wrote = 0 THEN active ELSE k.wrote
             ver == IF k.dec.task = NoTask THEN 0
                    ELSE ResolveForTask(k.dec.task, seen, k.dec.incVer)
  <2>2. k \in Call
    BY <1>t
  <2>3. seen \in Nat
    BY <1>t, <2>2 DEF Call
  <2>4. ver \in Nat
    <3> HIDE DEF seen
    <3>1. QED BY <2>3 DEF ResolveForTask
  <2>5. [k EXCEPT !.pc = "built", !.ver = ver] \in Call
    <3> HIDE DEF ver
    <3>1. QED BY <2>2, <2>4 DEF Call
  <2>6. call' = [call EXCEPT ![c] = [k EXCEPT !.pc = "built", !.ver = ver]]
    BY <1>t, <2>1 DEF BuildForDecision
  <2>7. QED BY <1>r, <2>1, <2>5, <2>6 DEF BuildForDecision
<1>7. CASE \E c \in Caller : ExecuteTransition(c)
  <2>1. PICK c \in Caller : ExecuteTransition(c)
    BY <1>7
  <2> DEFINE k == call[c]
  <2>2. k \in Call /\ k.dec \in TransitionDecision
    BY <1>t DEF Call
  <2>3. row' \in [state : WorkflowState \cup {"ABSENT"}, version : Nat,
                  revision : Nat]
    <3>1. k.dec.to \in WorkflowState /\ k.revision \in Nat
      BY <2>2 DEF TransitionDecision, Call
    <3>2. QED BY <1>t, <2>1, <3>1 DEF ExecuteTransition
  <2>4. history' \in Seq([from : WorkflowState, to : WorkflowState])
    <3>1. [from |-> k.dec.from, to |-> k.dec.to]
            \in [from : WorkflowState, to : WorkflowState]
      BY <2>2 DEF TransitionDecision
    <3>2. history \in Seq([from : WorkflowState, to : WorkflowState])
      BY DEF TypeOK
    <3>3. history' = Append(history, [from |-> k.dec.from, to |-> k.dec.to])
      BY <2>1 DEF ExecuteTransition
    <3>4. QED BY <3>1, <3>2, <3>3, AppendFacts
  <2>5. outbox' \in Seq([task : TaskType, ver : Nat])
    <3>1. outbox \in Seq([task : TaskType, ver : Nat])
      BY DEF TypeOK
    <3>2. CASE k.dec.task = NoTask
      BY <2>1, <3>1, <3>2 DEF ExecuteTransition
    <3>3. CASE k.dec.task # NoTask
      <4>1. [task |-> k.dec.task, ver |-> k.ver]
              \in [task : TaskType, ver : Nat]
        BY <2>2, <3>3 DEF TransitionDecision, Call
      <4>2. outbox' = Append(outbox, [task |-> k.dec.task, ver |-> k.ver])
        BY <2>1, <3>3 DEF ExecuteTransition
      <4>3. QED BY <3>1, <4>1, <4>2, AppendFacts
    <3>4. QED BY <3>2, <3>3
  <2>6. scenarios' \in SUBSET Nat /\ active' \in Nat
    BY <1>t, <2>1, <2>2 DEF ExecuteTransition, Call, TypeOK
  <2>7. call' \in [Caller -> Call]
    BY <1>t, <2>1, IdleType DEF ExecuteTransition
  <2>8. QED BY <2>3, <2>4, <2>5, <2>6, <2>7 DEF TypeOK
<1>8. CASE \E c \in Caller : Rollback(c)
  BY <1>8, <1>r, IdleType DEF Rollback
<1>9. QED
  BY <1>1, <1>2, <1>3, <1>4, <1>5, <1>6, <1>7, <1>8 DEF Next

\* Every reachable state is well typed, whatever the callers do.
THEOREM TypeCorrect == Spec => []TypeOK
<1>1. TypeOK /\ [Next]_vars => TypeOK'
  BY TypeStep
<1>2. QED BY <1>1, TypeInit, PTL DEF Spec

------------------------------------------------------------------------------
\* The strengthened invariant.
LEMMA InvInit == Init => IInv
<1> SUFFICES ASSUME Init PROVE IInv
  OBVIOUS
<1>1. TypeOK
  BY TypeInit
<1>2. /\ HistoryIsPath /\ RevisionsWithinCap /\ TaskKeysUnique
      /\ ScenariosInStep /\ ReviewsActiveScenario
  BY EngineAssumption
  DEF Init, Absent, HistoryIsPath, RevisionsWithinCap, TaskKeysUnique,
      ScenariosInStep, ReviewsActiveScenario
<1>3. StageInv
  BY DEF Init, Absent, StageInv, AfterScenarios, BeforeScenarios
<1>4. CallInv
  BY DEF Init, CallInv, Idle
<1>5. QED BY <1>1, <1>2, <1>3, <1>4 DEF IInv

\* A step that writes no table keeps everything but what is said of the
\* calls.
LEMMA ReadOnly ==
  ASSUME IInv, [Next]_vars, UNCHANGED tables, CallInv'
  PROVE  IInv'
<1>1. TypeOK'
  BY TypeStep DEF IInv
<1>2. /\ HistoryIsPath' /\ RevisionsWithinCap' /\ TaskKeysUnique'
      /\ ScenariosInStep' /\ ReviewsActiveScenario' /\ StageInv'
  BY DEF IInv, tables, HistoryIsPath, RevisionsWithinCap, TaskKeysUnique,
         ScenariosInStep, ReviewsActiveScenario, StageInv
<1>3. QED BY <1>1, <1>2 DEF IInv

\* If only one caller's transaction changed, the others need no proof.
LEMMA OneCall ==
  ASSUME IInv, UNCHANGED tables, NEW c \in Caller, NEW k,
         call' = [call EXCEPT ![c] = k],
         k.pc \in {"decided", "built"} =>
           row # Absent /\ k.version <= row.version
           /\ (k.version = row.version => CurrentCall(k))
  PROVE  CallInv'
<1>1. call \in [Caller -> Call]
  BY DEF IInv, TypeOK
<1>2. SUFFICES ASSUME NEW b \in Caller, call'[b].pc \in {"decided", "built"}
               PROVE  /\ row' # Absent
                      /\ call'[b].version <= row'.version
                      /\ call'[b].version = row'.version =>
                           CurrentCall(call[b])'
  BY DEF CallInv
<1>3. /\ row # Absent
      /\ call'[b].version <= row.version
      /\ call'[b].version = row.version => CurrentCall(call'[b])
  BY <1>1, <1>2 DEF IInv, CallInv
<1>4. QED
  BY <1>3 DEF tables, CurrentCall, ScenarioWrites, GenerateVersions

\* The reads, the rollbacks and stuttering.
LEMMA ReadSteps ==
  ASSUME IInv, [Next]_vars, UNCHANGED tables
  PROVE  IInv'
<1>t. /\ row.version \in Nat /\ row.revision \in Nat
      /\ call \in [Caller -> Call]
  BY DEF IInv, TypeOK
<1>i. Idle.pc = "idle"
  BY DEF Idle
<1>1. CASE UNCHANGED vars
  BY <1>1, ReadOnly
  DEF vars, IInv, CallInv, CurrentCall, ScenarioWrites, GenerateVersions
<1>2. CASE \E c \in Caller : InitiateRead(c) \/ Rollback(c)
  <2>1. PICK c \in Caller : InitiateRead(c) \/ Rollback(c)
    BY <1>2
  <2>2. PICK k : call' = [call EXCEPT ![c] = k]
                 /\ k.pc \notin {"decided", "built"}
    BY <2>1 DEF InitiateRead, Rollback, Idle
  <2>3. CallInv'
    BY <2>2, OneCall
  <2>4. QED BY <2>3, ReadOnly
<1>3. CASE \E c \in Caller, expected \in WorkflowState,
              signal \in TransitionSignal :
             ApplyTransition(c, expected, signal)
  <2>1. PICK c \in Caller, expected \in WorkflowState,
             signal \in TransitionSignal : ApplyTransition(c, expected, signal)
    BY <1>3
  <2>2. PICK d \in Lookup(expected, signal, row.revision, MaxRevisions) :
               \E w \in ScenarioWrites(d) :
                 call' = [call EXCEPT ![c] = Decided(d, w)]
    BY <2>1 DEF ApplyTransition
  <2>3. PICK w \in ScenarioWrites(d) :
               call' = [call EXCEPT ![c] = Decided(d, w)]
    BY <2>2
  <2>4. row.state = expected /\ row # Absent
    BY <2>1 DEF ApplyTransition, Absent, WorkflowState, TERMINAL_STATES,
                PAUSE_STATES, TRANSIENT_STATES
  <2>5. d.from = row.state
    <3>1. MaxRevisions \in Nat
      BY EngineAssumption
    <3>2. d.from = expected
      BY <1>t, <2>2, <3>1, LookupShape
    <3>3. QED BY <2>4, <3>2
  <2>6. CurrentCall(Decided(d, w))
    BY <2>2, <2>3, <2>4, <2>5 DEF CurrentCall, Decided
  <2>7. Decided(d, w).version <= row.version
    BY <1>t DEF Decided
  <2>8. CallInv'
    <3> DEFINE k == Decided(d, w)
    <3>1. /\ call' = [call EXCEPT ![c] = k]
          /\ k.version <= row.version /\ CurrentCall(k)
      BY <2>3, <2>6, <2>7
    <3> HIDE DEF k
    <3>2. QED BY <2>4, <3>1, OneCall
  <2>9. QED BY <2>8, ReadOnly
<1>4. CASE \E c \in Caller, action \in ApprovalAction :
             ApplyApprovalAction(c, action)
  <2>1. PICK c \in Caller, action \in ApprovalAction :
               ApplyApprovalAction(c, action)
    BY <1>4
  <2> DEFINE d == LookupApproval(action)
  <2>2. row.state = "AWAITING_HUMAN_APPROVAL" /\ row # Absent
    BY <2>1 DEF ApplyApprovalAction, Absent
  <2>3. d.from = row.state /\ (d \in Success \/ IsFailure(d))
    BY <2>2, ApprovalShape
  <2>4. 0 \in ScenarioWrites(d)
    <3>1. d.to # "SCENARIO_GENERATED"
      BY DEF LookupApproval, ApprovalAction, Move, Decide
    <3>2. QED BY <3>1 DEF ScenarioWrites
  <2>5. CurrentCall(Decided(d, 0))
    BY <2>2, <2>3, <2>4 DEF CurrentCall, Decided
  <2>6. Decided(d, 0).version <= row.version
    BY <1>t DEF Decided
  <2>7. call' = [call EXCEPT ![c] = Decided(d, 0)]
    BY <2>1 DEF ApplyApprovalAction
  <2>8. CallInv'
    <3> DEFINE k == Decided(d, 0)
    <3>1. /\ call' = [call EXCEPT ![c] = k]
          /\ k.version <= row.version /\ CurrentCall(k)
      BY <2>5, <2>6, <2>7
    <3> HIDE DEF k
    <3>2. QED BY <2>2, <3>1, OneCall
  <2>9. QED BY <2>8, ReadOnly
<1>5. CASE \E c \in Caller : BuildForDecision(c)
  <2>1. PICK c \in Caller : BuildForDecision(c)
    BY <1>5
  <2> DEFINE k == call[c]
             ver == IF k.dec.task = NoTask THEN 0
                    ELSE ResolveForTask(k.dec.task,
                           IF k.wrote = 0 THEN active ELSE k.wrote,
                           k.dec.incVer)
             b == [k EXCEPT !.pc = "built", !.ver = ver]
  <2>2. k \in Call /\ k.pc = "decided"
    BY <1>t, <2>1 DEF BuildForDecision
  <2>3. call' = [call EXCEPT ![c] = b]
    BY <1>t, <2>1 DEF BuildForDecision
  <2>4. /\ b.pc = "built" /\ b.ver = ver /\ b.version = k.version
        /\ b.revision = k.revision /\ b.dec = k.dec /\ b.wrote = k.wrote
    <3> HIDE DEF ver
    <3>1. QED BY <2>2 DEF Call
  <2>5. row # Absent /\ k.version <= row.version
        /\ (k.version = row.version => CurrentCall(k))
    BY <2>2 DEF IInv, CallInv
  <2>6. k.version = row.version => CurrentCall(b)
    <3> HIDE DEF b
    <3>1. QED BY <2>4, <2>5 DEF CurrentCall
  <2>7. CallInv'
    <3> HIDE DEF b
    <3>1. QED BY <2>3, <2>4, <2>5, <2>6, OneCall
  <2>8. QED BY <2>7, ReadOnly
<1>6. CASE \E c \in Caller : InitiateCommit(c) \/ ExecuteTransition(c)
  <2>1. PICK c \in Caller : InitiateCommit(c) \/ ExecuteTransition(c)
    BY <1>6
  <2>2. row' # row
    BY <1>t, <2>1 DEF InitiateCommit, ExecuteTransition, Absent
  <2>3. QED BY <2>2 DEF tables
<1>7. QED
  BY <1>1, <1>2, <1>3, <1>4, <1>5, <1>6 DEF Next

\* The insert of the workflow finds no row, so nobody holds a decision.
LEMMA InitiateStep ==
  ASSUME IInv, NEW c \in Caller, InitiateCommit(c)
  PROVE  IInv'
<1>0. [Next]_vars
  BY DEF Next
<1>1. TypeOK'
  BY <1>0, TypeStep DEF IInv
<1>2. /\ row = Absent /\ history = <<>> /\ outbox = <<>>
      /\ active = 0 /\ scenarios = {}
  <2>1. row = Absent
    BY DEF InitiateCommit
  <2>2. history = <<>>
    BY <2>1 DEF IInv, HistoryIsPath
  <2>3. outbox = <<>> /\ active = 0
    BY <2>1 DEF IInv, StageInv, Absent, BeforeScenarios
  <2>4. QED BY <2>1, <2>2, <2>3 DEF IInv, ScenariosInStep
<1>3. /\ row' = [state |-> "COLLECTING", version |-> 2, revision |-> 0]
      /\ history' = <<[from |-> "CREATED", to |-> "COLLECTING"]>>
      /\ outbox' = <<[task |-> "COLLECT", ver |-> 1]>>
      /\ scenarios' = {} /\ active' = 0
  BY <1>2 DEF InitiateCommit
<1>4. row' # Absent
  BY <1>3 DEF Absent
<1>5. /\ HistoryIsPath' /\ RevisionsWithinCap' /\ TaskKeysUnique'
      /\ ScenariosInStep' /\ ReviewsActiveScenario'
  BY <1>3, <1>4, EngineAssumption
  DEF HistoryIsPath, RevisionsWithinCap, TaskKeysUnique, ScenariosInStep,
      ReviewsActiveScenario
<1>6. StageInv'
  BY <1>3 DEF StageInv, BeforeScenarios, AfterScenarios
<1>7. CallInv'
  <2>1. \A b \in Caller : call'[b].pc \notin {"decided", "built"}
    <3>1. call \in [Caller -> Call]
      BY DEF IInv, TypeOK
    <3>2. \A b \in Caller : call[b].pc \notin {"decided", "built"}
      BY <1>2 DEF IInv, CallInv
    <3>3. call' = [call EXCEPT ![c] = Idle] /\ Idle.pc = "idle"
      BY DEF InitiateCommit, Idle
    <3>4. QED BY <3>1, <3>2, <3>3
  <2>2. QED BY <2>1 DEF CallInv
<1>8. QED BY <1>1, <1>5, <1>6, <1>7 DEF IInv

\* The conditional update, the audit row, the task and the scenario.
LEMMA ExecuteStep ==
  ASSUME IInv, NEW c \in Caller, ExecuteTransition(c)
  PROVE  IInv'
<1> DEFINE k == call[c]
           d == k.dec
           entry == [task |-> d.task, ver |-> k.ver]
<1>0. [Next]_vars
  BY DEF Next
<1>t. /\ row.version \in Nat /\ row.revision \in Nat /\ active \in Nat
      /\ call \in [Caller -> Call] /\ MaxRevisions \in Nat
      /\ history \in Seq([from : WorkflowState, to : WorkflowState])
      /\ outbox \in Seq([task : TaskType, ver : Nat])
      /\ k \in Call
  BY EngineAssumption DEF IInv, TypeOK
<1>1. TypeOK'
  BY <1>0, TypeStep DEF IInv
<1>2. /\ row' = [state |-> d.to, version |-> row.version + 1,
                 revision |-> IF d.incRev THEN k.revision + 1
                              ELSE row.revision]
      /\ history' = Append(history, [from |-> d.from, to |-> d.to])
      /\ outbox' = IF d.task = NoTask THEN outbox ELSE Append(outbox, entry)
      /\ scenarios' = IF k.wrote = 0 THEN scenarios
                      ELSE scenarios \cup {k.wrote}
      /\ active' = IF k.wrote = 0 THEN active ELSE k.wrote
      /\ call' = [call EXCEPT ![c] = Idle]
  BY DEF ExecuteTransition
<1>3. /\ CurrentCall(k)
      /\ row # Absent
      /\ k.wrote = IF d.to = "SCENARIO_GENERATED" THEN active + 1 ELSE 0
      /\ d.task \in {"GENERATE_SCENARIO", "REVIEW_SCENARIO"} =>
           k.ver = active + 1
      /\ d.task = "SELECT_TOPIC" => k.ver = 1
  BY CommitNumbers
<1>4. /\ d \in TransitionDecision /\ d.from = row.state
      /\ d.incRev => row.revision < MaxRevisions
      /\ d \in Success \/ IsFailure(d)
  BY <1>3, CurrentShape DEF IInv
<1>5. k.revision = row.revision
  BY <1>3 DEF CurrentCall
<1>6. /\ active' = IF d.to = "SCENARIO_GENERATED" THEN active + 1 ELSE active
      /\ scenarios' = IF d.to = "SCENARIO_GENERATED"
                      THEN scenarios \cup {active + 1} ELSE scenarios
  <2>1. CASE d.to = "SCENARIO_GENERATED"
    <3>1. k.wrote = active + 1 /\ k.wrote # 0
      BY <1>t, <1>3, <2>1
    <3>2. QED BY <1>2, <2>1, <3>1
  <2>2. CASE d.to # "SCENARIO_GENERATED"
    BY <1>2, <1>3, <2>2
  <2>3. QED BY <2>1, <2>2
<1>7. HistoryIsPath'
  <2>1. row' # Absent
    BY <1>t, <1>2 DEF Absent
  <2>2. history # <<>> /\ Len(history) \in Nat /\ Len(history) >= 1
    BY <1>t, <1>3 DEF IInv, HistoryIsPath
  <2>3. history[Len(history)].to = d.from /\ history[1].from = "CREATED"
        /\ row.version = Len(history) + 1
    BY <1>3, <1>4 DEF IInv, HistoryIsPath
  <2>4. [from |-> d.from, to |-> d.to]
          \in [from : WorkflowState, to : WorkflowState]
    BY <1>4 DEF TransitionDecision
  <2>5. /\ Len(history') = Len(history) + 1 /\ history' # <<>>
        /\ \A i \in 1..Len(history) : history'[i] = history[i]
        /\ history'[Len(history) + 1] = [from |-> d.from, to |-> d.to]
    <3> DEFINE e == [from |-> d.from, to |-> d.to]
               T == [from : WorkflowState, to : WorkflowState]
    <3>1. history \in Seq(T) /\ e \in T /\ history' = Append(history, e)
      BY <1>t, <1>2, <2>4
    <3> HIDE DEF e, T
    <3>2. /\ Len(history') = Len(history) + 1 /\ history' # <<>>
          /\ \A i \in 1..Len(history) : history'[i] = history[i]
          /\ history'[Len(history) + 1] = e
      BY <3>1, AppendFacts
    <3>3. QED BY <3>2 DEF e
  <2>6. history'[1].from = "CREATED" /\ history'[Len(history')].to = row'.state
    BY <1>2, <2>2, <2>3, <2>5
  <2>7. row'.version = Len(history') + 1
    BY <1>2, <2>3, <2>5
  <2>8. ASSUME NEW i \in 1..(Len(history') - 1)
        PROVE  history'[i].to = history'[i + 1].from
    <3>1. CASE i = Len(history)
      BY <2>2, <2>3, <2>5, <3>1
    <3>2. CASE i # Len(history)
      <4>1. i \in 1..(Len(history) - 1) /\ i + 1 \in 1..Len(history)
        BY <2>2, <2>5, <2>8, <3>2
      <4>2. history[i].to = history[i + 1].from
        BY <4>1 DEF IInv, HistoryIsPath
      <4>3. QED BY <2>2, <2>5, <4>1, <4>2
    <3>3. QED BY <3>1, <3>2
  <2>9. QED BY <2>1, <2>5, <2>6, <2>7, <2>8 DEF HistoryIsPath
<1>8. RevisionsWithinCap'
  <2>1. row.revision <= MaxRevisions
    BY DEF IInv, RevisionsWithinCap
  <2>2. row'.revision <= MaxRevisions
    BY <1>t, <1>2, <1>4, <1>5, <2>1
  <2>3. QED BY <2>2 DEF RevisionsWithinCap
<1>o. /\ d.task # NoTask =>
           /\ d.task \in TaskType
           /\ Len(outbox) \in Nat
           /\ DOMAIN outbox = 1..Len(outbox)
           /\ DOMAIN outbox' = 1..(Len(outbox) + 1)
           /\ Len(outbox') = Len(outbox) + 1
           /\ \A i \in DOMAIN outbox : outbox'[i] = outbox[i]
           /\ outbox'[Len(outbox) + 1] = entry
      /\ d.task = NoTask => outbox' = outbox
  <2>1. CASE d.task # NoTask
    <3>1. entry \in [task : TaskType, ver : Nat] /\ d.task \in TaskType
      BY <1>t, <1>4, <2>1 DEF TransitionDecision, Call
    <3>2. outbox' = Append(outbox, entry)
      BY <1>2, <2>1
    <3> HIDE DEF entry, d
    <3>3. QED BY <1>t, <2>1, <3>1, <3>2, AppendFacts
  <2>2. QED BY <1>2, <2>1
<1>e. \A i \in DOMAIN outbox : outbox[i].ver \in Nat
  <2>1. \A i \in DOMAIN outbox : outbox[i] \in [task : TaskType, ver : Nat]
    BY <1>t, SeqElement
  <2>2. QED BY <2>1
<1>s. /\ d.task \in {NoTask, "SELECT_TOPIC", "GENERATE_SCENARIO",
                     "REVIEW_SCENARIO"}
      /\ d.task = "SELECT_TOPIC" => d.from = "COLLECTING"
                                    /\ d.to = "COLLECTED"
      /\ d.task = "GENERATE_SCENARIO" =>
           /\ d.from \in {"SELECTING_TOPIC", "REVISION_REQUIRED",
                          "AWAITING_HUMAN_APPROVAL"}
           /\ d.to \in {"TOPIC_SELECTED", "GENERATING_SCENARIO"}
      /\ d.task = "REVIEW_SCENARIO" <=> d.to = "SCENARIO_GENERATED"
  <2>1. CASE d \in Success
    <3> HIDE DEF d
    <3>1. QED BY <2>1 DEF Success, Move, MoveAndDispatch, Decide, NoTask
  <2>2. CASE IsFailure(d)
    <3> HIDE DEF d
    <3>1. QED BY <2>2 DEF IsFailure, Move, Decide, NoTask, TERMINAL_STATES
  <2>3. QED BY <1>4, <2>1, <2>2
<1>9. ScenariosInStep'
  <2>1. scenarios = 1..active
    BY DEF IInv, ScenariosInStep
  <2>2. scenarios' = 1..active'
    <3>1. 1..(active + 1) = 1..active \cup {active + 1}
      BY <1>t
    <3>2. QED BY <1>6, <2>1, <3>1
  <2>3. \A i \in DOMAIN outbox :
          /\ outbox[i].task = "GENERATE_SCENARIO" =>
               outbox[i].ver <= active' + 1
          /\ outbox[i].task = "REVIEW_SCENARIO" => outbox[i].ver \in scenarios'
    BY <1>t, <1>6, <1>e DEF IInv, ScenariosInStep
  <2>4. CASE d.task = NoTask
    BY <1>o, <2>2, <2>3, <2>4 DEF ScenariosInStep
  <2>5. CASE d.task # NoTask
    <3>1. /\ entry.task = "GENERATE_SCENARIO" => entry.ver <= active' + 1
          /\ entry.task = "REVIEW_SCENARIO" => entry.ver \in scenarios'
      BY <1>t, <1>3, <1>6, <1>s
    <3> HIDE DEF entry, d
    <3>2. ASSUME NEW i \in DOMAIN outbox'
          PROVE  /\ outbox'[i].task = "GENERATE_SCENARIO" =>
                      outbox'[i].ver <= active' + 1
                 /\ outbox'[i].task = "REVIEW_SCENARIO" =>
                      outbox'[i].ver \in scenarios'
      <4>1. i \in DOMAIN outbox \/ i = Len(outbox) + 1
        BY <1>o, <2>5
      <4>2. QED BY <1>o, <2>3, <2>5, <3>1, <4>1
    <3>3. QED BY <2>2, <3>2 DEF ScenariosInStep
  <2>6. QED BY <2>4, <2>5
<1>10. TaskKeysUnique'
  <2>1. CASE d.task = NoTask
    BY <1>o, <2>1 DEF IInv, TaskKeysUnique
  <2>2. CASE d.task # NoTask
    <3>1. ASSUME NEW i \in DOMAIN outbox PROVE outbox[i] # entry
      <4>1. CASE d.task = "SELECT_TOPIC"
        <5>1. outbox[i].task = "COLLECT"
          BY <1>4, <1>s, <3>1, <4>1 DEF IInv, StageInv
        <5>2. QED BY <4>1, <5>1
      <4>2. CASE d.task = "GENERATE_SCENARIO"
        <5>1. row.state \in AfterScenarios \cup {"COLLECTED",
                                                 "SELECTING_TOPIC"}
          BY <1>4, <1>s, <4>2 DEF AfterScenarios
        <5>2. ~ (outbox[i].task = "GENERATE_SCENARIO"
                 /\ outbox[i].ver = active + 1)
          BY <3>1, <5>1 DEF IInv, StageInv
        <5>3. entry.task = "GENERATE_SCENARIO" /\ entry.ver = active + 1
          BY <1>3, <4>2
        <5>4. QED BY <5>2, <5>3
      <4>3. CASE d.task = "REVIEW_SCENARIO"
        <5>1. outbox[i].task = "REVIEW_SCENARIO" => outbox[i].ver <= active
          BY <1>t, <3>1 DEF IInv, ScenariosInStep
        <5>2. entry.task = "REVIEW_SCENARIO" /\ entry.ver = active + 1
          BY <1>3, <4>3
        <5>3. QED BY <1>t, <5>1, <5>2
      <4>4. QED BY <1>s, <2>2, <4>1, <4>2, <4>3
    <3>2. \A i, j \in DOMAIN outbox : outbox[i] = outbox[j] => i = j
      BY DEF IInv, TaskKeysUnique
    <3> HIDE DEF entry, d
    <3>3. ASSUME NEW i \in DOMAIN outbox', NEW j \in DOMAIN outbox',
                 outbox'[i] = outbox'[j]
          PROVE  i = j
      <4>1. /\ i \in DOMAIN outbox \/ i = Len(outbox) + 1
            /\ j \in DOMAIN outbox \/ j = Len(outbox) + 1
        BY <1>o, <2>2
      <4>2. QED BY <1>o, <2>2, <3>1, <3>2, <3>3, <4>1
    <3>4. QED BY <3>3 DEF TaskKeysUnique
  <2>3. QED BY <2>1, <2>2
<1>11. ReviewsActiveScenario'
  <2>1. CASE d.to = "SCENARIO_GENERATED"
    <3>1. d.task = "REVIEW_SCENARIO" /\ d.task # NoTask
      BY <1>s, <2>1 DEF NoTask
    <3>2. entry = [task |-> "REVIEW_SCENARIO", ver |-> active']
      BY <1>3, <1>6, <2>1, <3>1
    <3>3. outbox'[Len(outbox')] = entry
      BY <1>o, <3>1
    <3>4. QED BY <3>2, <3>3 DEF ReviewsActiveScenario
  <2>2. CASE d.to = "REVIEWING"
    <3>1. d.from = "SCENARIO_GENERATED" /\ d.task = NoTask
      <4>1. d \in Success
        BY <1>4, <2>2 DEF IsFailure, TERMINAL_STATES
      <4> HIDE DEF d
      <4>2. QED BY <2>2, <4>1
            DEF Success, Move, MoveAndDispatch, Decide, NoTask
    <3>2. outbox' = outbox /\ active' = active
      BY <1>6, <1>o, <2>2, <3>1
    <3>3. QED BY <1>4, <3>1, <3>2 DEF IInv, ReviewsActiveScenario
  <2>3. QED
    BY <1>2, <2>1, <2>2 DEF ReviewsActiveScenario
<1>12. StageInv'
  <2>1. row'.state = d.to
    BY <1>2
  <2>2. /\ d.to \notin {"CREATED", "ABSENT", "COLLECTING"}
        /\ d.to \in BeforeScenarios => d.from \in BeforeScenarios
        /\ d.to \in AfterScenarios =>
             d.from \in AfterScenarios \/ d.to = "SCENARIO_GENERATED"
        /\ d.to \in AfterScenarios \cup {"COLLECTED", "SELECTING_TOPIC"} =>
             \/ d.to = "SCENARIO_GENERATED"
             \/ d.from \in AfterScenarios \cup {"COLLECTED", "SELECTING_TOPIC"}
             \/ d.from = "COLLECTING"
        /\ d.to = "REVISION_REQUIRED" => d.incRev
    <3>1. CASE d \in Success
      <4> HIDE DEF d
      <4>1. QED BY <3>1 DEF Success, Move, MoveAndDispatch, Decide,
                            BeforeScenarios, AfterScenarios
    <3>2. CASE IsFailure(d)
      <4> HIDE DEF d
      <4>1. QED BY <3>2 DEF IsFailure, TERMINAL_STATES, BeforeScenarios,
                            AfterScenarios
    <3>3. QED BY <1>4, <3>1, <3>2
  <2>3. /\ row'.state \in BeforeScenarios => active' = 0
        /\ row'.state \in AfterScenarios => active' >= 1
    <3>1. "SCENARIO_GENERATED" \notin BeforeScenarios
      BY DEF BeforeScenarios
    <3>2. QED BY <1>t, <1>4, <1>6, <2>1, <2>2, <3>1 DEF IInv, StageInv
  <2>4. row'.state = "REVISION_REQUIRED" => row'.revision >= 1
    BY <1>t, <1>2, <1>5, <2>2
  <2>5. ASSUME NEW i \in DOMAIN outbox'
        PROVE  /\ outbox'[i].ver >= 1
               /\ outbox'[i].task = "GENERATE_SCENARIO"
                  /\ outbox'[i].ver = active' + 1
                    => row'.state \notin AfterScenarios
                         \cup {"COLLECTED", "SELECTING_TOPIC"}
    <3>1. CASE i \in DOMAIN outbox
      <4>1. outbox'[i] = outbox[i]
        BY <1>o, <3>1
      <4>2. /\ outbox[i].ver \in Nat /\ outbox[i].ver >= 1
            /\ outbox[i].task = "GENERATE_SCENARIO" =>
                 outbox[i].ver <= active + 1
            /\ row.state = "COLLECTING" => outbox[i].task = "COLLECT"
            /\ outbox[i].task = "GENERATE_SCENARIO"
               /\ outbox[i].ver = active + 1
                 => row.state \notin AfterScenarios
                      \cup {"COLLECTED", "SELECTING_TOPIC"}
        BY <1>e, <3>1 DEF IInv, StageInv, ScenariosInStep
      <4> HIDE DEF d
      <4>3. QED BY <1>t, <1>4, <1>6, <2>1, <2>2, <4>1, <4>2
    <3>2. CASE i \notin DOMAIN outbox
      <4>1. d.task # NoTask /\ i = Len(outbox) + 1 /\ outbox'[i] = entry
        BY <1>o, <2>5, <3>2
      <4>2. /\ entry.ver >= 1
            /\ entry.task = "GENERATE_SCENARIO" =>
                 d.to \in {"TOPIC_SELECTED", "GENERATING_SCENARIO"}
        BY <1>t, <1>3, <1>s, <4>1
      <4>3. QED BY <2>1, <4>1, <4>2 DEF AfterScenarios
    <3>3. QED BY <3>1, <3>2
  <2>6. QED BY <2>1, <2>2, <2>3, <2>4, <2>5 DEF StageInv
<1>13. CallInv'
  <2>1. ASSUME NEW b \in Caller, call'[b].pc \in {"decided", "built"}
        PROVE  call'[b].version < row'.version
    <3>1. b # c /\ call'[b] = call[b]
      BY <1>t, <1>2, <2>1 DEF Idle
    <3>2. call[b].version \in Nat /\ call[b].version <= row.version
      BY <1>t, <2>1, <3>1 DEF IInv, CallInv, Call
    <3>3. QED BY <1>t, <1>2, <3>1, <3>2
  <2>2. ASSUME NEW b \in Caller PROVE call'[b].version \in Nat
    BY <1>1 DEF TypeOK, Call
  <2>3. row' # Absent /\ row'.version \in Nat
    BY <1>t, <1>2 DEF Absent
  <2>4. QED BY <2>1, <2>2, <2>3 DEF CallInv
<1>14. QED
  BY <1>1, <1>7, <1>8, <1>9, <1>10, <1>11, <1>12, <1>13 DEF IInv

LEMMA InvStep == IInv /\ [Next]_vars => IInv'
<1> SUFFICES ASSUME IInv, [Next]_vars PROVE IInv'
  OBVIOUS
<1>1. CASE \E c \in Caller : InitiateCommit(c)
  BY <1>1, InitiateStep
<1>2. CASE \E c \in Caller : ExecuteTransition(c)
  BY <1>2, ExecuteStep
<1>3. CASE ~ \E c \in Caller : InitiateCommit(c) \/ ExecuteTransition(c)
  <2>1. UNCHANGED tables
    BY <1>3 DEF Next, vars, tables, InitiateRead, ApplyTransition,
                ApplyApprovalAction, BuildForDecision, Rollback
  <2>2. QED BY <2>1, ReadSteps
<1>4. QED BY <1>1, <1>2, <1>3

\* The inductive invariant holds in every reachable state.
THEOREM EngineInvariant == Spec => []IInv
<1>1. IInv /\ [Next]_vars => IInv'
  BY InvStep
<1>2. QED BY <1>1, InvInit, PTL DEF Spec

------------------------------------------------------------------------------
\* For any callers and any interleaving of their transactions, the audit
\* trail is a path that ends in the row's state and is counted by its
\* version (update_workflow_state's version check, append_transition).
THEOREM AuditTrail == Spec => []HistoryIsPath
<1>1. IInv => HistoryIsPath
  BY DEF IInv
<1>2. QED BY <1>1, EngineInvariant, PTL

\* Racing critic verdicts never push the revision count over the cap.
THEOREM RevisionCap == Spec => []RevisionsWithinCap
<1>1. IInv => RevisionsWithinCap
  BY DEF IInv
<1>2. QED BY <1>1, EngineInvariant, PTL

\* No idempotency key is ever dispatched twice by the engine.
THEOREM UniqueTaskKeys == Spec => []TaskKeysUnique
<1>1. IInv => TaskKeysUnique
  BY DEF IInv
<1>2. QED BY <1>1, EngineInvariant, PTL

\* Scenario versions have no gap, and generation and review tasks carry
\* versions that fit the scenarios stored.
THEOREM ScenarioVersions == Spec => []ScenariosInStep
<1>1. IInv => ScenariosInStep
  BY DEF IInv
<1>2. QED BY <1>1, EngineInvariant, PTL

\* The review that is under way is about the scenario that is active, though
\* build_for_decision numbers it from a read of its own.
THEOREM ReviewOfActiveScenario == Spec => []ReviewsActiveScenario
<1>1. IInv => ReviewsActiveScenario
  BY DEF IInv
<1>2. QED BY <1>1, EngineInvariant, PTL

\* The places of the audit trail where a revision was asked for.
Revisions == {i \in DOMAIN history : history[i].to = "REVISION_REQUIRED"}

\* One more entry of the audit trail is one more revision, or none.
LEMMA RevisionsStep ==
  ASSUME TypeOK, NEW e \in [from : WorkflowState, to : WorkflowState],
         history' = Append(history, e), IsFiniteSet(Revisions)
  PROVE  /\ IsFiniteSet(Revisions')
         /\ Cardinality(Revisions') = IF e.to = "REVISION_REQUIRED"
                                      THEN Cardinality(Revisions) + 1
                                      ELSE Cardinality(Revisions)
<1> DEFINE n == Len(history) + 1
<1>1. /\ n \in Nat /\ DOMAIN history' = DOMAIN history \cup {n} /\ n \notin DOMAIN history
      /\ \A i \in DOMAIN history : history'[i] = history[i]
      /\ history'[n] = e
  BY AppendFacts DEF TypeOK
<1>2. Revisions' = IF e.to = "REVISION_REQUIRED" THEN Revisions \cup {n} ELSE Revisions
  BY <1>1 DEF Revisions
<1>3. n \notin Revisions
  BY <1>1 DEF Revisions
<1>4. QED BY <1>2, <1>3, FS_AddElement

\* The revision count of the row is what the audit trail says: a counted
\* decision is the only way into REVISION_REQUIRED, and it is committed on
\* the count it was read with (TransitionExecutor.execute_transition).
THEOREM RevisionsMatchHistory == Spec => []RevisionsCounted
<1> DEFINE Counted == IsFiniteSet(Revisions) /\ row.revision = Cardinality(Revisions)
<1>1. Init => Counted
  <2> SUFFICES ASSUME Init PROVE Counted
    OBVIOUS
  <2>1. Revisions = {} /\ row.revision = 0
    BY DEF Init, Revisions, Absent
  <2>2. QED BY <2>1, FS_EmptySet
<1>2. IInv /\ Counted /\ [Next]_vars => Counted'
  <2> SUFFICES ASSUME IInv, Counted, [Next]_vars PROVE Counted'
    OBVIOUS
  <2>t. TypeOK
    BY DEF IInv
  <2>1. ASSUME NEW c \in Caller, InitiateCommit(c) PROVE Counted'
    <3> DEFINE e == [from |-> "CREATED", to |-> "COLLECTING"]
    <3>1. history' = Append(history, e) /\ row'.revision = 0 /\ row.revision = 0
      BY <2>1 DEF InitiateCommit, Absent
    <3>2. e \in [from : WorkflowState, to : WorkflowState] /\ e.to # "REVISION_REQUIRED"
      BY DEF WorkflowState, TRANSIENT_STATES
    <3> HIDE DEF e
    <3>3. QED BY <2>t, <3>1, <3>2, RevisionsStep
  <2>2. ASSUME NEW c \in Caller, ExecuteTransition(c) PROVE Counted'
    <3> DEFINE k == call[c]
               d == k.dec
               e == [from |-> d.from, to |-> d.to]
    <3>1. /\ history' = Append(history, e)
          /\ row'.revision = IF d.incRev THEN k.revision + 1 ELSE row.revision
      BY <2>2 DEF ExecuteTransition
    <3>2. CurrentCall(k)
      BY <2>2, CommitNumbers
    <3>3. d \in TransitionDecision /\ (d \in Success \/ IsFailure(d))
          /\ k.revision = row.revision
      BY <2>t, <3>2, CurrentShape DEF CurrentCall
    <3>4. d.incRev <=> d.to = "REVISION_REQUIRED"
      <4>1. CASE d \in Success
        BY <4>1 DEF Success, Move, MoveAndDispatch, Decide
      <4>2. CASE IsFailure(d)
        BY <4>2 DEF IsFailure, Move, Decide, TERMINAL_STATES
      <4>3. QED BY <3>3, <4>1, <4>2
    <3>5. e \in [from : WorkflowState, to : WorkflowState] /\ e.to = d.to
      BY <3>3 DEF TransitionDecision
    <3> HIDE DEF e, d
    <3>6. QED BY <2>t, <3>1, <3>3, <3>4, <3>5, RevisionsStep
  <2>3. CASE ~ \E c \in Caller : InitiateCommit(c) \/ ExecuteTransition(c)
    <3>1. UNCHANGED tables
      BY <2>3 DEF Next, vars, tables, InitiateRead, ApplyTransition,
                  ApplyApprovalAction, BuildForDecision, Rollback
    <3>2. QED BY <3>1 DEF tables, Revisions
  <2>4. QED BY <2>1, <2>2, <2>3
<1>3. Counted => RevisionsCounted
  BY DEF RevisionsCounted, Revisions
<1>4. QED BY <1>1, <1>2, <1>3, EngineInvariant, PTL DEF Spec

\* A committing call starts from a state that is not terminal.
LEMMA CommitFromLiveState ==
  ASSUME IInv, NEW c \in Caller, ExecuteTransition(c)
  PROVE  row.state \notin TERMINAL_STATES
<1>1. CurrentCall(call[c])
  BY CommitNumbers
<1>2. /\ call[c].dec.from = row.state
      /\ call[c].dec \in Success \/ IsFailure(call[c].dec)
  BY <1>1, CurrentShape DEF IInv
<1>3. ASSUME NEW d, d \in Success \/ IsFailure(d)
      PROVE  d.from \notin TERMINAL_STATES
  <2>1. CASE d \in Success
    BY <2>1 DEF Success, Move, MoveAndDispatch, Decide, TERMINAL_STATES
  <2>2. CASE IsFailure(d)
    BY <2>2 DEF IsFailure, TRANSIENT_STATES, PAUSE_STATES, TERMINAL_STATES
  <2>3. QED BY <1>3, <2>1, <2>2
<1>4. QED BY <1>2, <1>3

\* No call, however old its reads, changes a table once the workflow is in a
\* terminal state.
THEOREM TerminalStaysFinal == Spec => TerminalIsFinal
<1>1. IInv /\ [Next]_vars =>
        [row.state \in TERMINAL_STATES => UNCHANGED tables]_vars
  <2> SUFFICES ASSUME IInv, [Next]_vars, row.state \in TERMINAL_STATES
               PROVE  UNCHANGED tables
    OBVIOUS
  <2>1. ASSUME NEW c \in Caller PROVE ~ ExecuteTransition(c)
    BY CommitFromLiveState
  <2>2. ASSUME NEW c \in Caller PROVE ~ InitiateCommit(c)
    BY DEF InitiateCommit, Absent, TERMINAL_STATES
  <2>3. QED
    BY <2>1, <2>2 DEF Next, vars, tables, InitiateRead, ApplyTransition,
                      ApplyApprovalAction, BuildForDecision, Rollback
<1>2. QED BY <1>1, EngineInvariant, PTL DEF Spec, TerminalIsFinal

------------------------------------------------------------------------------
\* The abstract specification reads the same tables.
LEMMA SameTables ==
  /\ \A s, g, r, m : Lifecycle!Lookup(s, g, r, m) = Lookup(s, g, r, m)
  /\ \A a : Lifecycle!LookupApproval(a) = LookupApproval(a)
  /\ Lifecycle!TransitionSignal = TransitionSignal
  /\ Lifecycle!ApprovalAction = ApprovalAction
  /\ Lifecycle!NoTask = NoTask
BY DEF Lifecycle!Lookup, Lookup, Lifecycle!LookupApproval, LookupApproval,
       Lifecycle!TransitionSignal, TransitionSignal,
       Lifecycle!ApprovalAction, ApprovalAction, Lifecycle!NoTask, NoTask,
       Lifecycle!TRANSIENT_STATES, TRANSIENT_STATES,
       Lifecycle!ReviseDecision, ReviseDecision,
       Lifecycle!PRIMARY_MATRIX, PRIMARY_MATRIX,
       Lifecycle!FailureState, FailureState, Lifecycle!Move, Move,
       Lifecycle!MoveAndDispatch, MoveAndDispatch, Lifecycle!Decide, Decide

\* A commit is the abstract step that follows the call's decision.
LEMMA CommitRefines ==
  ASSUME IInv, IInv', NEW c \in Caller, ExecuteTransition(c)
  PROVE  Lifecycle!Next
<1> DEFINE k == call[c]
           d == k.dec
           entry == [task |-> d.task, ver |-> k.ver]
           Keys(seq) == {<<seq[i].task, seq[i].ver>> : i \in DOMAIN seq}
<1>t. /\ active \in Nat /\ row.revision \in Nat /\ k \in Call
      /\ outbox \in Seq([task : TaskType, ver : Nat])
  BY DEF IInv, TypeOK
<1>1. /\ row' = [state |-> d.to, version |-> row.version + 1,
                 revision |-> IF d.incRev THEN k.revision + 1
                              ELSE row.revision]
      /\ outbox' = IF d.task = NoTask THEN outbox ELSE Append(outbox, entry)
      /\ active' = IF k.wrote = 0 THEN active ELSE k.wrote
  BY DEF ExecuteTransition
<1>2. /\ CurrentCall(k)
      /\ k.wrote = IF d.to = "SCENARIO_GENERATED" THEN active + 1 ELSE 0
      /\ d.task \in {"GENERATE_SCENARIO", "REVIEW_SCENARIO"} =>
           k.ver = active + 1
      /\ d.task = "SELECT_TOPIC" => k.ver = 1
  BY CommitNumbers
<1>3. k.revision = row.revision /\ d.from = row.state
  BY <1>2 DEF CurrentCall
<1>4. /\ d \in TransitionDecision
      /\ d \in Success \/ IsFailure(d)
  BY <1>2, CurrentShape DEF IInv
<1>5. active' = IF Lifecycle!Stores(d) THEN active + 1 ELSE active
  <2>1. CASE d.to = "SCENARIO_GENERATED"
    <3>1. k.wrote = active + 1 /\ k.wrote # 0
      BY <1>t, <1>2, <2>1
    <3>2. QED BY <1>1, <2>1, <3>1 DEF Lifecycle!Stores
  <2>2. CASE d.to # "SCENARIO_GENERATED"
    BY <1>1, <1>2, <2>2 DEF Lifecycle!Stores
  <2>3. QED BY <2>1, <2>2
<1>6. Lifecycle!Dispatch(d)
  <2>1. CASE d.task = NoTask
    <3>1. outbox' = outbox
      BY <1>1, <2>1
    <3>2. QED BY <2>1, <3>1, SameTables DEF Lifecycle!Dispatch
  <2>2. CASE d.task # NoTask
    <3>1. entry \in [task : TaskType, ver : Nat] /\ d.task \in TaskType
      BY <1>t, <1>4, <2>2 DEF TransitionDecision, Call
    <3>2. outbox' = Append(outbox, entry)
      BY <1>1, <2>2
    <3>3. Keys(outbox') = Keys(outbox) \cup {<<entry.task, entry.ver>>}
      <4> DEFINE T == [task : TaskType, ver : Nat]
      <4>1. outbox \in Seq(T) /\ entry \in T
        BY <1>t, <3>1
      <4> HIDE DEF T, entry
      <4>2. /\ Len(outbox) \in Nat
            /\ DOMAIN outbox = 1..Len(outbox)
            /\ DOMAIN outbox' = 1..(Len(outbox) + 1)
            /\ \A i \in DOMAIN outbox : outbox'[i] = outbox[i]
            /\ outbox'[Len(outbox) + 1] = entry
        BY <3>2, <4>1, AppendFacts
      <4>3. DOMAIN outbox' = DOMAIN outbox \cup {Len(outbox) + 1}
        BY <4>2
      <4>4. QED BY <4>2, <4>3
    <3>4. <<d.task, k.ver>> \notin Keys(outbox)
      <4>1. ASSUME NEW i \in DOMAIN outbox PROVE outbox[i] # entry
        <5> DEFINE T == [task : TaskType, ver : Nat]
        <5>1. outbox \in Seq(T) /\ entry \in T
          BY <1>t, <3>1
        <5>2. \A m, n \in DOMAIN outbox' : outbox'[m] = outbox'[n] => m = n
          BY DEF IInv, TaskKeysUnique
        <5> HIDE DEF T, entry
        <5>3. /\ i \in 1..Len(outbox) /\ Len(outbox) \in Nat
              /\ DOMAIN outbox' = 1..(Len(outbox) + 1)
              /\ outbox'[i] = outbox[i]
              /\ outbox'[Len(outbox) + 1] = entry
          BY <3>2, <4>1, <5>1, AppendFacts
        <5>4. QED BY <5>2, <5>3
      <4>2. \A i \in DOMAIN outbox : outbox[i] \in [task : TaskType, ver : Nat]
        BY <1>t, SeqElement
      <4>3. QED BY <4>1, <4>2
    <3>5. k.ver = CASE d.task = "REVIEW_SCENARIO"   -> active + 1
                    [] d.task = "GENERATE_SCENARIO" -> active + 1
                    [] OTHER                        -> 1
      <4>1. d.task # "COLLECT"
        <5>1. ASSUME NEW e, e \in Success \/ IsFailure(e)
              PROVE  e.task # "COLLECT"
          <6>1. CASE e \in Success
            BY <6>1 DEF Success, Move, MoveAndDispatch, Decide, NoTask
          <6>2. CASE IsFailure(e)
            BY <6>2 DEF IsFailure, Move, Decide, NoTask
          <6>3. QED BY <5>1, <6>1, <6>2
        <5>2. QED BY <1>4, <5>1
      <4>2. d.task \in {"SELECT_TOPIC", "GENERATE_SCENARIO",
                        "REVIEW_SCENARIO"}
        BY <3>1, <4>1 DEF TaskType
      <4>3. QED BY <1>2, <4>2
    <3>6. Keys(outbox') = Keys(outbox) \cup {<<d.task, k.ver>>}
      BY <3>3
    <3> HIDE DEF k, d
    <3>7. QED BY <2>2, <3>4, <3>5, <3>6, SameTables DEF Lifecycle!Dispatch
  <2>3. QED BY <2>1, <2>2
<1>7. Lifecycle!Follow(d)
  BY <1>1, <1>3, <1>5, <1>6 DEF Lifecycle!Follow
<1>8. CASE \E signal \in TransitionSignal :
             d \in Lookup(row.state, signal, row.revision, MaxRevisions)
  <2>1. PICK signal \in TransitionSignal :
          d \in Lookup(row.state, signal, row.revision, MaxRevisions)
    BY <1>8
  <2>2. /\ signal \in Lifecycle!TransitionSignal
        /\ d \in Lifecycle!Lookup(row.state, signal, row.revision,
                                  MaxRevisions)
    BY <2>1, SameTables
  <2>3. Lifecycle!Advance
    BY <1>7, <2>2 DEF Lifecycle!Advance, Lifecycle!Follow,
                      Lifecycle!Dispatch, Lifecycle!Stores
  <2>4. QED BY <2>3 DEF Lifecycle!Next
<1>9. CASE \E action \in ApprovalAction : d = LookupApproval(action)
  <2>1. PICK action \in ApprovalAction : d = LookupApproval(action)
    BY <1>9
  <2>2. /\ action \in Lifecycle!ApprovalAction
        /\ d = Lifecycle!LookupApproval(action)
    BY <2>1, SameTables
  <2>3. Lifecycle!Decision
    BY <1>7, <2>2 DEF Lifecycle!Decision, Lifecycle!Follow,
                      Lifecycle!Dispatch, Lifecycle!Stores
  <2>4. QED BY <2>3 DEF Lifecycle!Next
<1>10. QED BY <1>2, <1>8, <1>9 DEF CurrentCall

\* The database starts as the abstract workflow does.
LEMMA InitRefines == Init => Lifecycle!Init
BY DEF Init, Absent, Lifecycle!Init

\* Every step of the engine is a step of the abstract workflow or invisible
\* to it.
LEMMA StepRefines ==
  ASSUME IInv, IInv', [Next]_vars
  PROVE  [Lifecycle!Next]_(Lifecycle!vars)
<1>1. CASE UNCHANGED tables
  BY <1>1 DEF tables, Lifecycle!vars
<1>2. ASSUME NEW c \in Caller, InitiateCommit(c)
      PROVE  Lifecycle!Next
  <2>1. outbox = <<>>
    BY <1>2 DEF InitiateCommit, IInv, StageInv, Absent
  <2>2. outbox' = <<[task |-> "COLLECT", ver |-> 1]>>
    BY <1>2, <2>1 DEF InitiateCommit
  <2>3. {<<outbox'[i].task, outbox'[i].ver>> : i \in DOMAIN outbox'}
        = {<<"COLLECT", 1>>}
    BY <2>2
  <2>4. /\ row.state = "ABSENT" /\ row'.state = "COLLECTING"
        /\ row'.revision = row.revision /\ active' = active
    BY <1>2 DEF InitiateCommit, Absent
  <2>5. QED BY <2>3, <2>4 DEF Lifecycle!Next, Lifecycle!Initiate
<1>3. ASSUME NEW c \in Caller, ExecuteTransition(c)
      PROVE  Lifecycle!Next
  BY <1>3, CommitRefines
<1>4. QED
  BY <1>1, <1>2, <1>3 DEF Next, vars, tables, InitiateRead, ApplyTransition,
                          ApplyApprovalAction, BuildForDecision, Rollback

\* The engine under any number of racing callers implements the sequential
\* walk along the transition matrix: optimistic locking on state_version is
\* enough, although the decision and the task's number come from reads that
\* precede the conditional UPDATE.
THEOREM EngineRefinesLifecycle == Spec => ImplementsLifecycle
<1>1. IInv /\ IInv' /\ [Next]_vars => [Lifecycle!Next]_(Lifecycle!vars)
  BY StepRefines
<1>2. QED
  BY <1>1, InitRefines, EngineInvariant, PTL
     DEF Spec, ImplementsLifecycle, Lifecycle!Spec
==============================================================================
