-------------------------- MODULE WorkflowLifecycle --------------------------
(***************************************************************************)
(* What the workflow engine promises to everyone who looks at the          *)
(* database: one workflow walks along the transition matrix one decision   *)
(* at a time, and each decision dispatches its task in the same instant.   *)
(* There are no callers, no versions and no conflicts here; WorkflowEngine *)
(* implements this specification with optimistic concurrency control.      *)
(*                                                                         *)
(* Scenario versions are the heart of the promise: the k-th generation     *)
(* round is asked for version k, stores version k, and is reviewed as      *)
(* version k.                                                              *)
(***************************************************************************)
EXTENDS WorkflowTable

CONSTANT MaxRevisions       \* workflow.max_scenario_revisions

VARIABLES
  state,        \* the workflow's state, "ABSENT" before it is initiated
  revision,     \* critic revisions so far
  active,       \* version of the active scenario, 0 before the first
  dispatched    \* <<task type, logical version>> of every task created

vars == <<state, revision, active, dispatched>>

Init ==
  /\ state = "ABSENT"
  /\ revision = 0
  /\ active = 0
  /\ dispatched = {}

Initiate ==
  /\ state = "ABSENT"
  /\ state' = "COLLECTING"
  /\ dispatched' = {<<"COLLECT", 1>>}
  /\ UNCHANGED <<revision, active>>

\* Leaving GENERATING_SCENARIO for SCENARIO_GENERATED stores the next
\* scenario version; no other step touches the scenarios.
Stores(d) == d.to = "SCENARIO_GENERATED"

\* The version the task of decision d is dispatched with.  A task key is
\* never dispatched twice.
Dispatch(d) ==
  LET ver == CASE d.task = "REVIEW_SCENARIO"   -> active + 1
               [] d.task = "GENERATE_SCENARIO" -> active + 1
               [] OTHER                        -> 1
  IN IF d.task = NoTask
     THEN UNCHANGED dispatched
     ELSE /\ <<d.task, ver>> \notin dispatched
          /\ dispatched' = dispatched \cup {<<d.task, ver>>}

Follow(d) ==
  /\ state = d.from
  /\ state' = d.to
  /\ revision' = IF d.incRev THEN revision + 1 ELSE revision
  /\ active' = IF Stores(d) THEN active + 1 ELSE active
  /\ Dispatch(d)

Advance ==
  \E signal \in TransitionSignal :
    \E d \in Lookup(state, signal, revision, MaxRevisions) : Follow(d)

Decision == \E action \in ApprovalAction : Follow(LookupApproval(action))

Next == Initiate \/ Advance \/ Decision

Spec == Init /\ [][Next]_vars
==============================================================================
