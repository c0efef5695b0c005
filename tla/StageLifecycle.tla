---------------------------- MODULE StageLifecycle ---------------------------
(***************************************************************************)
(* What the worker pipeline promises about one workflow: its stages take   *)
(* effect one after the other, each exactly once, whatever is delivered    *)
(* twice, retried, lost with a crashed process or executed by two workers  *)
(* at the same time.  There are no queues, leases, attempts or processes   *)
(* here; WorkerPipeline implements this specification with them.           *)
(***************************************************************************)
EXTENDS Naturals

CONSTANT MaxRevisions        \* workflow.max_scenario_revisions

VARIABLES
  state,        \* the workflow's state
  revision,     \* critic revisions so far
  round,        \* version of the newest scenario, 0 before the first
  dispatched,   \* <<task type, logical version>> of every task created
  completed     \* those whose effect has been committed

vars == <<state, revision, round, dispatched, completed>>

Init ==
  /\ state = "COLLECTING"
  /\ revision = 0
  /\ round = 0
  /\ dispatched = {<<"COLLECT", 1>>}
  /\ completed = {}

\* The one task whose completion moves a workflow out of the state.
Current ==
  CASE state = "COLLECTING"          -> <<"COLLECT", 1>>
    [] state = "SELECTING_TOPIC"     -> <<"SELECT_TOPIC", 1>>
    [] state = "GENERATING_SCENARIO" -> <<"GENERATE_SCENARIO", round + 1>>
    [] state = "REVIEWING"           -> <<"REVIEW_SCENARIO", round>>

Working ==
  {"COLLECTING", "SELECTING_TOPIC", "GENERATING_SCENARIO", "REVIEWING"}

\* The current task takes effect, and never took effect before.
Completes ==
  /\ Current \in dispatched \ completed
  /\ completed' = completed \cup {Current}

Dispatches(task, ver) ==
  /\ <<task, ver>> \notin dispatched
  /\ dispatched' = dispatched \cup {<<task, ver>>}

Collect ==
  /\ state = "COLLECTING" /\ state' = "SELECTING_TOPIC"
  /\ Completes
  /\ Dispatches("SELECT_TOPIC", 1)
  /\ UNCHANGED <<revision, round>>

SelectTopic ==
  /\ state = "SELECTING_TOPIC" /\ state' = "GENERATING_SCENARIO"
  /\ Completes
  /\ Dispatches("GENERATE_SCENARIO", 1)
  /\ UNCHANGED <<revision, round>>

NoSuitableTopic ==
  /\ state = "SELECTING_TOPIC" /\ state' = "NO_SUITABLE_TOPIC"
  /\ Completes
  /\ UNCHANGED <<revision, round, dispatched>>

Generate ==
  /\ state = "GENERATING_SCENARIO" /\ state' = "REVIEWING"
  /\ round' = round + 1
  /\ Completes
  /\ Dispatches("REVIEW_SCENARIO", round + 1)
  /\ UNCHANGED revision

Pass ==
  /\ state = "REVIEWING" /\ state' = "AWAITING_HUMAN_APPROVAL"
  /\ Completes
  /\ UNCHANGED <<revision, round, dispatched>>

Revise ==
  /\ state = "REVIEWING" /\ revision < MaxRevisions
  /\ state' = "GENERATING_SCENARIO"
  /\ revision' = revision + 1
  /\ Completes
  /\ Dispatches("GENERATE_SCENARIO", round + 1)
  /\ UNCHANGED round

GiveUp ==
  /\ state = "REVIEWING" /\ revision >= MaxRevisions
  /\ state' = "REVIEW_FAILED"
  /\ Completes
  /\ UNCHANGED <<revision, round, dispatched>>

Fail ==
  /\ state \in Working
  /\ state' \in {"FAILED", "FAILED_PERMANENTLY"}
  /\ UNCHANGED <<revision, round, dispatched, completed>>

Decide ==
  /\ state = "AWAITING_HUMAN_APPROVAL"
  /\ \/ state' \in {"APPROVED", "REJECTED"} /\ UNCHANGED dispatched
     \/ /\ state' = "GENERATING_SCENARIO"
        /\ Dispatches("GENERATE_SCENARIO", round + 1)
  /\ UNCHANGED <<revision, round, completed>>

Next ==
  \/ Collect \/ SelectTopic \/ NoSuitableTopic \/ Generate
  \/ Pass \/ Revise \/ GiveUp \/ Fail \/ Decide

Spec == Init /\ [][Next]_vars
==============================================================================
