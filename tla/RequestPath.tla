----------------------------- MODULE RequestPath -----------------------------
(***************************************************************************)
(* Requests on their way from a client through the API process to the      *)
(* database and back, while workers move the workflows on.                 *)
(*                                                                         *)
(* The routes run on one event loop.  wrap_mutating opens the transaction  *)
(* on the loop, before the body is even read, and commits it on the loop   *)
(* when the response has been made; in between the engine runs in a thread *)
(* of its own.  A query borrows a connection for one statement.  A request *)
(* is at                                                                   *)
(*   sent       in the socket                                              *)
(*   getconn    in pool.connection(), on the loop: everything else waits   *)
(*   probe      the same, in the readiness probe                           *)
(*   engine     in its thread, before the first statement                  *)
(*   writing    it has read, and decided                                   *)
(*   returned   the thread has ended, the loop has yet to go on            *)
(*   query      in its thread, with a connection for one statement         *)
(*   answered, lost   the client can see the answer, or a closed socket    *)
(*   usage      the client has not sent it                                 *)
(* A client that has given up (request_timeout_seconds) may send the same  *)
(* again, while the server goes on: that is a request of its own.          *)
(***************************************************************************)
EXTENDS HttpApi, Configuration, FiniteSets

CONSTANTS
  MaxRequests,   \* bound: requests sent, the retries included
  Named,         \* ids that clients give to their workflows
  Existing,      \* the one that waits for its approval at the start
  Documents,     \* configuration files
  Commands,      \* what the n-th request may ask for, under each of them
  PoolSize,      \* max_pool_size
  MaxFaults      \* bound: failed dependencies, commits, kills

Request == 1 .. MaxRequests

\* Ids that the allocator makes are named after their request.
Workflow == Named \cup Request

ASSUME RequestAssumption ==
  /\ {MaxRequests, PoolSize} \subseteq Nat \ {0} /\ MaxFaults \in Nat
  /\ Named \cap Request = {} /\ Existing \in Named
  /\ \A f \in Documents, r \in Request : Commands[f][r] \subseteq Asked(Workflow)

VARIABLES
  file,      \* the configuration file
  proc,      \* off, configured, serving, stopping, exited
  open,      \* connections of the process to the database and to Redis
  wf,        \* workflows: row, transitions, active scenario and its review
  req,       \* requests, by number
  faults

vars == <<file, proc, open, wf, req, faults>>

NoRow == [state |-> "NONE", version |-> 0, transitions |-> 0, scenario |-> 0, review |-> 0]

\* A row after its first round of stages: CREATED is version 1, and every
\* transition adds one to both counts.
Waiting == [state |-> "AWAITING_HUMAN_APPROVAL", version |-> 10, transitions |-> 9,
            scenario |-> 1, review |-> 1]

NoRequest ==
  [pc |-> "none", c |-> [cmd |-> "none"], conn |-> FALSE, got |-> <<>>,
   write |-> NoRow, answer |-> Bare500, effects |-> 0, unlogged |-> FALSE]

Init ==
  /\ file \in Documents /\ proc = "off" /\ open = {}
  /\ wf = [w \in Workflow |-> IF w = Existing THEN Waiting ELSE NoRow]
  /\ req = [r \in Request |-> NoRequest]
  /\ faults = 0

Fault == faults < MaxFaults /\ faults' = faults + 1

------------------------------------------------------------------------------
\* create_composition_root: without a configuration there is no process.
LoadConfig ==
  /\ proc = "off"
  /\ proc' = IF Load(file) = "ok" THEN "configured" ELSE "exited"
  /\ UNCHANGED <<file, open, wf, req, faults>>

\* wire_common and ApiProcessWiring: the pool is checked when it is built,
\* and so is Redis; a failure ends the process, with what is open.
Wire ==
  /\ proc = "configured"
  /\ \/ proc' = "serving" /\ open' = {"pool", "redis"} /\ UNCHANGED faults
     \/ proc' = "exited" /\ open' \in {{}, {"pool"}} /\ Fault
  /\ UNCHANGED <<file, wf, req>>

\* Nothing of an open transaction stays.
Lost(r) == [req[r] EXCEPT !.pc = "lost", !.conn = FALSE, !.write = NoRow]
InServer(r) == req[r].pc \notin {"none", "usage", "answered", "lost"}
DropAll == req' = [r \in Request |-> IF InServer(r) THEN Lost(r) ELSE req[r]]

\* SIGTERM: the watcher tells the server, which accepts nothing any more.
Stop ==
  /\ proc = "serving"
  /\ proc' = "stopping"
  /\ Fault
  /\ UNCHANGED <<file, open, wf, req>>

\* The last request is done, or the grace period over, and the connections
\* are torn down.
Teardown ==
  /\ proc = "stopping"
  /\ proc' = "exited" /\ open' = {}
  /\ DropAll
  /\ UNCHANGED <<file, wf, faults>>

Kill ==
  /\ proc \in {"serving", "stopping"}
  /\ proc' = "exited" /\ open' = {}
  /\ DropAll
  /\ Fault
  /\ UNCHANGED <<file, wf>>

\* A socket nobody listens on.
Refused(r) ==
  /\ proc \in {"off", "exited"} /\ req[r].pc = "sent"
  /\ req' = [req EXCEPT ![r] = Lost(r)]
  /\ UNCHANGED <<file, proc, open, wf, faults>>

------------------------------------------------------------------------------
\* A client starts.  The CLI checks its arguments, and the configuration it
\* may be given for an initiate, before it sends anything.
Start(r, c) ==
  LET bad == c.cli /\ (CliRefuses(c) \/ (c.cmd = "initiate" /\ c.config /\ Load(file) # "ok"))
  IN /\ req[r].pc = "none" /\ \A q \in Request : q < r => req[q].pc # "none"
     /\ req' = [req EXCEPT ![r] =
                  IF bad THEN [@ EXCEPT !.pc = "usage", !.c = c]
                  ELSE [@ EXCEPT !.pc = "sent", !.c = Sent(c)]]
     /\ UNCHANGED <<file, proc, open, wf, faults>>

------------------------------------------------------------------------------
LoopFree ==
  /\ proc \in {"serving", "stopping"}
  /\ \A r \in Request : req[r].pc \notin {"getconn", "probe"}

Free == PoolSize - Cardinality({r \in Request : req[r].conn})

Answered(r, answer) == [req[r] EXCEPT !.pc = "answered", !.conn = FALSE, !.answer = answer]
Returned(r, answer) == [req[r] EXCEPT !.pc = "returned", !.answer = answer]

\* What the route does before the engine's thread: validation and its span.
\* A refusal leaves a mutating route with its transaction, to be committed.
Route(r, conn) ==
  LET verdict == ValidateRequest(req[r].c)
      refusal == IF verdict # "ok" THEN verdict ELSE RouteSpan(req[r].c)
  IN IF refusal # "ok" THEN Answered(r, Refusal(refusal))
     ELSE [req[r] EXCEPT !.pc = "engine", !.conn = conn]

\* The loop takes up a request: a mutating one, and a probe, want a
\* connection first.
Accept(r) ==
  /\ LoopFree /\ proc = "serving" /\ req[r].pc = "sent"
  /\ req' = [req EXCEPT ![r] =
               CASE @.c.cmd = "ready"     -> [@ EXCEPT !.pc = "probe"]
                 [] @.c.cmd \in Mutating  ->
                      IF Free > 0 THEN Route(r, TRUE) ELSE [@ EXCEPT !.pc = "getconn"]
                 [] OTHER                 -> Route(r, FALSE)]
  /\ UNCHANGED <<file, proc, open, wf, faults>>

GetConnection(r) ==
  /\ req[r].pc = "getconn" /\ Free > 0
  /\ req' = [req EXCEPT ![r] = Route(r, TRUE)]
  /\ UNCHANGED <<file, proc, open, wf, faults>>

\* Mutant: the pool is waited for without a timeout.
GetConnectionForEver(r) == FALSE

\* connection_timeout_seconds: PersistenceConnectionError in wrap_mutating,
\* outside the route.
GetConnectionTimeout(r) ==
  /\ req[r].pc = "getconn" /\ Free = 0
  /\ req' = [req EXCEPT ![r] = Answered(r, Bare500)]
  /\ UNCHANGED <<file, proc, open, wf, faults>>

\* The probe's own timeout ends nothing: leaving its executor waits for the
\* thread, which waits for the pool.
Probe(r) ==
  /\ req[r].pc = "probe"
  /\ \/ Free > 0 /\ req' = [req EXCEPT ![r] = Answered(r, Readiness(TRUE))]
           /\ UNCHANGED faults
     \/ Free = 0 /\ req' = [req EXCEPT ![r] = Answered(r, Readiness(FALSE))]
           /\ UNCHANGED faults
     \/ Fault /\ req' = [req EXCEPT ![r] = Answered(r, Readiness(FALSE))]
  /\ UNCHANGED <<file, proc, open, wf>>

------------------------------------------------------------------------------
\* Who has written to a workflow holds its lock until the loop commits.
Locked(w) == \E r \in Request : req[r].write # NoRow /\ req[r].c.wf = w

Target(r) == IF req[r].c.cmd = "initiate" /\ req[r].c.id # "given" THEN r ELSE req[r].c.wf

\* allocate, validate_no_duplicate and emit_initiated, which refuses an id
\* that looks like a key.
InitiateRead(r) ==
  /\ req[r].pc = "engine" /\ req[r].c.cmd = "initiate"
  /\ req' = [req EXCEPT ![r] =
               IF @.c.id = "keylike" THEN Returned(r, Envelope("API_INTERNAL"))
               ELSE IF wf[Target(r)] # NoRow THEN Returned(r, Envelope("WF_CONFLICT"))
               ELSE [@ EXCEPT !.pc = "writing", !.c.wf = Target(r)]]
  /\ UNCHANGED <<file, proc, open, wf, faults>>

\* create_workflow and execute_initiate.  The insert waits for another one
\* of the same id, and is no WorkflowError when that was committed.
InitiateWrite(r) ==
  /\ req[r].pc = "writing" /\ req[r].c.cmd = "initiate" /\ ~ Locked(Target(r))
  /\ req' = [req EXCEPT ![r] =
               IF wf[Target(r)] # NoRow THEN Returned(r, Envelope("API_INTERNAL"))
               ELSE [Returned(r, Success(@.c)) EXCEPT !.write =
                       [NoRow EXCEPT !.state = "COLLECTING", !.version = 2, !.transitions = 1]]]
  /\ UNCHANGED <<file, proc, open, wf, faults>>

\* apply_approval_action up to the decision: the key of the request is not
\* looked at.
ApprovalRead(r) ==
  LET row == wf[req[r].c.wf]
  IN /\ req[r].pc = "engine" /\ req[r].c.cmd = "approve"
     /\ req' = [req EXCEPT ![r] =
                  CASE row = NoRow -> Returned(r, Envelope("WF_NOT_FOUND"))
                    [] row.state = "AWAITING_HUMAN_APPROVAL" ->
                         [@ EXCEPT !.pc = "writing", !.got = <<row>>]
                    [] row.state \in TERMINAL_STATES -> Returned(r, Envelope("WF_TERMINAL"))
                    [] OTHER -> Returned(r, Envelope("WF_INVALID_APPROVAL"))]
     /\ UNCHANGED <<file, proc, open, wf, faults>>

Approved(row, action) ==
  [row EXCEPT !.state = LookupApproval(action).to, !.version = @ + 1, !.transitions = @ + 1]

\* Mutants: the transition is appended before the row is updated, and the
\* row is updated whatever its version is.
ApprovalWriteHistoryFirst(r) ==
  LET row == wf[req[r].c.wf]
  IN /\ req[r].pc = "writing" /\ req[r].c.cmd = "approve" /\ ~ Locked(req[r].c.wf)
     /\ req' = [req EXCEPT ![r] =
                  IF row.version # @.got[1].version
                  THEN [Returned(r, Envelope("WF_CONFLICT")) EXCEPT
                          !.write = [row EXCEPT !.transitions = @ + 1]]
                  ELSE [Returned(r, Success(@.c)) EXCEPT
                          !.write = Approved(row, req[r].c.action)]]
     /\ UNCHANGED <<file, proc, open, wf, faults>>
ApprovalWriteBlind(r) ==
  LET row == wf[req[r].c.wf]
  IN /\ req[r].pc = "writing" /\ req[r].c.cmd = "approve" /\ ~ Locked(req[r].c.wf)
     /\ req' = [req EXCEPT ![r] =
                  [Returned(r, Success(@.c)) EXCEPT
                     !.write = Approved(row, req[r].c.action)]]
     /\ UNCHANGED <<file, proc, open, wf, faults>>

\* execute_approval: the conditional UPDATE first, under the row's lock.
ApprovalWrite(r) ==
  LET row == wf[req[r].c.wf]
  IN /\ req[r].pc = "writing" /\ req[r].c.cmd = "approve" /\ ~ Locked(req[r].c.wf)
     /\ req' = [req EXCEPT ![r] =
                  IF row.version # @.got[1].version THEN Returned(r, Envelope("WF_CONFLICT"))
                  ELSE [Returned(r, Success(@.c)) EXCEPT
                          !.write = Approved(row, req[r].c.action)]]
     /\ UNCHANGED <<file, proc, open, wf, faults>>

------------------------------------------------------------------------------
\* Mutant: the row is read when everything else has been.
PartsRowLast(cmd) ==
  CASE cmd = "status"                  -> <<"row">>
    [] cmd \in {"history", "timeline"} -> <<"row", "transitions">>
    [] cmd = "output"                  -> <<"scenario", "review", "transitions", "row">>

\* The statements of a read model, one after the other and outside of any
\* transaction: the engine reads the row, the assembler the rest.
Parts(cmd) ==
  CASE cmd = "status"                  -> <<"row">>
    [] cmd \in {"history", "timeline"} -> <<"row", "transitions">>
    [] cmd = "output"                  -> <<"row", "scenario", "review", "transitions">>

Value(row, part) ==
  CASE part = "row"         -> <<row.state, row.version>>
    [] part = "transitions" -> row.transitions
    [] part = "scenario"    -> row.scenario
    [] part = "review"      -> row.review

\* A connection for the next statement.
QueryConnection(r) ==
  /\ req[r].pc = "engine" /\ req[r].c.cmd \notin Mutating /\ Free > 0
  /\ req' = [req EXCEPT ![r].pc = "query", ![r].conn = TRUE]
  /\ UNCHANGED <<file, proc, open, wf, faults>>

\* The statement; without the row there is nothing to show.
Query(r) ==
  LET row == wf[req[r].c.wf]
      n == Len(req[r].got) + 1
      got == Append(req[r].got, Value(row, Parts(req[r].c.cmd)[n]))
      next == IF row = NoRow THEN Returned(r, Envelope("WF_NOT_FOUND"))
              ELSE IF n < Len(Parts(req[r].c.cmd)) THEN [req[r] EXCEPT !.pc = "engine", !.got = got]
              ELSE [Returned(r, Success(req[r].c)) EXCEPT !.got = got]
  IN /\ req[r].pc = "query"
     /\ req' = [req EXCEPT ![r] = [next EXCEPT !.conn = FALSE]]
     /\ UNCHANGED <<file, proc, open, wf, faults>>

\* A query finds no connection in time; no WorkflowError either.
QueryTimeout(r) ==
  /\ req[r].pc = "engine" /\ req[r].c.cmd \notin Mutating /\ Free = 0
  /\ req' = [req EXCEPT ![r] = Returned(r, Envelope("API_INTERNAL"))]
  /\ UNCHANGED <<file, proc, open, wf, faults>>

------------------------------------------------------------------------------
Committed(r) ==
  wf' = IF req[r].write = NoRow THEN wf ELSE [wf EXCEPT ![req[r].c.wf] = req[r].write]

\* The loop goes on with the route and, for a mutating one, leaves the
\* transaction: whatever the answer is, it is committed.
Finish(r) ==
  /\ LoopFree /\ req[r].pc = "returned"
  /\ Committed(r)
  /\ req' = [req EXCEPT ![r] =
               [Answered(r, req[r].answer) EXCEPT
                  !.write = NoRow, !.effects = IF req[r].write = NoRow THEN @ ELSE @ + 1]]
  /\ UNCHANGED <<file, proc, open, faults>>

\* The commit raises, with or without effect, when the success has been
\* logged and counted; or a line of the route cannot be logged, and the
\* transaction is rolled back.
CommitFails(r) ==
  /\ LoopFree /\ req[r].pc = "returned" /\ req[r].conn
  /\ \/ /\ UNCHANGED wf
        /\ req' = [req EXCEPT ![r] = [Answered(r, Bare500) EXCEPT !.write = NoRow]]
     \/ /\ req[r].write # NoRow /\ Committed(r)
        /\ req' = [req EXCEPT ![r] =
                     [Answered(r, Bare500) EXCEPT !.write = NoRow, !.effects = @ + 1]]
  /\ Fault
  /\ UNCHANGED <<file, proc, open>>

\* A statement of the engine raises.  That is no WorkflowError, and of the
\* transaction PostgreSQL commits nothing.
StatementFails(r) ==
  LET mutating == req[r].c.cmd \in Mutating
  IN /\ req[r].pc \in IF mutating THEN {"engine", "writing"} ELSE {"query"}
     /\ req' = [req EXCEPT ![r] =
                  [Returned(r, Envelope("API_INTERNAL")) EXCEPT !.conn = @ /\ mutating]]
     /\ Fault
     /\ UNCHANGED <<file, proc, open, wf>>

\* emit_approval or emit_transition cannot write its line, after everything
\* has been written to the database: the route answers with an error of its
\* own, and the transaction is committed with that answer.
LogFails(r) ==
  /\ req[r].pc = "returned" /\ req[r].write # NoRow
  /\ req' = [req EXCEPT ![r].answer = Envelope("API_INTERNAL"), ![r].unlogged = TRUE]
  /\ Fault
  /\ UNCHANGED <<file, proc, open, wf>>

\* A worker commits a stage, with the transition that follows in the same
\* transaction (WorkerPipeline!CommitStage), or fails the workflow.  The
\* review of a second scenario is refused, and so is a revision.
Worker(w) ==
  LET row == wf[w]
      Moved(to, n) == [row EXCEPT !.state = to, !.version = @ + n, !.transitions = @ + n]
  IN /\ ~ Locked(w)
     /\ \/ row.state = "COLLECTING" /\ wf' = [wf EXCEPT ![w] = Moved("SELECTING_TOPIC", 2)]
        \/ /\ row.state = "GENERATING_SCENARIO"
           /\ wf' = [wf EXCEPT ![w] = [Moved("REVIEWING", 2) EXCEPT !.scenario = @ + 1]]
        \/ /\ row.state = "REVIEWING" /\ row.review # 0
           /\ wf' = [wf EXCEPT ![w] = Moved("FAILED", 1)]
     /\ UNCHANGED <<file, proc, open, req, faults>>

------------------------------------------------------------------------------
ThreadStep(r) ==
  \/ InitiateRead(r) \/ InitiateWrite(r) \/ ApprovalRead(r) \/ ApprovalWrite(r)
  \/ QueryConnection(r) \/ Query(r) \/ QueryTimeout(r)

LoopStep(r) ==
  \/ Accept(r) \/ GetConnection(r) \/ GetConnectionTimeout(r) \/ Probe(r) \/ Finish(r)

Next ==
  \/ LoadConfig \/ Wire \/ Stop \/ Teardown \/ Kill
  \/ \E r \in Request : \E c \in Commands[file][r] : Start(r, c)
  \/ \E r \in Request :
       \/ Refused(r) \/ LoopStep(r) \/ ThreadStep(r)
       \/ CommitFails(r) \/ StatementFails(r) \/ LogFails(r)
  \/ \E w \in Workflow : Worker(w)

\* The process starts, its loop and its threads run, a pool's timeout ends
\* a wait, and what has stopped is torn down.
Fairness ==
  /\ WF_vars(LoadConfig) /\ WF_vars(Wire) /\ WF_vars(Teardown)
  /\ \A r \in Request : WF_vars(LoopStep(r)) /\ WF_vars(ThreadStep(r)) /\ WF_vars(Refused(r))

Spec == Init /\ [][Next]_vars
FairSpec == Spec /\ Fairness

------------------------------------------------------------------------------
\* An output is never ahead of what it shows: the history it counts has at
\* least the transitions behind the state it names, and exactly these once
\* the workflow is APPROVED, with the scenario that was reviewed, although
\* the parts are read one by one while others write.
OutputNotBehind ==
  \A r \in Request :
    req[r].c.cmd = "output" /\ req[r].answer.status = 200 =>
      LET row == wf[req[r].c.wf]
          shown == [i \in {Parts("output")[j] : j \in 1 .. 4} |->
                      req[r].got[CHOOSE j \in 1 .. 4 : Parts("output")[j] = i]]
      IN /\ shown["transitions"] >= shown["row"][2] - 1
         /\ shown["row"][1] = "APPROVED" =>
              /\ shown["transitions"] = shown["row"][2] - 1
              /\ shown["scenario"] = row.scenario /\ shown["review"] = shown["scenario"]

\* What a client is told is what happened: a success means one committed
\* effect, an error with a class none at all, although the transaction of a
\* refused request is committed too, and no request ever takes effect twice.
\* A bare 500, a timeout and a closed socket leave it open, and so does the
\* API_INTERNAL of a request whose effect could not be logged.
AnswerTellsEffect ==
  \A r \in Request : req[r].c.cmd \in Mutating =>
    /\ req[r].pc = "answered" =>
         /\ ExitCode(req[r].answer) = "SUCCESS" => req[r].effects = 1
         /\ req[r].answer.class # "none" /\ ~ req[r].unlogged => req[r].effects = 0
    /\ req[r].pc = "usage" => req[r].effects = 0

\* Approvals sent again after a timeout, or by two humans, decide once: no
\* two of them took effect on the same version of a workflow, and a named
\* workflow is created once.
DecidedOnce ==
  \A q, r \in Request :
    q # r /\ req[q].effects = 1 /\ req[r].effects = 1 /\ req[q].c.wf = req[r].c.wf =>
      /\ ~ (req[q].c.cmd = "initiate" /\ req[r].c.cmd = "initiate")
      /\ (req[q].c.cmd = "approve" /\ req[r].c.cmd = "approve" =>
            req[q].got[1].version # req[r].got[1].version)

\* A request that is sent is answered or its socket closed, also when the
\* pool is used up by transactions that only the blocked loop can end.
EveryRequestEnds ==
  \A r \in Request : req[r].pc = "sent" ~> req[r].pc \in {"answered", "lost"}
==============================================================================
