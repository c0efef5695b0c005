---------------------------- MODULE WorkerProcess ----------------------------
(***************************************************************************)
(* One worker process: the main thread of run_worker_process, the loop     *)
(* thread of DefaultWorkerLoop.run, and the threads of its ConcurrencyPool *)
(* that run _process_delivery, over one task stream and one database that  *)
(* can fail; with signals, the grace period, the teardown of the           *)
(* connections, kills and restarts.                                        *)
(*                                                                         *)
(* What a stage does to the workflow is WorkerPipeline's subject.  Here a  *)
(* task is open or over, and a delivery is a position in queue.entries.    *)
(***************************************************************************)
EXTENDS TaskQueue

CONSTANTS
  Thread,        \* pool threads: sum of the limits of all task types
  Limit,         \* workers.<agent>.concurrency of the role's task type
  Task,          \* tasks with a row in the database
  Unknown,       \* tasks without one
  Malformed,     \* fields some other producer may leave out of a message
  MaxEntries,    \* bound: messages added to the stream
  MaxBacklog,    \* bound: deliveries submitted and not yet started
  MaxDbErrors,   \* bound: database calls that fail
  MaxStarts      \* bound: starts of the process

ASSUME WorkerAssumption ==
  /\ IsFiniteSet(Thread)
  /\ Limit \in Nat \ {0}
  /\ {MaxEntries, MaxBacklog, MaxDbErrors, MaxStarts} \subseteq Nat
  /\ Malformed \subseteq SUBSET Required
  /\ Task \cap Unknown = {}

VARIABLES
  queue,      \* Redis, and this process's client of it
  main,       \* where the main thread is
  requested,  \* ShutdownState.requested
  loop,       \* where the loop thread is
  stop,       \* _shutdown_event
  backlog,    \* deliveries in the executor's queue
  thread,     \* the pool threads: pc, delivery, lease held
  permits,    \* value of the task type's semaphore
  inFlight,   \* _in_flight
  leases,     \* tasks with an unexpired row in task_leases
  over,       \* tasks that took effect or failed for good
  misread,    \* open tasks that were taken for completed ones (history)
  backoff,    \* tasks this process has scheduled a delay for
  pgOpen,     \* the connection pool is open
  dbErrors,   \* database calls that failed so far
  leaked,     \* permits of finally clauses that did not get to release
  starts,     \* starts of the process
  stats       \* a get_queue_stats call of some other process

process == <<main, requested, loop, stop, pgOpen, starts>>
pool == <<backlog, thread, permits, inFlight, leaked>>
database == <<leases, over, misread, dbErrors>>
vars == <<queue, process, pool, database, backoff, stats>>

Idle == [pc |-> "idle", d |-> 0, lease |-> FALSE]
NoStats == [pc |-> "idle", lag |-> 0, base |-> {}]

Init ==
  /\ main = "boot" /\ requested = FALSE
  /\ loop = "none" /\ stop = FALSE
  /\ backlog = <<>>
  /\ thread = [t \in Thread |-> Idle]
  /\ permits = Limit /\ inFlight = 0 /\ leaked = 0
  /\ backoff = {}
  /\ pgOpen = TRUE
  /\ queue = Connected
  /\ leases = {} /\ over = {} /\ misread = {} /\ dbErrors = 0
  /\ starts = 1
  /\ stats = NoStats

Go(t, pc) == thread' = [thread EXCEPT ![t].pc = pc]
TaskOf(d) == queue.entries[d].task
Mine(t) == TaskOf(thread[t].d)

\* A database call of the process: it works, or it raises.
DbWorks == pgOpen /\ UNCHANGED dbErrors
DbRaises ==
  \/ ~ pgOpen /\ UNCHANGED dbErrors
  \/ pgOpen /\ dbErrors < MaxDbErrors /\ dbErrors' = dbErrors + 1

------------------------------------------------------------------------------
Message(task, missing) ==
  [f \in Required \cup TraceKey \cup {"task"} |->
     IF f = "task" THEN task ELSE IF f \in missing THEN "blank" ELSE "ok"]

\* The publisher's messages, over a client of its own, and the malformed ones
\* of another producer.
Produce ==
  /\ Len(queue.entries) < MaxEntries
  /\ \E task \in Task \cup Unknown, missing \in Malformed \cup {{}} :
       LET m == Message(task, missing)
       IN IF missing = {}
          THEN \E o \in Enqueue([queue EXCEPT !.open = TRUE], m) :
                 o.res = "ok" /\ queue' = [o.q EXCEPT !.open = queue.open]
          ELSE queue' = [queue EXCEPT !.entries = Append(@, Encode(m))]
  /\ UNCHANGED <<process, pool, database, backoff, stats>>

\* QueueStatsCollector.collect reads the lag ...
StatsLag ==
  /\ stats.pc = "idle" /\ queue.group
  /\ stats' = [pc |-> "lag", lag |-> Lag(queue), base |-> Unacked(queue)]
  /\ UNCHANGED <<queue, process, pool, database, backoff>>

\* Mutant: only messages nobody has read count.
StatsLagOnly == stats.lag

\* ... and then, with another command, the pending list: what it would
\* report if it read it now.
StatsDepth == stats.lag + PendingCount(queue)

StatsPending ==
  /\ stats.pc = "lag"
  /\ stats' = NoStats
  /\ UNCHANGED <<queue, process, pool, database, backoff>>

------------------------------------------------------------------------------
\* run_worker_process: the loop thread starts before the signal handlers are
\* registered.
StartLoop ==
  /\ main = "boot"
  /\ main' = "started" /\ loop' = "ensure"
  /\ UNCHANGED <<queue, requested, stop, pgOpen, starts, pool, database, backoff, stats>>

Register ==
  /\ main = "started"
  /\ main' = "waiting"
  /\ UNCHANGED <<queue, requested, loop, stop, pgOpen, starts, pool, database, backoff, stats>>

\* SIGTERM.
Signal ==
  /\ main = "waiting"
  /\ ~ requested
  /\ requested' = TRUE
  /\ UNCHANGED <<queue, main, loop, stop, pgOpen, starts, pool, database, backoff, stats>>

Stop ==
  /\ main = "waiting" /\ requested
  /\ main' = "joining" /\ stop' = TRUE
  /\ UNCHANGED <<queue, requested, loop, pgOpen, starts, pool, database, backoff, stats>>

\* join_with_grace returns: the loop thread has ended, or the grace is over;
\* then _teardown_connections, in both cases.
Teardown ==
  /\ main = "joining"
  /\ main' = "done"
  /\ queue' = Close(queue)
  /\ pgOpen' = FALSE
  /\ UNCHANGED <<requested, loop, stop, starts, pool, database, backoff, stats>>

\* The loop thread is not a daemon: the process ends when it has ended.
Exit ==
  /\ main = "done" /\ loop = "ended"
  /\ main' = "exited"
  /\ UNCHANGED <<queue, requested, loop, stop, pgOpen, starts, pool, database, backoff, stats>>

\* What a process keeps only in its memory is gone with it.
MemoryLost ==
  /\ requested' = FALSE
  /\ loop' = "none" /\ stop' = FALSE
  /\ backlog' = <<>>
  /\ thread' = [t \in Thread |-> Idle]
  /\ permits' = Limit /\ inFlight' = 0 /\ leaked' = 0
  /\ backoff' = {}
  /\ pgOpen' = TRUE

\* SIGKILL, or SIGTERM before Register.
Kill ==
  /\ main \in {"started", "waiting", "joining", "done"}
  /\ main' = "killed"
  /\ MemoryLost
  /\ UNCHANGED <<queue, starts, database, stats>>

\* A new process; what it finds is in Redis and in the database.
Restart ==
  /\ main \in {"exited", "killed"}
  /\ starts < MaxStarts
  /\ starts' = starts + 1
  /\ main' = "boot"
  /\ MemoryLost
  /\ queue' = [queue EXCEPT !.open = TRUE]
  /\ UNCHANGED <<database, stats>>

Alive == main \in {"started", "waiting", "joining", "done"}

------------------------------------------------------------------------------
\* DefaultWorkerLoop.run.  An error of ensure_consumer_group ends the thread.
LoopEnsure ==
  /\ Alive /\ loop = "ensure"
  /\ \E o \in EnsureGroup(queue) :
       /\ queue' = o.q
       /\ loop' = IF o.res = "ok" THEN "check" ELSE "ended"
  /\ UNCHANGED <<main, requested, stop, pgOpen, starts, pool, database, backoff, stats>>

\* while not self._shutdown_event.is_set()
LoopCheck ==
  /\ Alive /\ loop = "check"
  /\ loop' = IF stop THEN "draining" ELSE "polling"
  /\ UNCHANGED <<queue, main, requested, stop, pgOpen, starts, pool, database, backoff, stats>>

\* Mutant: dequeue is tried again at once when it raises.
LoopPollRetries ==
  /\ Alive /\ loop = "polling"
  /\ \E o \in Dequeue(queue) :
       /\ queue' = o.q
       /\ loop' = IF o.res = "ok" THEN "check" ELSE "polling"
       /\ o.d # 0 => Len(backlog) < MaxBacklog
       /\ backlog' = IF o.d # 0 THEN Append(backlog, o.d) ELSE backlog
  /\ UNCHANGED <<main, requested, stop, pgOpen, starts, thread, permits, inFlight,
                 leaked, database, backoff, stats>>

\* dequeue and submit; an error leaves the loop for good.
LoopPoll ==
  /\ Alive /\ loop = "polling"
  /\ \E o \in Dequeue(queue) :
       /\ queue' = o.q
       /\ loop' = IF o.res = "ok" THEN "check" ELSE "draining"
       /\ o.d # 0 => Len(backlog) < MaxBacklog
       /\ backlog' = IF o.d # 0 THEN Append(backlog, o.d) ELSE backlog
  /\ UNCHANGED <<main, requested, stop, pgOpen, starts, thread, permits, inFlight,
                 leaked, database, backoff, stats>>

\* ConcurrencyPool.shutdown(wait=True): nothing is cancelled, everything is
\* waited for, and the timeout is ignored.
LoopDrain ==
  /\ Alive /\ loop = "draining"
  /\ backlog = <<>> /\ \A t \in Thread : thread[t] = Idle
  /\ loop' = "ended"
  /\ UNCHANGED <<queue, main, requested, stop, pgOpen, starts, pool, database, backoff, stats>>

------------------------------------------------------------------------------
\* A pool thread takes the next delivery and reads its task and workflow: no
\* task, or a delay that is not over (delays are not measured), ends the
\* delivery unacknowledged; so does an error, in a future nobody looks at.
Start(t, pc) ==
  thread' = [thread EXCEPT ![t] =
    IF pc = "idle" THEN Idle ELSE [Idle EXCEPT !.pc = pc, !.d = Head(backlog)]]

Take(t) ==
  LET task == TaskOf(Head(backlog))
  IN /\ Alive /\ thread[t] = Idle /\ backlog # <<>>
     /\ \/ DbRaises /\ Start(t, "idle")
        \/ DbWorks /\ task \in Unknown \cup (backoff \ over) /\ Start(t, "idle")
        \/ DbWorks /\ task \in over /\ Start(t, "skip")
        \/ DbWorks /\ task \in Task \ over /\ Start(t, "waiting")
     /\ backlog' = Tail(backlog)
     /\ UNCHANGED <<queue, process, permits, inFlight, leaked, leases, over, misread,
                    backoff, stats>>

\* A stale task is acknowledged outside the try.
Skip(t) ==
  /\ Alive /\ thread[t].pc = "skip"
  /\ queue' \in {o.q : o \in Ack(queue, thread[t].d)}
  /\ thread' = [thread EXCEPT ![t] = Idle]
  /\ UNCHANGED <<process, backlog, permits, inFlight, leaked, database, backoff, stats>>

\* acquire_blocking, and _in_flight += 1.
AcquireSlot(t) ==
  /\ Alive /\ thread[t].pc = "waiting" /\ permits > 0
  /\ permits' = permits - 1 /\ inFlight' = inFlight + 1
  /\ Go(t, "leasing")
  /\ UNCHANGED <<queue, process, backlog, leaked, database, backoff, stats>>

\* Mutant: a delivery that meets a lease is acknowledged.
LeaseOrAck(t) ==
  /\ Alive /\ thread[t].pc = "leasing" /\ DbWorks
  /\ IF Mine(t) \in leases
     THEN Go(t, "acking") /\ UNCHANGED leases
     ELSE /\ thread' = [thread EXCEPT ![t].pc = "handling", ![t].lease = TRUE]
          /\ leases' = leases \cup {Mine(t)}
  /\ UNCHANGED <<queue, process, backlog, permits, inFlight, leaked, over, misread, backoff, stats>>

\* LeaseCoordinator.acquire; an error is a permanent failure.
Lease(t) ==
  /\ Alive /\ thread[t].pc = "leasing"
  /\ \/ /\ DbRaises
        /\ Go(t, "failing") /\ UNCHANGED leases
     \/ /\ DbWorks
        /\ IF Mine(t) \in leases
           THEN Go(t, "finally") /\ UNCHANGED leases
           ELSE /\ thread' = [thread EXCEPT ![t].pc = "handling", ![t].lease = TRUE]
                /\ leases' = leases \cup {Mine(t)}
  /\ UNCHANGED <<queue, process, backlog, permits, inFlight, leaked, over, misread, backoff, stats>>

\* get_task_payload raises, _payload_logical_version swallows that, and the
\* key of version 1 is found completed: an open task goes to its
\* acknowledgement unexecuted.  (Which version a task has is not modelled
\* here: any open task may be one that had a predecessor.)
Misread(t) ==
  /\ DbRaises /\ pgOpen
  /\ misread' = misread \cup ({Mine(t)} \ over)
  /\ Go(t, "acking") /\ UNCHANGED <<over, backoff>>

\* The handler's transaction: already completed, committed, failed with a
\* retry to come, or failed for good.
Handle(t) ==
  /\ Alive /\ thread[t].pc = "handling"
  /\ \/ Misread(t)
     \/ /\ DbRaises
        /\ Go(t, "failing") /\ UNCHANGED <<over, misread, backoff>>
     \/ /\ DbWorks /\ UNCHANGED misread
        /\ \/ Mine(t) \in over /\ Go(t, "acking") /\ UNCHANGED <<over, backoff>>
           \/ /\ Mine(t) \notin over
              /\ over' = over \cup {Mine(t)}
              /\ Go(t, "releasing") /\ UNCHANGED backoff
           \/ /\ Mine(t) \notin over
              /\ backoff' = backoff \cup {Mine(t)}
              /\ Go(t, "finally") /\ UNCHANGED over
           \/ Mine(t) \notin over /\ Go(t, "failing") /\ UNCHANGED <<over, backoff>>
  /\ UNCHANGED <<queue, process, backlog, permits, inFlight, leaked, leases, stats>>

\* _handle_permanent_failure: an open task is failed and the delivery
\* acknowledged; the transition of one that is over is a conflict.
Fail(t) ==
  /\ Alive /\ thread[t].pc = "failing"
  /\ \/ DbRaises /\ Go(t, "finally") /\ UNCHANGED over
     \/ /\ DbWorks
        /\ IF Mine(t) \in over
           THEN Go(t, "finally") /\ UNCHANGED over
           ELSE Go(t, "acking") /\ over' = over \cup {Mine(t)}
  /\ UNCHANGED <<queue, process, backlog, permits, inFlight, leaked, leases, misread, backoff, stats>>

\* The lease is released before the acknowledgement; an error here is
\* handled as a failure of the task.
Release(t) ==
  /\ Alive /\ thread[t].pc = "releasing"
  /\ \/ DbRaises /\ Go(t, "failing") /\ UNCHANGED leases
     \/ /\ DbWorks
        /\ thread' = [thread EXCEPT ![t].pc = "acking", ![t].lease = FALSE]
        /\ leases' = leases \ {Mine(t)}
  /\ UNCHANGED <<queue, process, backlog, permits, inFlight, leaked, over, misread, backoff, stats>>

\* An acknowledgement that raises is taken for a failure of the task, which
\* changes nothing when the task is over.
AckDelivery(t) ==
  /\ Alive /\ thread[t].pc = "acking"
  /\ \E o \in Ack(queue, thread[t].d) :
       /\ queue' = o.q
       /\ Go(t, IF o.res = "ok" \/ Mine(t) \in over THEN "finally" ELSE "failing")
  /\ UNCHANGED <<process, backlog, permits, inFlight, leaked, database, backoff, stats>>

\* Mutant: the slot is given back by the lease's release only.
FinallyWithLease(t) ==
  /\ Alive /\ thread[t].pc = "finally" /\ DbWorks
  /\ leases' = IF thread[t].lease THEN leases \ {Mine(t)} ELSE leases
  /\ permits' = IF thread[t].lease THEN permits + 1 ELSE permits
  /\ inFlight' = inFlight - 1
  /\ thread' = [thread EXCEPT ![t] = Idle]
  /\ UNCHANGED <<queue, process, backlog, leaked, over, misread, backoff, stats>>

\* The finally clause releases the lease first: when that raises, the
\* semaphore and _in_flight keep their values.
Finally(t) ==
  /\ Alive /\ thread[t].pc = "finally"
  /\ \/ /\ thread[t].lease /\ DbRaises
        /\ leaked' = leaked + 1
        /\ UNCHANGED <<leases, permits, inFlight>>
     \/ /\ thread[t].lease => pgOpen
        /\ leases' = IF thread[t].lease THEN leases \ {Mine(t)} ELSE leases
        /\ permits' = permits + 1 /\ inFlight' = inFlight - 1
        /\ UNCHANGED <<leaked, dbErrors>>
  /\ thread' = [thread EXCEPT ![t] = Idle]
  /\ UNCHANGED <<queue, process, backlog, over, misread, backoff, stats>>

Work(t) ==
  \/ Take(t) \/ Skip(t) \/ AcquireSlot(t) \/ Lease(t) \/ Handle(t)
  \/ Fail(t) \/ Release(t) \/ AckDelivery(t) \/ Finally(t)

\* The row of a lease nobody renews any more expires.
LeaseExpires ==
  /\ \E task \in leases :
       /\ ~ \E t \in Thread : Alive /\ thread[t].lease /\ Mine(t) = task
       /\ leases' = leases \ {task}
  /\ UNCHANGED <<queue, process, pool, over, misread, dbErrors, backoff, stats>>

LoopStep == LoopEnsure \/ LoopCheck \/ LoopPoll \/ LoopDrain
MainStep == StartLoop \/ Register \/ Stop \/ Teardown \/ Exit

Next ==
  \/ Produce \/ StatsLag \/ StatsPending
  \/ MainStep \/ Signal \/ Kill \/ Restart
  \/ LoopStep
  \/ \E t \in Thread : Work(t)
  \/ LeaseExpires

Spec == Init /\ [][Next]_vars

\* Threads run; a Redis command and a handler return or raise.
Fairness ==
  /\ WF_vars(MainStep)
  /\ WF_vars(LoopStep)
  /\ \A t \in Thread : WF_vars(Work(t))

FairSpec == Spec /\ Fairness

------------------------------------------------------------------------------
Holds(t) == thread[t].pc \in {"leasing", "handling", "failing", "releasing",
                              "acking", "finally"}

\* The semaphore and the counter lose nothing but what a finally clause that
\* raised keeps: at most Limit deliveries are past acquire_blocking, and
\* _in_flight, which decides about WorkerShutdownError, counts them.
PermitsConserved ==
  LET holding == Cardinality({t \in Thread : Holds(t)})
  IN permits = Limit - holding - leaked /\ permits >= 0 /\ inFlight = holding + leaked

\* Whatever fails, is killed or is torn down in between, an acknowledged
\* delivery is malformed, or its task is over, or it is one whose payload
\* could not be read while the database answered everything else.
AckedIsOver ==
  \A d \in queue.acked :
    MissingFields(queue.entries[d]) # {} \/ TaskOf(d) \in over \cup misread

\* The two reads of the statistics race with consumers, and may count a
\* message twice, but never miss one that stayed unacknowledged.
StatsNeverUndercount ==
  stats.pc = "lag" => StatsDepth >= Cardinality(stats.base \ queue.acked)

\* A process that was asked to stop ends, unless a permit was lost.
StopsUnlessLeaked ==
  requested ~> (main \in {"exited", "killed"} \/ leaked > 0)
==============================================================================
