------------------------------ MODULE TaskLease ------------------------------
(***************************************************************************)
(* LeaseCoordinator (src/worker/lease.py) and PostgresTaskLeaseRepo: the   *)
(* lease that keeps two worker processes from executing one task at the    *)
(* same time, and the timer thread that renews it.                         *)
(*                                                                         *)
(* Time is counted in ticks and kept as what is left of a lease or of a    *)
(* timer.  It passes between any two steps: a timer may fire late, a       *)
(* callback may wait for a connection of the pool, a thread may take any   *)
(* time to execute its task.                                               *)
(***************************************************************************)
EXTENDS Naturals, FiniteSets

CONSTANTS
  Process,          \* worker processes, each with one LeaseCoordinator
  Task,
  LeaseId,          \* uuids; one is free again when nothing refers to it
  TTL,              \* DEFAULT_LEASE_TTL_SECONDS, in ticks
  RenewInterval,    \* DEFAULT_LEASE_RENEW_INTERVAL_SECONDS, in ticks
  RenewMayRaise     \* renew may fail with a database error

ASSUME LeaseAssumption ==
  /\ RenewInterval \in Nat \ {0}
  /\ TTL \in Nat
  /\ RenewInterval < TTL
  /\ RenewMayRaise \in BOOLEAN
  /\ "none" \notin LeaseId \cup Process

VARIABLES
  rows,         \* task_leases: [id, task, left]; left = 0 is expired
  chain,        \* the renewal chain of a lease: its timer or its callback
  renewFailed,  \* _renew_failed of each process
  thread        \* thread[p][t]: p's thread for task t

vars == <<rows, chain, renewFailed, thread>>

(***************************************************************************)
(* The renewal chain of a lease runs in process owner:                     *)
(*   unarmed  the lease is acquired, start_renewal has not been called     *)
(*   armed    a timer that has left ticks to go                            *)
(*   fired    a callback whose UPDATE will give the lease left ticks:      *)
(*            renew computes expires_at before it borrows a connection     *)
(*   renewed  a callback that is about to schedule the next timer          *)
(* late counts the ticks since the lease's expires_at was computed that    *)
(* were not on a timer, up to TTL.  loose says that stop_renewal found a   *)
(* callback under way.                                                     *)
(***************************************************************************)
Chain == [st : {"none", "unarmed", "armed", "fired", "renewed"}, left : 0..TTL,
          late : 0..TTL, loose : BOOLEAN, owner : Process \cup {"none"}]
Quiet ==
  [st |-> "none", left |-> 0, late |-> 0, loose |-> FALSE, owner |-> "none"]

\* Mutant: the timer is set to the lease's whole life.
ArmedForTTL(c) == [c EXCEPT !.st = "armed", !.left = TTL]

\* _schedule_renewal
Armed(c) == [c EXCEPT !.st = "armed", !.left = RenewInterval]

NoLease == "none"
Resting == [pc |-> "idle", id |-> NoLease]

Init ==
  /\ rows = {}
  /\ chain = [id \in LeaseId |-> Quiet]
  /\ renewFailed = [p \in Process |-> FALSE]
  /\ thread = [p \in Process |-> [t \in Task |-> Resting]]

Live(id) == \E r \in rows : r.id = id /\ r.left > 0

Unused(id) ==
  /\ \A r \in rows : r.id # id
  /\ chain[id].st = "none"
  /\ \A p \in Process, t \in Task : thread[p][t].id # id

------------------------------------------------------------------------------
\* The row of a lease whose INSERT ran wait ticks after its expires_at was
\* computed, and its chain.
Inserted(id, t, wait) == [id |-> id, task |-> t, left |-> TTL - wait]
Unarmed(p, wait) == [Quiet EXCEPT !.st = "unarmed", !.late = wait, !.owner = p]

\* Mutant: there is no unique index on task_id.
AcquireWithoutIndex(p, t) ==
  /\ thread[p][t].pc = "idle"
  /\ \E id \in {i \in LeaseId : Unused(i)}, wait \in 0..TTL :
       /\ rows' = rows \cup {Inserted(id, t, wait)}
       /\ chain' = [chain EXCEPT ![id] = Unarmed(p, wait)]
       /\ thread' = [thread EXCEPT ![p][t] = [pc |-> "acquired", id |-> id]]
  /\ UNCHANGED renewFailed

\* acquire: _delete_expired, then an insert that the unique index on task_id
\* refuses while another row is there.
Acquire(p, t) ==
  /\ thread[p][t].pc = "idle"
  /\ \A r \in rows : r.task = t => r.left = 0
  /\ \E id \in {i \in LeaseId : Unused(i)}, wait \in 0..TTL :
       /\ rows' = {r \in rows : r.task # t} \cup {Inserted(id, t, wait)}
       /\ chain' = [chain EXCEPT ![id] = Unarmed(p, wait)]
       /\ thread' = [thread EXCEPT ![p][t] = [pc |-> "acquired", id |-> id]]
  /\ UNCHANGED renewFailed

\* start_renewal clears the flag that all leases of the process share.
StartRenewal(p, t) ==
  /\ thread[p][t].pc = "acquired"
  /\ renewFailed' = [renewFailed EXCEPT ![p] = FALSE]
  /\ chain' = [chain EXCEPT ![thread[p][t].id] = Armed(@)]
  /\ thread' = [thread EXCEPT ![p][t].pc = "running"]
  /\ UNCHANGED rows

\* Mutant: the timer is not cancelled.
Uncancelled(c) == c

\* stop_renewal cancels the timer that is registered; a callback that has
\* started already is not stopped.
Cancelled(c) ==
  CASE c.st = "armed"               -> Quiet
    [] c.st \in {"fired", "renewed"} -> [c EXCEPT !.loose = TRUE]
    [] OTHER                        -> c

\* The task is done and its lease is about to be released ("releasing"), or
\* the finally clause is about to release it ("last"), for the first time or
\* after a release that failed.
StopRenewal(p, t) ==
  /\ \/ thread[p][t].pc = "running"
        /\ \E pc \in {"releasing", "last"} :
             thread' = [thread EXCEPT ![p][t].pc = pc]
     \/ thread[p][t].pc = "finally" /\ thread' = [thread EXCEPT ![p][t].pc = "last"]
  /\ chain' = [chain EXCEPT ![thread[p][t].id] = Cancelled(@)]
  /\ UNCHANGED <<rows, renewFailed>>

\* The rest of release: DELETE by lease_id.
Release(p, t) ==
  /\ thread[p][t].pc \in {"releasing", "last"}
  /\ rows' = {r \in rows : r.id # thread[p][t].id}
  /\ thread' = [thread EXCEPT ![p][t] = Resting]
  /\ UNCHANGED <<chain, renewFailed>>

\* The DELETE raises and the row stays: the finally clause tries once more,
\* an error there ends the thread.
ReleaseRaises(p, t) ==
  /\ \/ thread[p][t].pc = "releasing"
        /\ thread' = [thread EXCEPT ![p][t].pc = "finally"]
     \/ thread[p][t].pc = "last" /\ thread' = [thread EXCEPT ![p][t] = Resting]
  /\ UNCHANGED <<rows, chain, renewFailed>>

\* The process dies and restarts; its rows stay.
Crash(p) ==
  /\ \E t \in Task : thread[p][t].pc # "idle"
  /\ thread' = [thread EXCEPT ![p] = [t \in Task |-> Resting]]
  /\ chain' = [id \in LeaseId |-> IF chain[id].owner = p THEN Quiet
                                  ELSE chain[id]]
  /\ renewFailed' = [renewFailed EXCEPT ![p] = FALSE]
  /\ UNCHANGED rows

------------------------------------------------------------------------------
\* _renew_lease starts: the first thing it looks at is the shared flag.
Fire(id) ==
  LET p == chain[id].owner
  IN /\ chain[id].st = "armed" /\ chain[id].left = 0
     /\ chain' = [chain EXCEPT ![id] =
                    IF renewFailed[p] THEN Quiet
                    ELSE [@ EXCEPT !.st = "fired", !.left = TTL]]
     /\ UNCHANGED <<rows, renewFailed, thread>>

\* Mutant: the lease is extended from its old end.
RenewedFromEnd(id) ==
  {IF r.id = id THEN [r EXCEPT !.left = @ + chain[id].left] ELSE r : r \in rows}

\* UPDATE task_leases SET expires_at = %s WHERE lease_id = %s AND
\* expires_at > now
Renewed(id) ==
  {IF r.id = id THEN [r EXCEPT !.left = chain[id].left] ELSE r : r \in rows}

\* The UPDATE finds the lease, or PersistenceNotFoundError sets the flag.
Renew(id) ==
  LET p == chain[id].owner
  IN /\ chain[id].st = "fired"
     /\ IF Live(id)
        THEN /\ rows' = Renewed(id)
             /\ chain' = [chain EXCEPT ![id] =
                            [@ EXCEPT !.st = "renewed", !.left = 0, !.late = TTL - chain[id].left]]
             /\ UNCHANGED renewFailed
        ELSE /\ renewFailed' = [renewFailed EXCEPT ![p] = TRUE]
             /\ chain' = [chain EXCEPT ![id] = Quiet]
             /\ UNCHANGED rows
     /\ UNCHANGED thread

\* Any other exception ends the timer thread silently.
RenewRaises(id) ==
  /\ RenewMayRaise
  /\ chain[id].st = "fired"
  /\ chain' = [chain EXCEPT ![id] = Quiet]
  /\ UNCHANGED <<rows, renewFailed, thread>>

\* _schedule_renewal registers the next timer, whether or not the lease was
\* released in the meantime.
Reschedule(id) ==
  /\ chain[id].st = "renewed"
  /\ chain' = [chain EXCEPT ![id] = Armed(@)]
  /\ UNCHANGED <<rows, renewFailed, thread>>

Callback(id) == Fire(id) \/ Renew(id) \/ Reschedule(id)

Down(n) == IF n = 0 THEN 0 ELSE n - 1
Up(n) == IF n = TTL THEN n ELSE n + 1

\* A tick counts down a timer, or is a tick of delay.
Older(c) ==
  CASE c.st = "none"                -> c
    [] c.st = "armed" /\ c.left > 0 -> [c EXCEPT !.left = @ - 1]
    [] OTHER                        -> [c EXCEPT !.left = Down(@), !.late = Up(@)]

Tick ==
  /\ rows' = {[r EXCEPT !.left = Down(@)] : r \in rows}
  /\ chain' = [id \in LeaseId |-> Older(chain[id])]
  /\ UNCHANGED <<renewFailed, thread>>

Next ==
  \/ \E p \in Process, t \in Task :
       Acquire(p, t) \/ StartRenewal(p, t) \/ StopRenewal(p, t)
         \/ Release(p, t) \/ ReleaseRaises(p, t)
  \/ \E p \in Process : Crash(p)
  \/ \E id \in LeaseId : Fire(id) \/ Renew(id) \/ RenewRaises(id)
                           \/ Reschedule(id)
  \/ Tick

Spec == Init /\ [][Next]_vars

\* Time passes and timer threads run.
Fairness ==
  /\ WF_vars(Tick)
  /\ \A id \in LeaseId : WF_vars(Callback(id))

FairSpec == Spec /\ Fairness

------------------------------------------------------------------------------
TypeOK ==
  /\ rows \subseteq [id : LeaseId, task : Task, left : 0..TTL]
  /\ chain \in [LeaseId -> Chain]
  /\ renewFailed \in [Process -> BOOLEAN]
  /\ thread \in [Process -> [Task -> [pc : {"idle", "acquired", "running",
                                            "releasing", "finally", "last"},
                                      id : LeaseId \cup {NoLease}]]]

Executes(p, t) == thread[p][t].pc \in {"acquired", "running"}

\* The renewal has used up what the interval leaves of the lease's life.
Overdue(id) == chain[id].late >= TTL - RenewInterval

\* The renewal interval is short enough: a lease expires under the thread that
\* executes only when its renewal chain has died, or when start_renewal, the
\* timer and the callback together were late by TTL - RenewInterval.
LapseNeedsDelay ==
  \A p \in Process, t \in Task :
    LET id == thread[p][t].id
    IN Executes(p, t) => Live(id) \/ chain[id].st = "none" \/ Overdue(id)

\* Two processes execute one task only when the renewal of one of them has
\* died or is that late.
OverlapNeedsDelay ==
  \A p, q \in Process, t \in Task :
    p # q /\ Executes(p, t) /\ Executes(q, t) =>
      \E id \in {thread[p][t].id, thread[q][t].id} :
        chain[id].st = "none" \/ Overdue(id)

Orphan(id) == \A p \in Process, t \in Task : thread[p][t].id # id

\* A lease nobody executes under (its process died, or its release failed)
\* does not block its task for ever, unless stop_renewal came while a callback
\* was under way: that one schedules the next timer whatever happened since.
OrphansExpire ==
  \A id \in LeaseId :
    Live(id) /\ Orphan(id) /\ ~ chain[id].loose ~> ~ Live(id)
==============================================================================
