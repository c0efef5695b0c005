--------------------------- MODULE OutboxPublisher ---------------------------
(***************************************************************************)
(* The outbox publisher thread of the coordinator (src/runtime/outbox.py): *)
(* batches of PENDING rows, each enqueued with retries and then marked,    *)
(* while transactions go on to commit new rows and the process may die.    *)
(*                                                                         *)
(* Rows are numbered in the order of created_at, which is taken before the *)
(* commit: transactions of different workflows commit in any order, those  *)
(* of one workflow one after the other (they update its row).  A Redis     *)
(* command whose reply is lost may have been executed; so may an UPDATE.   *)
(***************************************************************************)
EXTENDS Naturals, Sequences, FiniteSets

CONSTANTS
  MaxRows,          \* bound: outbox rows
  WorkflowOf,       \* the workflow of a row
  BatchSize,        \* publisher_config.batch_size
  MaxAttempts,      \* OUTBOX_RETRY_MAX_ATTEMPTS
  MaxFaults         \* bound: crashes and errors

ASSUME PublisherAssumption ==
  /\ MaxRows \in Nat
  /\ DOMAIN WorkflowOf = 1..MaxRows
  /\ BatchSize \in Nat \ {0}
  /\ MaxAttempts \in Nat \ {0}
  /\ MaxFaults \in Nat

VARIABLES
  rows,        \* rows committed
  published,   \* rows whose status is PUBLISHED
  stream,      \* rows whose message was added to the stream, in order
  pc,          \* of the thread
  batch,       \* rows of the batch that are still to come
  row,         \* the row that is being published, 0 when there is none
  tries,       \* failed attempts to enqueue it
  requested,   \* the shutdown event is set
  faults

vars == <<rows, published, stream, pc, batch, row, tries, requested, faults>>

thread == <<pc, batch, row, tries>>

Init ==
  /\ rows = {}
  /\ published = {}
  /\ stream = <<>>
  /\ pc = "poll" /\ batch = {} /\ row = 0 /\ tries = 0
  /\ requested = FALSE
  /\ faults = 0

Fault == faults < MaxFaults /\ faults' = faults + 1

\* A transaction of the engine commits.
Insert(i) ==
  /\ i \notin rows
  /\ \A j \in 1..(i - 1) : WorkflowOf[j] = WorkflowOf[i] => j \in rows
  /\ rows' = rows \cup {i}
  /\ UNCHANGED <<published, stream, thread, requested, faults>>

\* Mutants: the rows are fetched whatever their status, or newest first.
AnyRows == {i \in rows : Cardinality({j \in rows : j < i}) < BatchSize}
Newest ==
  LET pending == rows \ published
  IN {i \in pending : Cardinality({j \in pending : j > i}) < BatchSize}

\* fetch_unpublished: PENDING rows, the oldest batch_size of them
Oldest ==
  LET pending == rows \ published
  IN {i \in pending : Cardinality({j \in pending : j < i}) < BatchSize}

\* Mutant: the end of the batch is not noticed.
TakeUnchecked(S) ==
  /\ pc' = "enqueue" /\ tries' = 0
  /\ row' = IF S = {} THEN 0 ELSE CHOOSE i \in S : \A j \in S : i <= j
  /\ batch' = S \ {row'}

\* The loop over the batch takes its next row, the oldest of S.
Take(S) ==
  /\ tries' = 0
  /\ \/ S = {} /\ pc' = "sleep" /\ row' = 0 /\ batch' = {}
     \/ \E i \in S : /\ \A j \in S : i <= j
                     /\ pc' = "enqueue" /\ row' = i /\ batch' = S \ {i}

\* The thread starts over.
Fresh(at) == pc' = at /\ batch' = {} /\ row' = 0 /\ tries' = 0

\* run: the shutdown event is looked at before each batch.
FetchUnpublished ==
  /\ pc = "poll" /\ ~ requested
  /\ Take(Oldest)
  /\ UNCHANGED <<rows, published, stream, requested, faults>>

Leave ==
  /\ pc = "poll" /\ requested
  /\ Fresh("stopped")
  /\ UNCHANGED <<rows, published, stream, requested, faults>>

\* Mutant: the wait has no timeout.
WakeOnStop ==
  /\ pc = "sleep" /\ requested
  /\ Fresh("poll")
  /\ UNCHANGED <<rows, published, stream, requested, faults>>

\* _sleep_interruptible
Wake ==
  /\ pc = "sleep"
  /\ Fresh("poll")
  /\ UNCHANGED <<rows, published, stream, requested, faults>>

Enqueue ==
  /\ pc = "enqueue"
  /\ stream' = Append(stream, row)
  /\ pc' = "mark"
  /\ UNCHANGED <<rows, published, batch, row, tries, requested, faults>>

\* Mutant: a row that was given up is marked so that it does not come again.
GiveUpAndMark(added) ==
  /\ pc = "enqueue"
  /\ Fault
  /\ stream' = IF added THEN Append(stream, row) ELSE stream
  /\ IF tries + 1 < MaxAttempts
     THEN tries' = tries + 1 /\ UNCHANGED <<pc, batch, row, published>>
     ELSE Take(batch) /\ published' = published \cup {row}
  /\ UNCHANGED <<rows, requested>>

\* _enqueue_with_retry: Redis raises, with or without having added the
\* entry.  After the last attempt the row is left for a later batch.
EnqueueFails(added) ==
  /\ pc = "enqueue"
  /\ Fault
  /\ stream' = IF added THEN Append(stream, row) ELSE stream
  /\ IF tries + 1 < MaxAttempts
     THEN tries' = tries + 1 /\ UNCHANGED <<pc, batch, row>>
     ELSE Take(batch)
  /\ UNCHANGED <<rows, published, requested>>

MarkPublished ==
  /\ pc = "mark"
  /\ published' = published \cup {row}
  /\ Take(batch)
  /\ UNCHANGED <<rows, stream, requested, faults>>

\* A PersistenceError, of fetch_unpublished, get_task or mark_published, is
\* not among the errors that the loop catches, and neither is the failure
\* injected before the enqueue: the thread ends, its process does not.
ThreadDies(written) ==
  /\ pc \in {"poll", "enqueue", "mark"}
  /\ Fault
  /\ published' = IF pc = "mark" /\ written THEN published \cup {row}
                  ELSE published
  /\ Fresh("dead")
  /\ UNCHANGED <<rows, stream, requested>>

\* publisher.stop
Stop ==
  /\ ~ requested
  /\ requested' = TRUE
  /\ UNCHANGED <<rows, published, stream, thread, faults>>

\* The process dies, or ends with the thread still at work because the grace
\* period is over, and is started again.
Restart ==
  /\ Fault
  /\ Fresh("poll")
  /\ requested' = FALSE
  /\ UNCHANGED <<rows, published, stream>>

Step == FetchUnpublished \/ Leave \/ Wake \/ Enqueue \/ MarkPublished

Next ==
  \/ \E i \in 1..MaxRows : Insert(i)
  \/ FetchUnpublished \/ Leave \/ Wake \/ Enqueue \/ MarkPublished
  \/ \E added \in BOOLEAN : EnqueueFails(added)
  \/ \E written \in BOOLEAN : ThreadDies(written)
  \/ Stop \/ Restart

Spec == Init /\ [][Next]_vars

\* The thread is scheduled.  Nothing restarts the process.
FairSpec == Spec /\ WF_vars(Step)

------------------------------------------------------------------------------
TypeOK ==
  /\ rows \subseteq 1..MaxRows
  /\ published \subseteq rows
  /\ stream \in Seq(rows)
  /\ pc \in {"poll", "enqueue", "mark", "sleep", "dead", "stopped"}
  /\ batch \subseteq rows
  /\ row \in rows \cup {0}
  /\ pc \in {"enqueue", "mark"} <=> row # 0
  /\ tries \in 0..(MaxAttempts - 1)
  /\ requested \in BOOLEAN
  /\ faults \in 0..MaxFaults

InStream(i) == \E k \in DOMAIN stream : stream[k] = i

\* Transactional outbox: a row is marked only after its message is in the
\* stream, so whatever fails in between, no message is lost.
PublishedInStream == \A i \in published : InStream(i)

\* What the proof of PublishedInStream adds: the row about to be marked has
\* been added to the stream.
MarkedNext == pc = "mark" => InStream(row)

PublisherInv == TypeOK /\ PublishedInStream /\ MarkedNext

\* Every message too many is paid for by a fault: the loop itself, with its
\* batches and retries, duplicates nothing.
OneCopyPerFault == Len(stream) <= Cardinality(rows) + faults

\* As long as nothing fails, the messages of a workflow leave in the order of
\* its rows, whatever the batches look like.
InOrder ==
  faults = 0 =>
    \A k, l \in DOMAIN stream :
      k < l /\ WorkflowOf[stream[k]] = WorkflowOf[stream[l]] =>
        stream[k] < stream[l]

\* Whatever Redis does, and however often the process starts over, a thread
\* that is alive and not asked to stop gets every committed row out.
PublishedWhileAlive ==
  \A i \in 1..MaxRows :
    i \in rows ~> InStream(i) \/ requested \/ pc = "dead"
==============================================================================
