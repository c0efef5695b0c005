------------------------- MODULE WorkerProcessProofs -------------------------
(***************************************************************************)
(* A worker process for every number of pool threads, tasks, messages,     *)
(* faults and restarts: no permit is lost but the ones that are counted,   *)
(* an acknowledged delivery is over, malformed or unreadable, and the      *)
(* statistics of the queue miss nothing.                                   *)
(***************************************************************************)
EXTENDS WorkerProcess, FiniteSetTheorems, WellFoundedInduction, TLAPS

\* A message in the stream, as Encode makes it.
Entry ==
  UNION {[Required \cup K \cup {"task"} -> FieldValue \cup Task \cup Unknown] :
           K \in SUBSET TraceKey}

Queue ==
  [entries : Seq(Entry), last : Nat, pending : SUBSET Nat, acked : SUBSET Nat,
   group : BOOLEAN, open : BOOLEAN, faults : Nat]

\* What Redis keeps of a consumer group: an entry up to last-delivered-id is
\* pending or acknowledged.
QueueOK(q) ==
  /\ q \in Queue
  /\ q.last <= Len(q.entries)
  /\ q.pending \cup q.acked = 1..q.last

\* No command takes a message, a delivery or an acknowledgement back.
Grows(q, r) ==
  /\ Len(q.entries) <= Len(r.entries)
  /\ \A d \in 1..Len(q.entries) : r.entries[d] = q.entries[d]
  /\ q.last <= r.last
  /\ q.acked \subseteq r.acked

\* An outcome of a command is the queue before it or after it, but for the
\* count of the faults.
LEMMA CommandOutcome ==
  ASSUME NEW q, NEW done, NEW res, NEW d, NEW errors, QueueOK(q), QueueOK(done),
         NEW o \in Command(q, done, res, d, errors)
  PROVE  /\ QueueOK(o.q) /\ o.d \in {d, 0}
         /\ \E r \in {q, done} : /\ o.q.entries = r.entries /\ o.q.last = r.last
                                 /\ o.q.pending = r.pending /\ o.q.acked = r.acked
         /\ o.d # 0 => o.q = done
  <1>1. CASE o = Outcome(done, res, d)
    BY <1>1 DEF Outcome
  <1>2. CASE \E r \in {q, done}, e \in errors : o = Outcome(Failed(r), e, 0)
    <2>1. PICK r \in {q, done}, e \in errors : o = Outcome(Failed(r), e, 0)
      BY <1>2
    <2>2. QueueOK(r)
      OBVIOUS
    <2>3. o.q = [r EXCEPT !.faults = @ + 1] /\ o.d = 0
      BY <2>1 DEF Outcome, Failed
    <2>4. /\ o.q \in Queue
          /\ o.q.entries = r.entries /\ o.q.last = r.last
          /\ o.q.pending = r.pending /\ o.q.acked = r.acked
      <3>1. r \in Queue /\ r.faults + 1 \in Nat
        BY <2>2 DEF QueueOK, Queue
      <3> QED  BY <2>3, <3>1 DEF Queue
    <2>5. QueueOK(o.q)
      BY <2>2, <2>4 DEF QueueOK, Queue
    <2> QED  BY <2>3, <2>4, <2>5
  <1> QED  BY <1>1, <1>2 DEF Command

\* A queue grows into itself.
LEMMA GrowsRefl ==
  ASSUME NEW q, QueueOK(q), NEW r, r.entries = q.entries, r.last = q.last, r.acked = q.acked
  PROVE  Grows(q, r)
  BY DEF QueueOK, Queue, Grows

\* Encode keeps the required fields, the trace keys with a value and the task.
LEMMA EncodeEntry ==
  ASSUME NEW task \in Task \cup Unknown, NEW missing
  PROVE  Encode(Message(task, missing)) \in Entry
  <1> DEFINE m == Message(task, missing)
             K == {k \in TraceKey : m[k] # "blank"}
  <1>1. \A f \in Required \cup TraceKey \cup {"task"} :
          m[f] \in FieldValue \cup Task \cup Unknown
    BY DEF Message, FieldValue
  <1>2. Encode(m) \in [Required \cup K \cup {"task"} -> FieldValue \cup Task \cup Unknown]
    BY <1>1 DEF Encode
  <1>3. K \in SUBSET TraceKey
    OBVIOUS
  <1> QED  BY <1>2, <1>3 DEF Entry

\* XADD.
LEMMA AppendGrows ==
  ASSUME NEW q, QueueOK(q), NEW e \in Entry
  PROVE  LET r == [q EXCEPT !.entries = Append(@, e)]
         IN QueueOK(r) /\ Grows(q, r) /\ r.acked = q.acked /\ r.pending = q.pending
              /\ r.last = q.last
  <1> DEFINE r == [q EXCEPT !.entries = Append(@, e)]
  <1>1. q.entries \in Seq(Entry) /\ q.last \in Nat /\ q.last <= Len(q.entries)
    BY DEF QueueOK, Queue
  <1>2. /\ Append(q.entries, e) \in Seq(Entry)
        /\ Len(Append(q.entries, e)) = Len(q.entries) + 1
        /\ \A d \in 1..Len(q.entries) : Append(q.entries, e)[d] = q.entries[d]
        /\ Len(q.entries) \in Nat
    BY <1>1
  <1>3. /\ r.entries = Append(q.entries, e) /\ r.last = q.last /\ r.pending = q.pending
        /\ r.acked = q.acked
        /\ r \in Queue
    BY <1>2 DEF QueueOK, Queue
  <1> HIDE DEF r
  <1>4. QueueOK(r)
    BY <1>1, <1>2, <1>3 DEF QueueOK, Queue
  <1>5. Grows(q, r)
    BY <1>1, <1>2, <1>3 DEF Grows
  <1> QED  BY <1>3, <1>4, <1>5 DEF r

\* XACK of a pending entry.
LEMMA AckedGrows ==
  ASSUME NEW q, QueueOK(q), NEW d \in q.pending
  PROVE  LET r == [q EXCEPT !.pending = @ \ {d}, !.acked = @ \cup {d}]
         IN /\ QueueOK(r) /\ Grows(q, r)
            /\ r.entries = q.entries /\ r.last = q.last /\ r.acked = q.acked \cup {d}
  <1> DEFINE r == [q EXCEPT !.pending = @ \ {d}, !.acked = @ \cup {d}]
  <1>1. /\ r.entries = q.entries /\ r.last = q.last /\ r.pending = q.pending \ {d}
        /\ r.acked = q.acked \cup {d}
        /\ r \in Queue
    BY DEF QueueOK, Queue
  <1> HIDE DEF r
  <1>2. QueueOK(r)
    <2>1. r.pending \cup r.acked = q.pending \cup q.acked
      BY <1>1
    <2> QED  BY <1>1, <2>1 DEF QueueOK, Queue
  <1>3. Grows(q, r)
    BY <1>1 DEF Grows, QueueOK, Queue
  <1> QED  BY <1>1, <1>2, <1>3 DEF r

\* XREADGROUP of the next entry.
LEMMA DeliveredGrows ==
  ASSUME NEW q, QueueOK(q), q.last < Len(q.entries)
  PROVE  LET r == [q EXCEPT !.last = @ + 1, !.pending = @ \cup {q.last + 1}]
         IN /\ QueueOK(r) /\ Grows(q, r) /\ r.entries = q.entries /\ r.acked = q.acked
            /\ q.last + 1 \in r.pending
  <1> DEFINE r == [q EXCEPT !.last = @ + 1, !.pending = @ \cup {q.last + 1}]
  <1>0. q.last \in Nat /\ Len(q.entries) \in Nat
    BY DEF QueueOK, Queue
  <1>1. /\ r.entries = q.entries /\ r.last = q.last + 1
        /\ r.pending = q.pending \cup {q.last + 1} /\ r.acked = q.acked
        /\ r \in Queue
    <2>1. q \in Queue /\ q.last + 1 \in Nat /\ q.pending \cup {q.last + 1} \in SUBSET Nat
      BY <1>0 DEF QueueOK, Queue
    <2> QED  BY <2>1 DEF Queue
  <1> HIDE DEF r
  <1>2. QueueOK(r)
    <2>1. 1..(q.last + 1) = (1..q.last) \cup {q.last + 1}
      BY <1>0
    <2>2. r.pending \cup r.acked = 1..r.last
      BY <1>1, <2>1 DEF QueueOK, Queue
    <2> QED  BY <1>0, <1>1, <2>2 DEF QueueOK, Queue
  <1>3. Grows(q, r)
    BY <1>0, <1>1 DEF Grows, QueueOK, Queue
  <1> QED  BY <1>1, <1>2, <1>3 DEF r

\* XAUTOCLAIM finds one of the pending entries.
LEMMA OldestPending ==
  ASSUME NEW S \in SUBSET Nat, S # {}
  PROVE  Oldest(S) \in S
  <1> DEFINE R == OpToRel(<, Nat)
  <1>1. \A x, y \in Nat : <<y, x>> \in R <=> y < x
    BY DEF OpToRel
  <1>2. IsWellFoundedOn(R, Nat)
    BY NatLessThanWellFounded
  <1> HIDE DEF R
  <1>3. PICK x \in S : \A y \in S : ~ (<<y, x>> \in R)
    BY <1>2, WFMin
  <1>4. ASSUME NEW y \in S PROVE x <= y
    <2>1. x \in Nat /\ y \in Nat
      OBVIOUS
    <2>2. ~ (y < x)
      BY <1>1, <1>3, <2>1
    <2> QED  BY <2>1, <2>2
  <1> QED  BY <1>4 DEF Oldest

LEMMA GrowsTrans ==
  ASSUME NEW p, NEW q, NEW r, QueueOK(p), QueueOK(q), QueueOK(r), Grows(p, q), Grows(q, r)
  PROVE  Grows(p, r)
  <1>1. /\ Len(p.entries) \in Nat /\ Len(q.entries) \in Nat /\ Len(r.entries) \in Nat
        /\ p.last \in Nat /\ q.last \in Nat /\ r.last \in Nat
    BY DEF QueueOK, Queue
  <1> QED  BY <1>1 DEF Grows

\* A command that grows the queue into done, if it has an effect.
LEMMA CommandGrows ==
  ASSUME NEW q, NEW done, NEW res, NEW d, NEW errors, QueueOK(q), QueueOK(done),
         Grows(q, done), done.entries = q.entries,
         NEW o \in Command(q, done, res, d, errors)
  PROVE  /\ QueueOK(o.q) /\ Grows(q, o.q) /\ o.q.entries = q.entries
         /\ o.q.acked \in {q.acked, done.acked}
         /\ o.d # 0 => o.d = d /\ o.q = done
  <1>1. PICK r \in {q, done} : /\ o.q.entries = r.entries /\ o.q.last = r.last
                               /\ o.q.pending = r.pending /\ o.q.acked = r.acked
    BY CommandOutcome
  <1>2. QueueOK(o.q) /\ (o.d # 0 => o.d = d /\ o.q = done)
    BY CommandOutcome
  <1>3. Grows(q, r)
    BY GrowsRefl
  <1>4. Grows(q, o.q)
    BY <1>1, <1>3 DEF Grows
  <1> QED  BY <1>1, <1>2, <1>4

LEMMA ReadOutcome ==
  ASSUME NEW q, QueueOK(q), NEW o \in Read(q)
  PROVE  /\ QueueOK(o.q) /\ Grows(q, o.q) /\ o.q.entries = q.entries /\ o.q.acked = q.acked
         /\ o.d # 0 => o.d \in o.q.pending
  <1>1. CASE q.last < Len(q.entries)
    <2> DEFINE r == [q EXCEPT !.last = @ + 1, !.pending = @ \cup {q.last + 1}]
    <2>1. /\ QueueOK(r) /\ Grows(q, r) /\ r.entries = q.entries /\ r.acked = q.acked
          /\ q.last + 1 \in r.pending
      BY <1>1, DeliveredGrows
    <2>2. o \in Command(q, r, "ok", q.last + 1, Translated)
      BY <1>1 DEF Read
    <2> HIDE DEF r
    <2> QED  BY <2>1, <2>2, CommandGrows
  <1>2. CASE ~ (q.last < Len(q.entries)) /\ q.pending # {}
    <2>1. Oldest(q.pending) \in q.pending
      BY <1>2, OldestPending DEF QueueOK, Queue
    <2>2. o \in Command(q, q, "ok", Oldest(q.pending), Translated)
      BY <1>2 DEF Read
    <2> QED  BY <2>1, <2>2, CommandGrows, GrowsRefl
  <1>3. CASE ~ (q.last < Len(q.entries)) /\ q.pending = {}
    <2>1. o \in Command(q, q, "ok", 0, Translated)
      BY <1>3 DEF Read
    <2> QED  BY <2>1, CommandGrows, GrowsRefl
  <1> QED  BY <1>1, <1>2, <1>3

\* dequeue acknowledges malformed entries only, and delivers one of the
\* others.
LEMMA DequeueOutcome ==
  ASSUME NEW q, QueueOK(q), NEW o \in Dequeue(q)
  PROVE  /\ QueueOK(o.q) /\ Grows(q, o.q) /\ o.q.entries = q.entries
         /\ o.d # 0 => o.d \in 1..Len(q.entries)
         /\ \A d \in o.q.acked : d \in q.acked \/ MissingFields(q.entries[d]) # {}
  <1>1. CASE o = Outcome(Failed(q), "RedisError", 0)
    <2>1. o \in Command(q, q, "ok", 0, {"RedisError"}) \/ ~ (q.faults < MaxRedisFaults)
      BY <1>1 DEF Command
    <2>2. o.d = 0 /\ o.q = [q EXCEPT !.faults = @ + 1]
      BY <1>1 DEF Outcome, Failed
    <2>3. q \in Queue /\ q.faults + 1 \in Nat
      BY DEF QueueOK, Queue
    <2>4. /\ o.q \in Queue /\ o.q.entries = q.entries /\ o.q.last = q.last
          /\ o.q.pending = q.pending /\ o.q.acked = q.acked
      BY <2>2, <2>3 DEF Queue
    <2>5. QueueOK(o.q)
      BY <2>4 DEF QueueOK
    <2> QED  BY <2>2, <2>4, <2>5, GrowsRefl
  <1>2. CASE \E e \in {"TQ_CONSUMER_GROUP", "TQ_CONN"} : o = Outcome(q, e, 0)
    <2>1. o.q = q /\ o.d = 0
      BY <1>2 DEF Outcome
    <2> QED  BY <2>1, GrowsRefl
  <1>3. ASSUME NEW p \in Read(q), o \in Reject(p)
        PROVE  /\ QueueOK(o.q) /\ Grows(q, o.q) /\ o.q.entries = q.entries
               /\ o.d # 0 => o.d \in 1..Len(q.entries)
               /\ \A d \in o.q.acked : d \in q.acked \/ MissingFields(q.entries[d]) # {}
    <2>1. /\ QueueOK(p.q) /\ Grows(q, p.q) /\ p.q.entries = q.entries /\ p.q.acked = q.acked
          /\ p.d # 0 => p.d \in p.q.pending
      BY ReadOutcome
    <2>2. p.d # 0 => p.d \in 1..Len(q.entries)
      BY <2>1 DEF QueueOK, Queue
    <2>3. CASE o = p
      BY <2>1, <2>2, <2>3
    <2>4. CASE ~ (p.d = 0 \/ Decode(p.q.entries[p.d]).missing = {})
      <3> DEFINE r == [p.q EXCEPT !.pending = @ \ {p.d}, !.acked = @ \cup {p.d}]
      <3>1. /\ QueueOK(r) /\ Grows(p.q, r)
            /\ r.entries = p.q.entries /\ r.acked = p.q.acked \cup {p.d}
        BY <2>1, <2>4, AckedGrows
      <3>2. MissingFields(q.entries[p.d]) # {}
        BY <2>1, <2>4 DEF Decode
      <3>3. PICK c \in Command(p.q, r, "ok", 0, {"RedisError"}) :
              o = Outcome(c.q, "TQ_INVALID_MESSAGE", 0)
        BY <1>3, <2>4 DEF Reject
      <3> HIDE DEF r
      <3>4. /\ QueueOK(c.q) /\ Grows(p.q, c.q) /\ c.q.entries = p.q.entries
            /\ c.q.acked \in {p.q.acked, r.acked}
        BY <2>1, <3>1, CommandGrows
      <3>5. o.q = c.q /\ o.d = 0
        BY <3>3 DEF Outcome
      <3>6. Grows(q, c.q)
        BY <2>1, <3>4, GrowsTrans
      <3> QED  BY <2>1, <3>1, <3>2, <3>4, <3>5, <3>6
    <2> QED  BY <1>3, <2>3, <2>4 DEF Reject
  <1>4. \/ o = Outcome(Failed(q), "RedisError", 0)
        \/ \E e \in {"TQ_CONSUMER_GROUP", "TQ_CONN"} : o = Outcome(q, e, 0)
        \/ \E p \in Read(q) : o \in Reject(p)
    BY DEF Dequeue, NotConnected
  <1> QED  BY <1>1, <1>2, <1>3, <1>4

LEMMA AckOutcome ==
  ASSUME NEW q, QueueOK(q), NEW d, NEW o \in Ack(q, d)
  PROVE  /\ QueueOK(o.q) /\ Grows(q, o.q) /\ o.q.entries = q.entries
         /\ o.q.acked \subseteq q.acked \cup {d}
  <1>1. CASE ~ q.open
    <2>1. o.q = q
      BY <1>1 DEF Ack, NotConnected, Outcome
    <2> QED  BY <2>1, GrowsRefl
  <1>2. CASE q.open /\ d \in q.pending
    <2> DEFINE r == [q EXCEPT !.pending = @ \ {d}, !.acked = @ \cup {d}]
    <2>1. QueueOK(r) /\ Grows(q, r) /\ r.entries = q.entries /\ r.acked = q.acked \cup {d}
      BY <1>2, AckedGrows
    <2>2. o \in Command(q, r, "ok", 0, Translated)
      BY <1>2 DEF Ack
    <2> HIDE DEF r
    <2> QED  BY <2>1, <2>2, CommandGrows
  <1>3. CASE q.open /\ d \notin q.pending
    <2>1. o \in Command(q, q, "TQ_ACK", 0, Translated)
      BY <1>3 DEF Ack
    <2> QED  BY <2>1, CommandGrows, GrowsRefl
  <1> QED  BY <1>1, <1>2, <1>3

\* Connecting and closing the client.
LEMMA OpenOutcome ==
  ASSUME NEW q, QueueOK(q), NEW b \in BOOLEAN
  PROVE  LET r == [q EXCEPT !.open = b]
         IN QueueOK(r) /\ Grows(q, r) /\ r.entries = q.entries /\ r.acked = q.acked
  <1> DEFINE r == [q EXCEPT !.open = b]
  <1>1. /\ r \in Queue /\ r.entries = q.entries /\ r.last = q.last
        /\ r.pending = q.pending /\ r.acked = q.acked
    BY DEF QueueOK, Queue
  <1> HIDE DEF r
  <1>2. QueueOK(r)
    BY <1>1 DEF QueueOK
  <1> QED  BY <1>1, <1>2, GrowsRefl DEF r

\* Every step of the system leaves a stream that has grown, and acknowledges
\* a malformed delivery or the one of a thread at an acknowledgement.
LEMMA QueueMoves ==
  ASSUME QueueOK(queue), [Next]_vars
  PROVE  /\ QueueOK(queue') /\ Grows(queue, queue')
         /\ \A d \in queue'.acked :
              \/ d \in queue.acked
              \/ MissingFields(queue.entries[d]) # {} /\ d \in 1..Len(queue.entries)
              \/ \E t \in Thread : thread[t].pc \in {"skip", "acking"} /\ thread[t].d = d
  <1> DEFINE Goal == /\ QueueOK(queue') /\ Grows(queue, queue')
                     /\ \A d \in queue'.acked :
                          \/ d \in queue.acked
                          \/ MissingFields(queue.entries[d]) # {} /\ d \in 1..Len(queue.entries)
                          \/ \E t \in Thread : /\ thread[t].pc \in {"skip", "acking"}
                                               /\ thread[t].d = d
  <1>0. queue \in Queue /\ queue.acked \subseteq 1..Len(queue.entries)
    BY DEF QueueOK, Queue
  <1>1. CASE queue' = queue
    BY <1>1, GrowsRefl
  <1>2. CASE Produce
    <2>1. PICK task \in Task \cup Unknown, missing \in Malformed \cup {{}} :
            IF missing = {}
            THEN \E o \in Enqueue([queue EXCEPT !.open = TRUE], Message(task, missing)) :
                   o.res = "ok" /\ queue' = [o.q EXCEPT !.open = queue.open]
            ELSE queue' = [queue EXCEPT !.entries = Append(@, Encode(Message(task, missing)))]
      BY <1>2 DEF Produce
    <2> DEFINE e == Encode(Message(task, missing))
    <2>2. e \in Entry
      BY EncodeEntry
    <2>3. CASE missing = {}
      <3> DEFINE q == [queue EXCEPT !.open = TRUE]
                 r == [q EXCEPT !.entries = Append(@, e)]
      <3>1. PICK o \in Enqueue(q, Message(task, missing)) :
              o.res = "ok" /\ queue' = [o.q EXCEPT !.open = queue.open]
        BY <2>1, <2>3
      <3>2. /\ QueueOK(q) /\ q.entries = queue.entries /\ q.acked = queue.acked
            /\ Grows(queue, q) /\ queue.open \in BOOLEAN
        BY <1>0, OpenOutcome DEF Queue
      <3>3. QueueOK(r) /\ Grows(q, r) /\ r.acked = q.acked
        BY <2>2, <3>2, AppendGrows
      <3>4. o.q = r
        BY <1>0, <3>1 DEF Enqueue, NotConnected, Command, Outcome, Translated, Queue
      <3>5. Grows(queue, r)
        BY <3>2, <3>3, GrowsTrans
      <3>6. queue' = [r EXCEPT !.open = queue.open]
        BY <3>1, <3>4
      <3> HIDE DEF q, r
      <3>7. QueueOK(queue') /\ Grows(r, queue') /\ queue'.acked = r.acked
        BY <3>2, <3>3, <3>6, OpenOutcome
      <3> QED  BY <3>2, <3>3, <3>5, <3>7, GrowsTrans
    <2>4. CASE missing # {}
      BY <2>1, <2>2, <2>4, AppendGrows
    <2> QED  BY <2>3, <2>4
  <1>3. CASE LoopEnsure
    <2> DEFINE r == [queue EXCEPT !.group = TRUE]
    <2>1. PICK o \in EnsureGroup(queue) : queue' = o.q
      BY <1>3 DEF LoopEnsure
    <2>2. /\ r \in Queue /\ r.entries = queue.entries /\ r.last = queue.last
          /\ r.pending = queue.pending /\ r.acked = queue.acked
      BY <1>0 DEF Queue
    <2>3. o \in Command(queue, r, "ok", 0, {"RedisError"})
      BY DEF EnsureGroup
    <2> HIDE DEF r
    <2>4. QueueOK(r) /\ Grows(queue, r)
      BY <2>2, GrowsRefl DEF QueueOK
    <2> QED  BY <2>1, <2>2, <2>3, <2>4, CommandGrows
  <1>4. CASE LoopPoll
    <2>1. PICK o \in Dequeue(queue) : queue' = o.q
      BY <1>4 DEF LoopPoll
    <2>2. QueueOK(o.q) /\ Grows(queue, o.q) /\ o.q.entries = queue.entries
      BY DequeueOutcome
    <2>3. o.q.acked \subseteq 1..Len(queue.entries)
      BY <2>2 DEF QueueOK, Queue
    <2> QED  BY <2>1, <2>2, <2>3, DequeueOutcome
  <1>5. ASSUME NEW t \in Thread, Skip(t) \/ AckDelivery(t) PROVE Goal
    <2>1. thread[t].pc \in {"skip", "acking"} /\ \E o \in Ack(queue, thread[t].d) : queue' = o.q
      BY <1>5 DEF Skip, AckDelivery
    <2> QED  BY <2>1, AckOutcome
  <1>6. CASE Teardown \/ Restart
    <2>1. \E b \in BOOLEAN : queue' = [queue EXCEPT !.open = b]
      BY <1>6 DEF Teardown, Restart, Close
    <2> QED  BY <2>1, OpenOutcome
  <1>7. \/ queue' = queue
        \/ Produce \/ LoopEnsure \/ LoopPoll \/ Teardown \/ Restart
        \/ \E t \in Thread : Skip(t) \/ AckDelivery(t)
    BY DEF Next, vars, StatsLag, StatsPending, MainStep, StartLoop, Register, Stop, Exit,
           Signal, Kill, LoopStep, LoopCheck, LoopDrain, Work, Take, AcquireSlot, Lease,
           Handle, Fail, Release, Finally, LeaseExpires
  <1> QED  BY <1>1, <1>2, <1>3, <1>4, <1>5, <1>6, <1>7

------------------------------------------------------------------------------
PoolThread ==
  [pc : {"idle", "skip", "waiting", "leasing", "handling", "failing", "releasing",
         "acking", "finally"},
   d : Nat, lease : BOOLEAN]

PoolTypes ==
  /\ QueueOK(queue)
  /\ thread \in [Thread -> PoolThread]
  /\ backlog \in Seq(Nat)
  /\ permits \in Int /\ inFlight \in Int /\ leaked \in Nat

\* What the executor has and what a thread works on was delivered.
Delivered ==
  /\ \A i \in 1..Len(backlog) : backlog[i] \in 1..Len(queue.entries)
  /\ \A t \in Thread : thread[t].pc # "idle" => thread[t].d \in 1..Len(queue.entries)

\* A thread on its way to an acknowledgement has a task that is over, or one
\* that was taken for such.
OverBeforeAck ==
  \A t \in Thread :
    /\ thread[t].pc = "releasing" => Mine(t) \in over
    /\ thread[t].pc \in {"skip", "acking"} => Mine(t) \in over \cup misread

\* The lag that was read counts the messages after some last-delivered-id,
\* and that only moves on.
StatsBase ==
  stats.pc = "lag" =>
    /\ stats.lag \in Nat
    /\ \E last \in 0..queue.last : stats.base \subseteq 1..(last + stats.lag)

WorkerInv ==
  /\ PoolTypes /\ Delivered /\ OverBeforeAck
  /\ PermitsConserved /\ AckedIsOver /\ StatsBase

Holding == {t \in Thread : Holds(t)}

\* Assigning to the pc of one thread.
LEMMA GoThread ==
  ASSUME PoolTypes, NEW t \in Thread, NEW pc, Go(t, pc), [thread[t] EXCEPT !.pc = pc] \in PoolThread
  PROVE  /\ thread' \in [Thread -> PoolThread]
         /\ \A u \in Thread \ {t} : thread'[u] = thread[u]
         /\ thread'[t].pc = pc /\ thread'[t].d = thread[t].d /\ thread'[t].lease = thread[t].lease
  BY DEF PoolTypes, Go, PoolThread

\* What a step of a pool thread does to the thread, its semaphore and the
\* tasks that are over.
WorkEffect(t) ==
  /\ thread' \in [Thread -> PoolThread]
  /\ \A u \in Thread \ {t} : thread'[u] = thread[u]
  /\ over \subseteq over' /\ misread \subseteq misread'
  /\ thread'[t].pc # "idle" => thread'[t].d \in 1..Len(queue.entries)
  /\ thread'[t].pc = "releasing" => TaskOf(thread'[t].d) \in over'
  /\ thread'[t].pc \in {"skip", "acking"} => TaskOf(thread'[t].d) \in over' \cup misread'
  /\ \/ backlog' = backlog
     \/ backlog # <<>> /\ backlog' = Tail(backlog)
  /\ \/ (Holds(t)' <=> Holds(t)) /\ UNCHANGED <<permits, inFlight, leaked>>
     \/ /\ ~ Holds(t) /\ Holds(t)' /\ permits > 0
        /\ permits' = permits - 1 /\ inFlight' = inFlight + 1 /\ leaked' = leaked
     \/ /\ Holds(t) /\ ~ Holds(t)'
        /\ \/ permits' = permits + 1 /\ inFlight' = inFlight - 1 /\ leaked' = leaked
           \/ permits' = permits /\ inFlight' = inFlight /\ leaked' = leaked + 1
  /\ stats' = stats

LEMMA WorkMoves ==
  ASSUME PoolTypes, Delivered, OverBeforeAck, NEW t \in Thread, Work(t)
  PROVE  WorkEffect(t)
  <1>0. thread[t] \in PoolThread /\ thread \in [Thread -> PoolThread]
    BY DEF PoolTypes
  <1>a. Idle \in PoolThread /\ Idle.pc = "idle"
    BY DEF Idle, PoolThread
  \* One that only moves on, without semaphore and backlog.
  <1>b. ASSUME NEW pc, Go(t, pc), thread[t].pc # "idle",
               pc \in {"handling", "failing", "releasing", "acking", "finally"},
               Holds(t), over \subseteq over', misread \subseteq misread',
               pc = "releasing" => Mine(t) \in over',
               pc = "acking" => Mine(t) \in over' \cup misread',
               UNCHANGED <<backlog, permits, inFlight, leaked, stats>>
        PROVE  WorkEffect(t)
    <2>1. [thread[t] EXCEPT !.pc = pc] \in PoolThread
      BY <1>0, <1>b DEF PoolThread
    <2>2. /\ thread' \in [Thread -> PoolThread]
          /\ \A u \in Thread \ {t} : thread'[u] = thread[u]
          /\ thread'[t].pc = pc /\ thread'[t].d = thread[t].d
      BY <1>b, <2>1, GoThread
    <2>3. Holds(t)'
      BY <1>b, <2>2 DEF Holds
    <2> QED  BY <1>b, <2>2, <2>3 DEF WorkEffect, Delivered, Mine, TaskOf
  <1>1. CASE Take(t)
    <2>1. /\ thread[t] = Idle /\ backlog # <<>> /\ backlog' = Tail(backlog)
          /\ UNCHANGED <<queue, permits, inFlight, leaked, over, misread, stats>>
          /\ \E pc \in {"idle", "skip", "waiting"} :
               Start(t, pc) /\ (pc = "skip" => TaskOf(Head(backlog)) \in over)
      BY <1>1 DEF Take
    <2>2. PICK pc \in {"idle", "skip", "waiting"} :
            Start(t, pc) /\ (pc = "skip" => TaskOf(Head(backlog)) \in over)
      BY <2>1
    <2>3. Head(backlog) \in Nat /\ Head(backlog) \in 1..Len(queue.entries)
      BY <2>1 DEF PoolTypes, Delivered
    <2> DEFINE new == IF pc = "idle" THEN Idle ELSE [Idle EXCEPT !.pc = pc, !.d = Head(backlog)]
    <2>4. new \in PoolThread /\ new.pc = pc /\ (pc # "idle" => new.d = Head(backlog))
      BY <2>3 DEF Idle, PoolThread
    <2>5. thread' = [thread EXCEPT ![t] = new]
      BY <2>2 DEF Start
    <2> HIDE DEF new
    <2>6. /\ thread' \in [Thread -> PoolThread] /\ thread'[t] = new
          /\ \A u \in Thread \ {t} : thread'[u] = thread[u]
      BY <1>0, <2>4, <2>5
    <2>7. ~ Holds(t) /\ ~ Holds(t)'
      BY <1>a, <2>1, <2>2, <2>4, <2>6 DEF Holds
    <2> QED  BY <2>1, <2>2, <2>3, <2>4, <2>6, <2>7 DEF WorkEffect
  <1>2. CASE Skip(t)
    <2>1. /\ thread[t].pc = "skip" /\ thread' = [thread EXCEPT ![t] = Idle]
          /\ UNCHANGED <<over, misread, backlog, permits, inFlight, leaked, stats>>
      BY <1>2 DEF Skip, database
    <2>2. /\ thread' \in [Thread -> PoolThread] /\ thread'[t] = Idle
          /\ \A u \in Thread \ {t} : thread'[u] = thread[u]
      BY <1>0, <1>a, <2>1
    <2>3. ~ Holds(t) /\ ~ Holds(t)'
      BY <1>a, <2>1, <2>2 DEF Holds
    <2> QED  BY <1>a, <2>1, <2>2, <2>3 DEF WorkEffect
  <1>3. CASE AcquireSlot(t)
    <2>1. /\ thread[t].pc = "waiting" /\ permits > 0 /\ Go(t, "leasing")
          /\ permits' = permits - 1 /\ inFlight' = inFlight + 1
          /\ UNCHANGED <<backlog, leaked, over, misread, stats>>
      BY <1>3 DEF AcquireSlot, database
    <2>2. [thread[t] EXCEPT !.pc = "leasing"] \in PoolThread
      BY <1>0 DEF PoolThread
    <2>3. /\ thread' \in [Thread -> PoolThread]
          /\ \A u \in Thread \ {t} : thread'[u] = thread[u]
          /\ thread'[t].pc = "leasing" /\ thread'[t].d = thread[t].d
      BY <2>1, <2>2, GoThread
    <2>4. ~ Holds(t) /\ Holds(t)'
      BY <2>1, <2>3 DEF Holds
    <2> QED  BY <2>1, <2>3, <2>4 DEF WorkEffect, Delivered
  \* The lease is noted with the pc.
  <1>c. ASSUME NEW pc \in {"handling", "acking"}, NEW b \in BOOLEAN,
               thread' = [thread EXCEPT ![t].pc = pc, ![t].lease = b],
               thread[t].pc \in {"leasing", "releasing"},
               pc = "acking" => Mine(t) \in over,
               UNCHANGED <<over, misread, backlog, permits, inFlight, leaked, stats>>
        PROVE  WorkEffect(t)
    <2>1. /\ thread' \in [Thread -> PoolThread]
          /\ \A u \in Thread \ {t} : thread'[u] = thread[u]
          /\ thread'[t].pc = pc /\ thread'[t].d = thread[t].d
      BY <1>0, <1>c DEF PoolThread
    <2>2. Holds(t) /\ Holds(t)'
      BY <1>c, <2>1 DEF Holds
    <2> QED  BY <1>c, <2>1, <2>2 DEF WorkEffect, Delivered, Mine, TaskOf
  <1>4. CASE Lease(t)
    <2>1. /\ thread[t].pc = "leasing"
          /\ UNCHANGED <<over, misread, backlog, permits, inFlight, leaked, stats>>
          /\ \/ Go(t, "failing") \/ Go(t, "finally")
             \/ thread' = [thread EXCEPT ![t].pc = "handling", ![t].lease = TRUE]
      BY <1>4 DEF Lease
    <2>2. Holds(t)
      BY <2>1 DEF Holds
    <2> QED  BY <1>b, <1>c, <2>1, <2>2
  <1>5. CASE Handle(t)
    <2>1. /\ thread[t].pc = "handling"
          /\ UNCHANGED <<backlog, permits, inFlight, leaked, stats>>
          /\ \/ /\ \E pc \in {"failing", "finally"} : Go(t, pc)
                /\ over' = over /\ misread' = misread
             \/ /\ misread' = misread \cup ({Mine(t)} \ over)
                /\ Go(t, "acking") /\ over' = over
             \/ Mine(t) \in over /\ Go(t, "acking") /\ over' = over /\ misread' = misread
             \/ over' = over \cup {Mine(t)} /\ Go(t, "releasing") /\ misread' = misread
      BY <1>5 DEF Handle, Misread
    <2>2. Holds(t)
      BY <2>1 DEF Holds
    <2> QED  BY <1>b, <2>1, <2>2
  <1>6. CASE Fail(t)
    <2>1. /\ thread[t].pc = "failing"
          /\ UNCHANGED <<misread, backlog, permits, inFlight, leaked, stats>>
          /\ \/ Go(t, "finally") /\ over' = over
             \/ Go(t, "acking") /\ over' = over \cup {Mine(t)}
      BY <1>6 DEF Fail
    <2>2. Holds(t)
      BY <2>1 DEF Holds
    <2> QED  BY <1>b, <2>1, <2>2
  <1>7. CASE Release(t)
    <2>1. /\ thread[t].pc = "releasing"
          /\ UNCHANGED <<over, misread, backlog, permits, inFlight, leaked, stats>>
          /\ \/ Go(t, "failing")
             \/ thread' = [thread EXCEPT ![t].pc = "acking", ![t].lease = FALSE]
      BY <1>7 DEF Release
    <2>2. Holds(t) /\ Mine(t) \in over
      BY <2>1 DEF Holds, OverBeforeAck
    <2> QED  BY <1>b, <1>c, <2>1, <2>2
  <1>8. CASE AckDelivery(t)
    <2>1. /\ thread[t].pc = "acking" /\ \E pc \in {"finally", "failing"} : Go(t, pc)
          /\ UNCHANGED <<over, misread, backlog, permits, inFlight, leaked, stats>>
      BY <1>8 DEF AckDelivery, database
    <2>2. Holds(t)
      BY <2>1 DEF Holds
    <2> QED  BY <1>b, <2>1, <2>2
  <1>9. CASE Finally(t)
    <2>1. /\ thread[t].pc = "finally" /\ thread' = [thread EXCEPT ![t] = Idle]
          /\ UNCHANGED <<over, misread, backlog, stats>>
          /\ \/ permits' = permits + 1 /\ inFlight' = inFlight - 1 /\ leaked' = leaked
             \/ permits' = permits /\ inFlight' = inFlight /\ leaked' = leaked + 1
      BY <1>9 DEF Finally
    <2>2. /\ thread' \in [Thread -> PoolThread] /\ thread'[t] = Idle
          /\ \A u \in Thread \ {t} : thread'[u] = thread[u]
      BY <1>0, <1>a, <2>1
    <2>3. Holds(t) /\ ~ Holds(t)'
      BY <1>a, <2>1, <2>2 DEF Holds
    <2> QED  BY <1>a, <2>1, <2>2, <2>3 DEF WorkEffect
  <1> QED
    BY <1>1, <1>2, <1>3, <1>4, <1>5, <1>6, <1>7, <1>8, <1>9 DEF Work

------------------------------------------------------------------------------
LEMMA WorkerInit == Init => WorkerInv
  <1> SUFFICES ASSUME Init PROVE WorkerInv
    OBVIOUS
  <1>1. QueueOK(queue) /\ queue.acked = {}
    <2>1. queue = Connected /\ <<>> \in Seq(Entry) /\ Len(<<>>) = 0
      BY DEF Init
    <2>2. Connected \in Queue
      BY <2>1 DEF Connected, Queue
    <2> QED  BY <2>1, <2>2 DEF QueueOK, Connected
  <1>2. PoolTypes
    <2>1. Idle \in PoolThread
      BY DEF Idle, PoolThread
    <2> QED  BY <1>1, <2>1, WorkerAssumption DEF Init, PoolTypes
  <1>3. Delivered /\ OverBeforeAck
    BY DEF Init, Delivered, OverBeforeAck, Idle
  <1>4. PermitsConserved
    <2>1. {t \in Thread : Holds(t)} = {}
      BY DEF Init, Holds, Idle
    <2>2. permits = Limit /\ inFlight = 0 /\ leaked = 0 /\ Limit \in Nat
      BY WorkerAssumption DEF Init
    <2> QED  BY <2>1, <2>2, FS_EmptySet DEF PermitsConserved
  <1>5. AckedIsOver
    BY <1>1 DEF AckedIsOver
  <1>6. StatsBase
    BY DEF Init, StatsBase, NoStats
  <1> QED  BY <1>2, <1>3, <1>4, <1>5, <1>6 DEF WorkerInv

\* The pool's threads are finitely many, and so are those that hold a permit.
LEMMA HoldingFinite ==
  /\ IsFiniteSet(Holding) /\ Cardinality(Holding) \in Nat
  /\ IsFiniteSet(Holding') /\ Cardinality(Holding') \in Nat
  <1>1. Holding \in SUBSET Thread /\ Holding' \in SUBSET Thread /\ IsFiniteSet(Thread)
    BY WorkerAssumption DEF Holding
  <1> QED  BY <1>1, FS_Subset, FS_CardinalityType

\* acquire_blocking takes one permit for one more holder, and the finally
\* clause gives it back or leaks it.
LEMMA PermitsStep ==
  ASSUME WorkerInv, NEW t \in Thread, WorkEffect(t)
  PROVE  PermitsConserved' /\ permits' \in Int /\ inFlight' \in Int /\ leaked' \in Nat
  <1>0. /\ permits = Limit - Cardinality(Holding) - leaked /\ permits >= 0
        /\ inFlight = Cardinality(Holding) + leaked
        /\ permits \in Int /\ inFlight \in Int /\ leaked \in Nat /\ Limit \in Nat
    BY WorkerAssumption DEF WorkerInv, PermitsConserved, PoolTypes, Holding
  <1>1. \A u \in Thread \ {t} : Holds(u)' <=> Holds(u)
    BY DEF WorkEffect, Holds
  <1>2. SUFFICES /\ permits' = Limit - Cardinality(Holding') - leaked' /\ permits' >= 0
                 /\ inFlight' = Cardinality(Holding') + leaked'
                 /\ permits' \in Int /\ inFlight' \in Int /\ leaked' \in Nat
    BY DEF PermitsConserved, Holding
  <1>3. CASE (Holds(t)' <=> Holds(t)) /\ UNCHANGED <<permits, inFlight, leaked>>
    <2>1. Holding' = Holding
      BY <1>1, <1>3 DEF Holding
    <2> QED  BY <1>0, <1>3, <2>1
  <1>4. CASE /\ ~ Holds(t) /\ Holds(t)' /\ permits > 0
             /\ permits' = permits - 1 /\ inFlight' = inFlight + 1 /\ leaked' = leaked
    <2>1. Holding' = Holding \cup {t} /\ t \notin Holding
      BY <1>1, <1>4 DEF Holding
    <2>2. Cardinality(Holding') = Cardinality(Holding) + 1
      BY <2>1, HoldingFinite, FS_AddElement
    <2> QED  BY <1>0, <1>4, <2>2, HoldingFinite
  <1>5. CASE /\ Holds(t) /\ ~ Holds(t)'
             /\ \/ permits' = permits + 1 /\ inFlight' = inFlight - 1 /\ leaked' = leaked
                \/ permits' = permits /\ inFlight' = inFlight /\ leaked' = leaked + 1
    <2>1. Holding' = Holding \ {t} /\ t \in Holding
      BY <1>1, <1>5 DEF Holding
    <2>2. Cardinality(Holding') = Cardinality(Holding) - 1
      BY <2>1, HoldingFinite, FS_RemoveElement
    <2> QED  BY <1>0, <1>5, <2>2, HoldingFinite
  <1> QED  BY <1>3, <1>4, <1>5 DEF WorkEffect

LEMMA WorkerStep == WorkerInv /\ [Next]_vars => WorkerInv'
  <1> SUFFICES ASSUME WorkerInv, [Next]_vars PROVE WorkerInv'
    OBVIOUS
  <1> USE WorkerAssumption
  <1>0. /\ PoolTypes /\ Delivered /\ OverBeforeAck
        /\ PermitsConserved /\ AckedIsOver /\ StatsBase /\ QueueOK(queue)
    BY DEF WorkerInv, PoolTypes
  <1>a. /\ QueueOK(queue') /\ Grows(queue, queue')
        /\ \A d \in queue'.acked :
             \/ d \in queue.acked
             \/ MissingFields(queue.entries[d]) # {} /\ d \in 1..Len(queue.entries)
             \/ \E t \in Thread : thread[t].pc \in {"skip", "acking"} /\ thread[t].d = d
    BY <1>0, QueueMoves
  <1>b. /\ \A d \in 1..Len(queue.entries) :
             d \in 1..Len(queue'.entries) /\ queue'.entries[d].task = TaskOf(d)
        /\ queue.acked \subseteq 1..Len(queue.entries)
    <2>1. /\ Len(queue.entries) \in Nat /\ Len(queue'.entries) \in Nat
          /\ queue.acked \subseteq 1..Len(queue.entries)
      BY <1>0, <1>a DEF QueueOK, Queue
    <2> QED  BY <1>a, <2>1 DEF Grows, TaskOf
  \* What was over stays so: the new acknowledgements are of such tasks.
  <1>c. ASSUME over \subseteq over', misread \subseteq misread' PROVE AckedIsOver'
    <2> SUFFICES ASSUME NEW d \in queue'.acked
                 PROVE  \/ MissingFields(queue'.entries[d]) # {}
                        \/ queue'.entries[d].task \in over' \cup misread'
      BY DEF AckedIsOver, TaskOf
    <2>1. CASE d \in queue.acked
      <3>1. d \in 1..Len(queue.entries) /\ queue'.entries[d] = queue.entries[d]
        BY <1>a, <1>b, <2>1 DEF Grows
      <3> QED  BY <1>0, <1>b, <1>c, <2>1, <3>1 DEF AckedIsOver
    <2>2. CASE MissingFields(queue.entries[d]) # {} /\ d \in 1..Len(queue.entries)
      BY <1>a, <2>2 DEF Grows
    <2>3. CASE \E t \in Thread : thread[t].pc \in {"skip", "acking"} /\ thread[t].d = d
      <3>1. PICK t \in Thread : thread[t].pc \in {"skip", "acking"} /\ thread[t].d = d
        BY <2>3
      <3>2. TaskOf(d) \in over \cup misread /\ d \in 1..Len(queue.entries)
        BY <1>0, <3>1 DEF OverBeforeAck, Mine, Delivered
      <3> QED  BY <1>b, <1>c, <3>2
    <2> QED  BY <1>a, <2>1, <2>2, <2>3
  <1>d. StatsBase'
    <2>0. /\ queue.last \in Nat /\ queue'.last \in Nat /\ queue.last <= queue'.last
          /\ Len(queue.entries) \in Nat /\ queue.last <= Len(queue.entries)
          /\ DOMAIN queue.entries = 1..Len(queue.entries)
      BY <1>0, <1>a DEF QueueOK, Queue, Grows
    <2>1. CASE stats' = stats
      <3>1. 0..queue.last \subseteq 0..queue'.last
        BY <2>0
      <3> QED  BY <1>0, <2>1, <3>1 DEF StatsBase
    <2>2. CASE stats' = NoStats
      BY <2>2 DEF StatsBase, NoStats
    <2>3. CASE StatsLag
      <3>1. /\ stats'.lag = Len(queue.entries) - queue.last
            /\ stats'.base \subseteq 1..Len(queue.entries) /\ queue' = queue
        BY <2>0, <2>3 DEF StatsLag, Lag, Unacked
      <3>2. stats'.lag \in Nat /\ queue.last + stats'.lag = Len(queue.entries)
        BY <2>0, <3>1
      <3>3. stats'.base \subseteq 1..(queue.last + stats'.lag)
        BY <3>1, <3>2
      <3>4. queue.last <= queue'.last
        BY <2>0
      <3> QED  BY <2>0, <3>2, <3>3, <3>4 DEF StatsBase
    <2>4. stats' = stats \/ stats' = NoStats \/ StatsLag
      BY DEF Next, vars, Produce, StatsPending, MainStep, StartLoop, Register, Stop, Teardown,
             Exit, Signal, Kill, Restart, LoopStep, LoopEnsure, LoopCheck, LoopPoll, LoopDrain,
             Work, Take, Skip, AcquireSlot, Lease, Handle, Fail, Release, AckDelivery, Finally,
             LeaseExpires
    <2> QED  BY <2>1, <2>2, <2>3, <2>4
  \* The pool is left alone.
  <1>1. CASE UNCHANGED <<pool, over, misread>>
    <2>1. UNCHANGED <<backlog, thread, permits, inFlight, leaked, over, misread>>
      BY <1>1 DEF pool
    <2>2. PoolTypes' /\ Delivered'
      BY <1>0, <1>a, <1>b, <2>1 DEF PoolTypes, Delivered
    <2>3. OverBeforeAck'
      BY <1>0, <1>b, <2>1 DEF OverBeforeAck, Delivered, Mine, TaskOf
    <2>4. PermitsConserved'
      BY <1>0, <2>1 DEF PermitsConserved, Holds
    <2>5. AckedIsOver'
      BY <1>c, <2>1
    <2> QED  BY <1>d, <2>2, <2>3, <2>4, <2>5 DEF WorkerInv
  <1>2. CASE LoopPoll
    <2>1. PICK o \in Dequeue(queue) :
            /\ queue' = o.q
            /\ backlog' = IF o.d # 0 THEN Append(backlog, o.d) ELSE backlog
            /\ UNCHANGED <<thread, permits, inFlight, leaked, over, misread>>
      BY <1>2 DEF LoopPoll, database
    <2>2. o.d # 0 => o.d \in 1..Len(queue.entries) /\ o.d \in Nat
      BY <1>0, DequeueOutcome
    <2>3. PoolTypes' /\ Delivered'
      <3>1. CASE o.d = 0
        BY <1>0, <1>a, <1>b, <2>1, <3>1 DEF PoolTypes, Delivered
      <3>2. CASE o.d # 0
        <4>1. /\ backlog \in Seq(Nat) /\ backlog' = Append(backlog, o.d) /\ o.d \in Nat
              /\ o.d \in 1..Len(queue.entries)
          BY <1>0, <2>1, <2>2, <3>2 DEF PoolTypes
        <4>2. /\ backlog' \in Seq(Nat) /\ Len(backlog) \in Nat
              /\ \A i \in 1..Len(backlog') :
                   backlog'[i] = o.d \/ (i \in 1..Len(backlog) /\ backlog'[i] = backlog[i])
          BY <4>1
        <4>3. PoolTypes'
          BY <1>0, <1>a, <2>1, <4>2 DEF PoolTypes
        <4>4. Delivered'
          BY <1>0, <1>b, <2>1, <4>1, <4>2 DEF Delivered
        <4> QED  BY <4>3, <4>4
      <3> QED  BY <3>1, <3>2
    <2>4. OverBeforeAck'
      BY <1>0, <1>b, <2>1 DEF OverBeforeAck, Delivered, Mine, TaskOf
    <2>5. PermitsConserved'
      BY <1>0, <2>1 DEF PermitsConserved, Holds
    <2>6. AckedIsOver'
      BY <1>c, <2>1
    <2> QED  BY <1>d, <2>3, <2>4, <2>5, <2>6 DEF WorkerInv
  <1>3. CASE MemoryLost /\ over' = over /\ misread' = misread
    <2>1. /\ backlog' = <<>> /\ thread' = [t \in Thread |-> Idle]
          /\ over' = over /\ misread' = misread
          /\ permits' = Limit /\ inFlight' = 0 /\ leaked' = 0
      BY <1>3 DEF MemoryLost
    <2>2. PoolTypes'
      <3>1. Idle \in PoolThread
        BY DEF Idle, PoolThread
      <3> QED  BY <1>a, <2>1, <3>1 DEF PoolTypes
    <2>3. Delivered' /\ OverBeforeAck'
      BY <2>1 DEF Delivered, OverBeforeAck, Idle
    <2>4. PermitsConserved'
      <3>1. Holding' = {}
        BY <2>1 DEF Holding, Holds, Idle
      <3>2. Cardinality(Holding') = 0
        BY <3>1, FS_EmptySet
      <3>3. /\ permits' = Limit - Cardinality(Holding') - leaked' /\ permits' >= 0
            /\ inFlight' = Cardinality(Holding') + leaked'
        BY <2>1, <3>2
      <3> QED  BY <3>3 DEF PermitsConserved, Holding
    <2>5. AckedIsOver'
      BY <1>c, <2>1
    <2> QED  BY <1>d, <2>2, <2>3, <2>4, <2>5 DEF WorkerInv
  <1>4. ASSUME NEW t \in Thread, Work(t) PROVE WorkerInv'
    <2>0. WorkEffect(t)
      BY <1>0, <1>4, WorkMoves
    <2>1. /\ thread' \in [Thread -> PoolThread]
          /\ \A u \in Thread \ {t} : thread'[u] = thread[u]
          /\ over \subseteq over' /\ misread \subseteq misread'
          /\ thread'[t].pc # "idle" => thread'[t].d \in 1..Len(queue.entries)
          /\ thread'[t].pc = "releasing" => TaskOf(thread'[t].d) \in over'
          /\ thread'[t].pc \in {"skip", "acking"} => TaskOf(thread'[t].d) \in over' \cup misread'
          /\ backlog' = backlog \/ (backlog # <<>> /\ backlog' = Tail(backlog))
      BY <2>0 DEF WorkEffect
    <2>2. /\ backlog' \in Seq(Nat)
          /\ \A i \in 1..Len(backlog') : backlog'[i] \in 1..Len(queue.entries)
      <3>1. CASE backlog' = backlog
        BY <1>0, <3>1 DEF PoolTypes, Delivered
      <3>2. CASE backlog # <<>> /\ backlog' = Tail(backlog)
        <4>1. backlog \in Seq(Nat) /\ backlog # <<>>
          BY <1>0, <3>2 DEF PoolTypes
        <4>2. /\ backlog' \in Seq(Nat)
              /\ \A i \in 1..Len(backlog') : i + 1 \in 1..Len(backlog)
                                             /\ backlog'[i] = backlog[i + 1]
          BY <3>2, <4>1
        <4> QED  BY <1>0, <4>2 DEF Delivered
      <3> QED  BY <2>1, <3>1, <3>2
    <2>3. PermitsConserved' /\ permits' \in Int /\ inFlight' \in Int /\ leaked' \in Nat
      BY <2>0, PermitsStep
    <2>4. PoolTypes'
      BY <1>a, <2>1, <2>2, <2>3 DEF PoolTypes
    <2>5. Delivered'
      BY <1>0, <1>b, <2>1, <2>2 DEF Delivered
    <2>6. OverBeforeAck'
      <3> SUFFICES ASSUME NEW u \in Thread, thread'[u].pc \in {"skip", "releasing", "acking"}
                   PROVE  LET task == queue'.entries[thread'[u].d].task
                          IN /\ thread'[u].pc = "releasing" => task \in over'
                             /\ task \in over' \cup misread'
        BY DEF OverBeforeAck, Mine, TaskOf
      <3>1. CASE u = t
        BY <1>b, <2>1, <3>1
      <3>2. CASE u # t
        <4>1. thread'[u] = thread[u] /\ thread[u].d \in 1..Len(queue.entries)
          BY <1>0, <2>1, <3>2 DEF Delivered
        <4>2. /\ thread[u].pc = "releasing" => TaskOf(thread[u].d) \in over
              /\ TaskOf(thread[u].d) \in over \cup misread
          BY <1>0, <4>1 DEF OverBeforeAck, Mine
        <4> QED  BY <1>b, <2>1, <4>1, <4>2
      <3> QED  BY <3>1, <3>2
    <2>7. AckedIsOver'
      BY <1>c, <2>1
    <2> QED  BY <1>d, <2>3, <2>4, <2>5, <2>6, <2>7 DEF WorkerInv
  <1>5. \/ UNCHANGED <<pool, over, misread>>
        \/ LoopPoll
        \/ MemoryLost /\ over' = over /\ misread' = misread
        \/ \E t \in Thread : Work(t)
    BY DEF Next, vars, pool, database, Produce, StatsLag, StatsPending, MainStep, StartLoop,
           Register, Stop, Teardown, Exit, Signal, Kill, Restart, LoopStep, LoopEnsure,
           LoopCheck, LoopDrain, LeaseExpires
  <1> QED  BY <1>1, <1>2, <1>3, <1>4, <1>5

\* ConcurrencyPool: at most Limit deliveries are past acquire_blocking, and the
\* semaphore and _in_flight account for every one of them and every permit
\* that a failing finally clause keeps, through kills and restarts.
THEOREM NoPermitLost == Spec => []PermitsConserved
  <1>1. WorkerInv => PermitsConserved
    BY DEF WorkerInv
  <1> QED  BY WorkerInit, WorkerStep, <1>1, PTL DEF Spec

\* _process_delivery: whatever Redis and the database do, whoever is killed,
\* an acknowledged delivery is malformed, its task is over, or its payload
\* could not be read.
THEOREM AckedOnlyWhenOver == Spec => []AckedIsOver
  <1>1. WorkerInv => AckedIsOver
    BY DEF WorkerInv
  <1> QED  BY WorkerInit, WorkerStep, <1>1, PTL DEF Spec

\* QueueStatsCollector.collect: the lag and the pending list, read one after
\* the other, together cover every message that stayed unacknowledged.
THEOREM StatsCoverUnacked == Spec => []StatsNeverUndercount
  <1>1. WorkerInv => StatsNeverUndercount
    <2> SUFFICES ASSUME WorkerInv, stats.pc = "lag"
                 PROVE  stats.lag + Cardinality(queue.pending)
                          >= Cardinality(stats.base \ queue.acked)
      BY DEF StatsNeverUndercount, StatsDepth, PendingCount
    <2>0. PICK last \in 0..queue.last : stats.base \subseteq 1..(last + stats.lag)
      BY DEF WorkerInv, StatsBase
    <2>1. last \in Nat /\ last <= queue.last /\ stats.base \subseteq 1..(last + stats.lag)
      BY <2>0
    <2> DEFINE unread == (last + 1)..(last + stats.lag)
    <2>2. /\ stats.lag \in Nat /\ queue.last \in Nat
          /\ queue.pending \cup queue.acked = 1..queue.last
      BY DEF WorkerInv, StatsBase, PoolTypes, QueueOK, Queue
    <2>3. stats.base \ queue.acked \subseteq queue.pending \cup unread
      <3> SUFFICES ASSUME NEW d \in stats.base, d \notin queue.acked, d \notin unread
                   PROVE  d \in queue.pending
        OBVIOUS
      <3>1. d \in 1..last
        BY <2>1, <2>2
      <3>2. d \in 1..queue.last
        BY <2>1, <2>2, <3>1
      <3> QED  BY <2>2, <3>2
    <2>4. IsFiniteSet(unread) /\ Cardinality(unread) = stats.lag
      <3>1. last + 1 \in Int /\ last + stats.lag \in Int
        BY <2>1, <2>2
      <3>2. /\ IsFiniteSet(unread)
            /\ Cardinality(unread) = IF last + 1 > last + stats.lag THEN 0
                                     ELSE (last + stats.lag) - (last + 1) + 1
        BY <3>1, FS_Interval
      <3> QED  BY <2>1, <2>2, <3>2
    <2>5. IsFiniteSet(queue.pending)
      <3>1. 1 \in Int /\ queue.last \in Int /\ queue.pending \in SUBSET (1..queue.last)
        BY <2>2
      <3>2. IsFiniteSet(1..queue.last)
        BY <3>1, FS_Interval
      <3> QED  BY <3>1, <3>2, FS_Subset
    <2> HIDE DEF unread
    <2>6. /\ IsFiniteSet(queue.pending \cup unread)
          /\ Cardinality(queue.pending \cup unread) =
               Cardinality(queue.pending) + Cardinality(unread)
                 - Cardinality(queue.pending \cap unread)
      BY <2>4, <2>5, FS_Union
    <2>7. /\ Cardinality(stats.base \ queue.acked) <= Cardinality(queue.pending \cup unread)
          /\ IsFiniteSet(stats.base \ queue.acked)
      BY <2>3, <2>6, FS_Subset
    <2>8. /\ Cardinality(queue.pending) \in Nat /\ Cardinality(queue.pending \cap unread) \in Nat
          /\ Cardinality(stats.base \ queue.acked) \in Nat
          /\ Cardinality(queue.pending \cup unread) \in Nat
      BY <2>4, <2>5, <2>6, <2>7, FS_Intersection, FS_CardinalityType
    <2> QED  BY <2>2, <2>4, <2>6, <2>7, <2>8
  <1> QED  BY WorkerInit, WorkerStep, <1>1, PTL DEF Spec
==============================================================================
