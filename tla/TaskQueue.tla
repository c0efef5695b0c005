------------------------------ MODULE TaskQueue ------------------------------
(***************************************************************************)
(* RedisTaskQueue: one stream with its consumer group, behind a client     *)
(* that may be closed.  The queue is a value,                              *)
(*   entries   the messages of the stream, as field maps, in order         *)
(*   last      the group's last-delivered-id                               *)
(*   pending   the group's pending list, acked what has left it            *)
(*   group     the consumer group exists                                   *)
(*   open      the connection manager has a client                         *)
(*   faults    commands that failed so far                                 *)
(* and an operation is the set of its outcomes: the queue after it, the    *)
(* error code it raises or "ok", and the delivery it returns, or 0.  A     *)
(* command that times out may or may not have reached the server.          *)
(***************************************************************************)
EXTENDS Integers, Sequences, FiniteSets

CONSTANT MaxRedisFaults   \* bound: commands that fail

ASSUME RedisFaultsAssumption == MaxRedisFaults \in Nat

Text == {"task_id", "workflow_id", "payload_reference"}
Parsed == {"task_type", "attempt", "created_at"}
TraceKey == {"traceparent", "tracestate"}
Required == Text \cup Parsed

(***************************************************************************)
(* A value of a field is "ok", "blank" (only white space) or "bad": an     *)
(* unknown task type, an attempt below one or no number, a time stamp      *)
(* without a zone.  Text is never bad.                                     *)
(***************************************************************************)
FieldValue == {"ok", "blank", "bad"}

\* MessageValidator.validate, on a typed message: its task type is one.
InvalidFields(m) ==
  {f \in Text : m[f] = "blank"} \cup {f \in {"attempt", "created_at"} : m[f] = "bad"}

\* MessageSerializer.encode: the required fields, and the trace carrier's two
\* keys when they have a value.
Encode(m) ==
  [f \in Required \cup {k \in TraceKey : m[k] # "blank"} \cup {"task"} |-> m[f]]

\* MessageValidator.validate_decoded, on raw strings.
MissingFields(fields) ==
  {f \in Required : \/ f \notin DOMAIN fields
                    \/ fields[f] = "blank"
                    \/ f \in Parsed /\ fields[f] = "bad"}

\* MessageSerializer.decode: a whole message, or the fields that are missing.
Decode(fields) ==
  [missing |-> MissingFields(fields),
   trace_carrier |-> {k \in TraceKey \cap DOMAIN fields : fields[k] # "blank"}]

------------------------------------------------------------------------------
Connected ==
  [entries |-> <<>>, last |-> 0, pending |-> {}, acked |-> {},
   group |-> FALSE, open |-> TRUE, faults |-> 0]

Outcome(q, res, d) == [q |-> q, res |-> res, d |-> d]

Failed(q) == [q EXCEPT !.faults = @ + 1]

\* A command that would turn q into done: it succeeds, or it raises one of
\* errors with or without its effect.
Command(q, done, res, d, errors) ==
  {Outcome(done, res, d)} \cup
  {Outcome(Failed(r), e, 0) :
     r \in {x \in {q, done} : q.faults < MaxRedisFaults}, e \in errors}

\* RedisTimeoutError, and every other Redis error.
Translated == {"TQ_UNAVAILABLE", "TQ_CONN"}

\* RedisConnectionManager.client.
NotConnected(q) == {Outcome(q, "TQ_CONN", 0)}

Enqueue(q, m) ==
  IF InvalidFields(m) # {} THEN {Outcome(q, "TQ_INVALID_MESSAGE", 0)}
  ELSE IF ~ q.open THEN NotConnected(q)
  ELSE Command(q, [q EXCEPT !.entries = Append(@, Encode(m))], "ok", 0, Translated)

\* ConsumerGroupManager.ensure_group: BUSYGROUP is success; an error of the
\* connection is not translated.
EnsureGroup(q) ==
  Command(q, [q EXCEPT !.group = TRUE], "ok", 0, {"RedisError"})

\* XAUTOCLAIM from 0-0 with no minimum idle time, one entry.
Oldest(S) == CHOOSE d \in S : \A e \in S : d <= e

\* XREADGROUP > and, when it brings nothing, _claim_pending_delivery.
Read(q) ==
  IF q.last < Len(q.entries)
  THEN Command(q, [q EXCEPT !.last = @ + 1, !.pending = @ \cup {q.last + 1}],
               "ok", q.last + 1, Translated)
  ELSE IF q.pending # {} THEN Command(q, q, "ok", Oldest(q.pending), Translated)
  ELSE Command(q, q, "ok", 0, Translated)

\* A malformed entry is acknowledged, if Redis can be reached, and raised.
Reject(o) ==
  IF o.d = 0 \/ Decode(o.q.entries[o.d]).missing = {} THEN {o}
  ELSE {Outcome(p.q, "TQ_INVALID_MESSAGE", 0) :
          p \in Command(o.q, [o.q EXCEPT !.pending = @ \ {o.d}, !.acked = @ \cup {o.d}],
                        "ok", 0, {"RedisError"})}

Dequeue(q) ==
  {Outcome(Failed(r), "RedisError", 0) : r \in {x \in {q} : q.faults < MaxRedisFaults}}
  \cup IF ~ q.group THEN {Outcome(q, "TQ_CONSUMER_GROUP", 0)}
       ELSE IF ~ q.open THEN NotConnected(q)
       ELSE UNION {Reject(o) : o \in Read(q)}

Ack(q, d) ==
  IF ~ q.open THEN NotConnected(q)
  ELSE IF d \in q.pending
  THEN Command(q, [q EXCEPT !.pending = @ \ {d}, !.acked = @ \cup {d}], "ok", 0, Translated)
  ELSE Command(q, q, "TQ_ACK", 0, Translated)

Close(q) == [q EXCEPT !.open = FALSE]

\* What XINFO GROUPS calls the lag, and the summary of XPENDING.
Lag(q) == Len(q.entries) - q.last
PendingCount(q) == Cardinality(q.pending)

Unacked(q) == DOMAIN q.entries \ q.acked
==============================================================================
