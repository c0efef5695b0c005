-------------------------- MODULE MCOutboxPublisher --------------------------
(* OutboxPublisher on small instances: two workflows, whose rows alternate. *)
EXTENDS OutboxPublisher

Alternating == [i \in 1..MaxRows |-> i % 2]
==============================================================================
