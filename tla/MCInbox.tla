------------------------------- MODULE MCInbox -------------------------------
(***************************************************************************)
(* Instances of Inbox for TLC: one inbound message that the provider        *)
(* delivers twice, and the budgets of the runs.                            *)
(***************************************************************************)
EXTENDS Inbox

SameMessage == [d \in Deliveries |-> "hello"]

Allow(events) == [e \in Events |-> IF e \in DOMAIN events THEN events[e] ELSE 0]
Disturbed == Allow([request |-> 1, failure |-> 1])
=============================================================================
