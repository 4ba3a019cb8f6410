----------------------------- MODULE MCOutbound -----------------------------
(***************************************************************************)
(* An instance of Outbound for TLC: one message of each kind, and enough    *)
(* failures for a job that stalls, is retried and is given up.             *)
(***************************************************************************)
EXTENDS Outbound

AnyKind == [Requests -> Kinds]
ThreeFailures == [failure |-> 3, block |-> 2, receipt |-> 1]
=============================================================================
