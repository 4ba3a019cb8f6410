-------------------------- MODULE MCCampaignPrepare --------------------------
(***************************************************************************)
(* Instances of CampaignPrepare for TLC: customer "a" has the first two     *)
(* debts and fills the first chunk, "b" has the third and fills the second. *)
(***************************************************************************)
EXTENDS CampaignPrepare, TLC

OwnerOf == [d \in Debts |-> IF d = 3 THEN "b" ELSE "a"]
ByCustomer == [c \in Customers |-> IF c = "b" THEN 2 ELSE 1]

Allow(events) == [e \in Events |-> IF e \in DOMAIN events THEN events[e] ELSE 0]

Disturbed == Allow([request |-> 2, command |-> 1, change |-> 1, fault |-> 1,
                    crash |-> 1])
OneCommand == Allow([request |-> 1, command |-> 1])
OneChange == Allow([request |-> 1, change |-> 1])
=============================================================================
