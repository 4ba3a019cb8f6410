--------------------------- MODULE MCCampaignSend ---------------------------
(***************************************************************************)
(* Instances of CampaignSend for TLC: one campaign with two recipients, or  *)
(* two campaigns of one phone with a recipient each, and the budgets of the *)
(* runs.                                                                   *)
(***************************************************************************)
EXTENDS CampaignSend, TLC

\* One campaign whose recipients are distinct customers.
OneCampaign == [r \in Recipients |-> 1]

\* Recipient r belongs to campaign r.
OwnCampaign == [r \in Recipients |-> r]

OnePhone == [c \in Campaigns |-> "phone"]
DistinctCustomers == [r \in Recipients |-> r]

Allow(events) == [e \in Events |-> IF e \in DOMAIN events THEN events[e] ELSE 0]

OneExpiry == Allow([expiry |-> 1])
OneFault == Allow([fault |-> 1])
OneOptOut == Allow([optOut |-> 1])
OneCommand == Allow([command |-> 1])
TwoCommands == Allow([command |-> 2])
CommandOptOutReceipt == Allow([command |-> 1, optOut |-> 1, receipt |-> 1])
FaultStallCrash == Allow([fault |-> 1, stall |-> 1, crash |-> 1, lostAnswer |-> 1])
=============================================================================
