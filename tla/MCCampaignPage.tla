----------------------------- MODULE MCCampaignPage -----------------------------
EXTENDS CampaignPage, TLC

Found == "f1" :> {"c1", "c2"} @@ "f2" :> {"c2"}
Usage == [choice |-> 4, press |-> 1, offline |-> 1, fault |-> 1]
=============================================================================
