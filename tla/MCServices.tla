------------------------------ MODULE MCServices ------------------------------
(***************************************************************************)
(* An instance of Services for TLC: one user with two sessions and a browser *)
(* that watches him; two templates, two mappings being saved and a send.     *)
(***************************************************************************)
EXTENDS Services, TLC

OneUser == [s \in Sockets |-> "u1"]

Approved(keys) == [status |-> "APPROVED", keys |-> keys]
Looks == {Approved({"v1"}), Approved({"v1", "v2"}), [status |-> "REJECTED", keys |-> {"v1"}]}
AtFirst == "details" :> Approved({"v1", "v2"}) @@ "notice" :> Approved({"v1"})
ByName == <<"details", "notice">>
Profiles == "details" :> ("v1" :> "fullName" @@ "v2" :> "debtAmount")
Bodies == {"v1" :> "phone", "v2" :> "phone"}
Filled == {{"v1"}, {"v1", "v2"}}

Usage ==
  [connect |-> 3, leave |-> 2, fault |-> 1, watch |-> 3,
   request |-> 2, change |-> 1, timer |-> 1]
=============================================================================
