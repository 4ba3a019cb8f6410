-------------------------- MODULE MCCustomerRecords --------------------------
(***************************************************************************)
(* An instance of CustomerRecords for TLC: one customer of an older version, *)
(* room for a second, two numbers, and a plan for each thing a request does. *)
(***************************************************************************)
EXTENDS CustomerRecords, TLC

Keep == [phone |-> Same, seconds |-> {Same}, status |-> Same, assignee |-> Same]

Bodies ==
  {[Keep EXCEPT !.phone = "n2"],
   [Keep EXCEPT !.seconds = {"n2"}],
   [Keep EXCEPT !.status = "PAID"],
   [Keep EXCEPT !.assignee = Unassigned],
   [Keep EXCEPT !.phone = "n2", !.status = "DO_NOT_CONTACT", !.assignee = "e1"]}

Moves == {[Keep EXCEPT !.phone = "n2"]}

Alike == Permutations(Requests)

Usage == [request |-> 3, fault |-> 1]
Calm == [request |-> 3, fault |-> 0]
=============================================================================
