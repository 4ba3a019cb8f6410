------------------------------- MODULE Backoffice -------------------------------
(***************************************************************************)
(* The back office: the register of the staff and the import of customers,   *)
(* which share the accounts. The request of an import is authenticated and   *)
(* judged like the others; then it runs row by row, while other requests     *)
(* change the team that it was authenticated with.                           *)
(***************************************************************************)
EXTENDS StaffRegister

CONSTANTS Imports, Customers, Known, Chances

VARIABLES customer, debt, imp, rest

I == INSTANCE CustomerImport

ASSUME ImportAssumption == I!ImportConstants

importVars == <<customer, debt, imp, rest>>

\* The upload has passed its guards and its file is taken in: it is an import, by the
\* team and the permissions that were authenticated before.
Upload(r) ==
  LET q == req[r]
  IN /\ At(r, "upload") /\ Ends(r) /\ Quiet
     /\ \E i \in Imports : I!Start(i, q.actor, q.role, q.team, q.keys, q.plan.rows)

BackofficeInit == Init /\ I!Init

BackofficeNext ==
  \/ Serve /\ UNCHANGED importVars
  \/ Restart /\ I!Killed
  \/ \E r \in Requests : Upload(r)
  \/ I!Next /\ UNCHANGED vars

BackofficeSpec == BackofficeInit /\ [][BackofficeNext]_<<vars, importVars>>

\* A summary tells what its import has stored, see CustomerImport.
ReportIsTrue == I!ReportIsTrue

\* Whatever a request or an import changes, its user had the right to, see
\* StaffRegister and CustomerImport: neither what a guard has read nor the team
\* that a long import was started with outlives the right that it stands for.
RightsAreHeld == ChangesAreDue /\ I!ImportStaysInScope
=============================================================================
