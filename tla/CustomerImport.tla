----------------------------- MODULE CustomerImport -----------------------------
(***************************************************************************)
(* The import of a file of customers, one row after the other inside one     *)
(* request. Each row names a person, a debt and perhaps a collector; it is   *)
(* matched with the customers that exist, and adds a debt or a customer. The *)
(* user was authenticated once: his role, his team and his permissions are   *)
(* those of that moment. Meanwhile the staff changes, customers are moved    *)
(* and deleted, statements fail, and another import runs.                    *)
(***************************************************************************)
EXTENDS Naturals, Sequences, FiniteSets

CONSTANTS
  Imports,     \* imports that may run at once
  Customers,   \* ids of customers
  Known,       \* the customers that are there at the start
  Chances      \* how often a customer may be moved or deleted, or a statement fail

VARIABLES
  user,      \* User: role, active and boss of every account
  customer,  \* Customer: the customers that exist; "been" is history, all their collectors
  debt,      \* CustomerDebt, by its unique columns
  imp,       \* the imports
  rest       \* what remains of Chances

vars == <<customer, debt, imp, rest>>

None == "none"
Spend == rest > 0 /\ rest' = rest - 1

\* What the constants have to be.
ImportConstants ==
  /\ DOMAIN Known \subseteq Customers /\ Chances \in Nat
  /\ \A c \in DOMAIN Known : /\ {"collector", "been"} \subseteq DOMAIN Known[c]
                             /\ Known[c].collector \in Known[c].been

(* "sum" is the summary that the user will see and "team" the team that was   *)
(* authenticated. History: "stored" is what the rows put into the database,  *)
(* "unsaid" the rows that were stored and then reported as failed, "touched" *)
(* the customers that were changed, and "teams" whoever has been in the team. *)
Tally == [created |-> 0, updated |-> 0, skipped |-> 0, debts |-> 0, duplicates |-> 0]
Resting == [at |-> "idle", actor |-> None, role |-> "EMPLOYEE", team |-> {}, assigns |-> FALSE,
            rows |-> << >>, row |-> 1, collector |-> None, on |-> None, sum |-> Tally,
            stored |-> [customers |-> 0, debts |-> 0], unsaid |-> 0, touched |-> {}, teams |-> {}]

At(i, place) == imp[i].at = place
Row(q) == q.rows[q.row]
Active(u) == u \in DOMAIN user /\ user[u].active

\* scopedAssigneeIds: the user and the active employees that he leads.
TeamOf(u) ==
  {u} \union {e \in DOMAIN user : user[e].role = "EMPLOYEE" /\ user[e].boss = u /\ user[e].active}

Goes(i, q) == imp' = [imp EXCEPT ![i] = [q EXCEPT !.teams = @ \union TeamOf(q.actor)]]
Reads == UNCHANGED <<customer, debt, rest>>

\* The request arrives with the user, the team and the permissions that authenticate
\* has read: the team is seen by a supervisor who may view it.
Start(i, u, role, team, keys, rows) ==
  LET seen == {u} \union (IF role = "SUPERVISOR" /\ "customers.view_team" \in keys
                          THEN team ELSE {})
  IN /\ At(i, "idle") /\ Reads
     /\ Goes(i, [Resting EXCEPT !.at = "row", !.actor = u, !.role = role, !.rows = rows,
                   !.team = seen, !.teams = seen, !.assigns = "customers.assign" \in keys])

\* i is at its next row, or has its summary ready.
NextRow(i, q) ==
  Goes(i, [q EXCEPT !.at = IF q.row = Len(q.rows) THEN "done" ELSE "row", !.on = None,
             !.row = @ + 1, !.collector = None])

\* The catch of the loop.
RowFails(i, q) == NextRow(i, [q EXCEPT !.sum.skipped = @ + 1])

-----------------------------------------------------------------------------
(* Whom a row may be given to, and which customers it may touch. *)

AssignableAnywhere(q, u) == Active(u)  \* faulty variant: any active member of the staff

\* assertAssignableStaff: the account as it is now, in the team as it is now.
Assignable(q, u) ==
  /\ Active(u) /\ user[u].role \in {"SUPERVISOR", "EMPLOYEE"}
  /\ \/ q.role = "ADMIN"
     \/ q.role = "SUPERVISOR" /\ (u = q.actor \/ (user[u].role = "EMPLOYEE" /\ user[u].boss = q.actor))

\* customerAccessWhere: the team as it was authenticated.
Accessible(q, c) ==
  c \in DOMAIN customer /\ (q.role = "ADMIN" \/ customer[c].collector \in q.team)

-----------------------------------------------------------------------------
(* One row. *)

\* validateRow: a row that is not fit is reported and left out.
Refuse(i) ==
  At(i, "row") /\ ~Row(imp[i]).fit /\ RowFails(i, imp[i]) /\ Reads

\* findAssignedEmployee. An active employee who may not be assigned ends the
\* whole import, whatever rows it has stored: the call stands before the try.
FindCollector(i) ==
  LET q == imp[i]
      named == Row(q).collector
      found == Active(named) /\ user[named].role = "EMPLOYEE"
  IN /\ At(i, "row") /\ Row(q).fit /\ Reads
     /\ Goes(i, [q EXCEPT !.at = IF found THEN "staff" ELSE "find"])

CheckCollector(i) ==
  LET q == imp[i]
  IN /\ At(i, "staff") /\ Reads
     /\ Goes(i, IF Assignable(q, Row(q).collector)
                THEN [q EXCEPT !.at = "find", !.collector = Row(q).collector]
                ELSE [q EXCEPT !.at = "aborted"])

\* findExistingCustomer: the first of those in scope that share the national id
\* or a phone.
FindCustomer(i) ==
  LET q == imp[i]
      same == {c \in DOMAIN customer : /\ Accessible(q, c)
                                       /\ \/ customer[c].nationalId = Row(q).nationalId
                                          \/ customer[c].phone = Row(q).phone}
  IN /\ At(i, "find") /\ Reads
     /\ IF same = {} THEN Goes(i, [q EXCEPT !.at = "assign"])
        ELSE \E c \in same : Goes(i, [q EXCEPT !.at = "access", !.on = c])

\* createDebt: accessibleCustomer.
CheckAccess(i) ==
  LET q == imp[i]
  IN /\ At(i, "access") /\ Reads
     /\ IF Accessible(q, q.on) THEN Goes(i, [q EXCEPT !.at = "debt"]) ELSE RowFails(i, q)

AddDebtUnseen(i) ==  \* faulty variant: a duplicate is counted as a debt
  LET q == imp[i]
      row == [owner |-> q.on, account |-> Row(q).account, year |-> Row(q).year]
  IN /\ At(i, "debt") /\ UNCHANGED <<customer, rest>>
     /\ IF q.on \notin DOMAIN customer THEN RowFails(i, q) /\ UNCHANGED debt
        ELSE /\ debt' = debt \union {row}
             /\ Goes(i, [q EXCEPT !.at = "saved", !.touched = @ \union {q.on}, !.sum.debts = @ + 1,
                           !.stored.debts = IF row \in debt THEN @ ELSE @ + 1])

\* createDebt: the transaction. The unique columns refuse a debt that is there.
AddDebt(i) ==
  LET q == imp[i]
      row == [owner |-> q.on, account |-> Row(q).account, year |-> Row(q).year]
  IN /\ At(i, "debt") /\ UNCHANGED <<customer, rest>>
     /\ IF q.on \notin DOMAIN customer THEN RowFails(i, q) /\ UNCHANGED debt
        ELSE IF row \in debt
        THEN Goes(i, [q EXCEPT !.at = "saved", !.sum.duplicates = @ + 1]) /\ UNCHANGED debt
        ELSE /\ debt' = debt \union {row}
             /\ Goes(i, [q EXCEPT !.at = "saved", !.touched = @ \union {q.on},
                           !.sum.debts = @ + 1, !.stored.debts = @ + 1])

\* The customer is read back, and the row counts as an update.
ReadBack(i) ==
  At(i, "saved") /\ NextRow(i, [imp[i] EXCEPT !.sum.updated = @ + 1]) /\ Reads

\* createCustomer: resolveAssignment. Whoever is not an administrator needs the
\* permission to assign, and a supervisor must name a collector.
Resolve(i) ==
  LET q == imp[i]
      named == q.collector # None
      allowed == /\ named => /\ Assignable(q, q.collector) /\ user[q.collector].role = "EMPLOYEE"
                             /\ q.role = "ADMIN" \/ q.assigns
                 /\ ~named => q.role # "SUPERVISOR"
      collector == IF ~named /\ q.role = "EMPLOYEE" THEN q.actor ELSE q.collector
  IN /\ At(i, "assign") /\ Reads
     /\ IF allowed THEN Goes(i, [q EXCEPT !.at = "create", !.collector = collector])
        ELSE RowFails(i, q)

\* createCustomer: the transaction, with the first debt. The unique columns
\* refuse a customer that is there, whoever may see him; the id is new, also to
\* those who still hold that of a customer who was deleted.
Create(i) ==
  LET q == imp[i]
      clash == \E c \in DOMAIN customer : \/ customer[c].nationalId = Row(q).nationalId
                                          \/ customer[c].phone = Row(q).phone
                                          \/ customer[c].account = Row(q).account
  IN /\ At(i, "create") /\ UNCHANGED rest
     /\ IF clash THEN RowFails(i, q) /\ UNCHANGED <<customer, debt>>
        ELSE \E c \in Customers \ (DOMAIN customer \union {imp[j].on : j \in Imports}) :
          /\ customer' = [x \in DOMAIN customer \union {c} |->
               IF x # c THEN customer[x]
               ELSE [nationalId |-> Row(q).nationalId, phone |-> Row(q).phone,
                     account |-> Row(q).account, collector |-> q.collector, been |-> {q.collector}]]
          /\ debt' = debt \union {[owner |-> c, account |-> Row(q).account, year |-> Row(q).year]}
          /\ Goes(i, [q EXCEPT !.at = "confirm", !.on = c, !.touched = @ \union {c},
                        !.stored.customers = @ + 1, !.stored.debts = @ + 1])

\* The conversation is opened and the customer read again: if he is gone by
\* then, the row has failed.
Confirm(i) ==
  LET q == imp[i]
  IN /\ At(i, "confirm") /\ Reads
     /\ IF q.on \in DOMAIN customer
        THEN NextRow(i, [q EXCEPT !.sum.created = @ + 1, !.sum.debts = @ + 1])
        ELSE RowFails(i, [q EXCEPT !.unsaid = @ + 1])

\* A statement fails: before the try the import ends, in it the row does.
StatementFails(i) ==
  LET q == imp[i]
  IN /\ imp[i].at \notin {"idle", "done", "aborted"} /\ Spend /\ UNCHANGED <<customer, debt>>
     /\ IF q.at = "staff" \/ (q.at = "row" /\ Row(q).fit) THEN Goes(i, [q EXCEPT !.at = "aborted"])
        ELSE /\ q.at # "row"
             /\ RowFails(i, IF q.at = "confirm" THEN [q EXCEPT !.unsaid = @ + 1] ELSE q)

-----------------------------------------------------------------------------
(* Meanwhile: customers change hands and are deleted, with their debts. *)

Move(c, u) ==
  /\ c \in DOMAIN customer /\ u \notin customer[c].been
  /\ Active(u) /\ user[u].role = "EMPLOYEE" /\ Spend
  /\ customer' = [customer EXCEPT ![c].collector = u, ![c].been = @ \union {u}]
  /\ UNCHANGED <<debt, imp>>

Delete(c) ==
  /\ c \in DOMAIN customer /\ Spend
  /\ customer' = [x \in DOMAIN customer \ {c} |-> customer[x]]
  /\ debt' = {d \in debt : d.owner # c}
  /\ imp' = [i \in Imports |-> [imp[i] EXCEPT !.touched = @ \ {c}]]

\* The process ends, and the imports with it.
Killed == imp' = [i \in Imports |-> Resting] /\ UNCHANGED <<customer, debt, rest>>

Init ==
  /\ customer = Known /\ debt = {} /\ imp = [i \in Imports |-> Resting] /\ rest = Chances

Next ==
  \/ \E i \in Imports :
       \/ Refuse(i) \/ FindCollector(i) \/ CheckCollector(i) \/ FindCustomer(i)
       \/ CheckAccess(i) \/ AddDebt(i) \/ ReadBack(i)
       \/ Resolve(i) \/ Create(i) \/ Confirm(i)
       \/ StatementFails(i)
  \/ \E c \in Customers : Delete(c) \/ \E u \in DOMAIN user : Move(c, u)

-----------------------------------------------------------------------------
\* The summary tells what the rows have done: every row is counted once, and
\* the customers and debts it counts are those that were stored, but for rows
\* that failed after they had been stored.
ReportIsTrue ==
  \A i \in Imports : imp[i].at \in {"row", "done", "aborted"} =>
    LET q == imp[i]
    IN /\ q.sum.created + q.sum.updated + q.sum.skipped = q.row - 1
       /\ q.sum.created + q.unsaid = q.stored.customers
       /\ q.sum.debts + q.unsaid = q.stored.debts

\* An import changes no customer but those of its user's team: some collector
\* of the customer has been in the team since the request was authenticated,
\* however the staff and the customers were moved meanwhile.
ImportStaysInScope ==
  \A i \in Imports : imp[i].role # "ADMIN" =>
    \A c \in imp[i].touched : customer[c].been \intersect imp[i].teams # {}
=============================================================================
