----------------------------- MODULE MCBackoffice ------------------------------
EXTENDS Backoffice, TLC

CONSTANTS new1, new2, r1, r2

Person(role, boss, code, name) ==
  [role |-> role, active |-> TRUE, boss |-> boss, code |-> code, name |-> name]

Staffing ==
  "admin" :> Person("ADMIN", None, None, "nobody") @@ "sara" :> Person("SUPERVISOR", None, None, "Sara")
    @@ "omar" :> Person("SUPERVISOR", None, None, "Omar") @@ "ali" :> Person("EMPLOYEE", "sara", "c1", "nobody")

Spelling == [n \in Names |-> IF n = "O mar" THEN "Omar" ELSE n]

Change(u) == [op |-> "update", on |-> u, role |-> Same, boss |-> Same, active |-> Same, code |-> Same]

Line(nationalId, phone, account, collector) ==
  [nationalId |-> nationalId, phone |-> phone, account |-> account, year |-> 2024,
   collector |-> collector, fit |-> TRUE]

Bodies ==
  {[op |-> "create", role |-> "EMPLOYEE", boss |-> "omar", code |-> "c2", name |-> "nobody", active |-> Same],
   [op |-> "create", role |-> "SUPERVISOR", boss |-> None, code |-> None, name |-> "Omar", active |-> "off"],
   [Change("ali") EXCEPT !.boss = "omar"],
   [Change("ali") EXCEPT !.role = "SUPERVISOR"],
   [Change("omar") EXCEPT !.role = "EMPLOYEE", !.boss = "sara", !.code = "c2"],
   [Change("omar") EXCEPT !.op = "deactivate", !.active = "off"],
   [op |-> "import", rows |-> <<[name |-> "Omar", code |-> "c1", active |-> TRUE, worker |-> "nobody"],
                                [name |-> "O mar", code |-> "c2", active |-> FALSE, worker |-> "nobody"]>>],
   [op |-> "users", role |-> "EMPLOYEE", codes |-> {"c1", "c2"}, name |-> "nobody"],
   [op |-> "users", role |-> "SUPERVISOR", codes |-> {"c2"}, name |-> "Omar"],
   [op |-> "customers", rows |-> <<Line("n1", "p1", "a1", "ali"), Line("n3", "p3", "a3", "ali")>>],
   [op |-> "customers", rows |-> <<Line("n2", "p1", "a2", "nobody"), [Line("n2", "p2", "a2", None) EXCEPT !.fit = FALSE]>>],
   [op |-> "choose", role |-> "SUPERVISOR", keys |-> {"employees.create", "employees.view_team"}, on |-> FALSE]}

Usual == {"SUPERVISOR"} \X {"employees.create", "employees.view_team", "customers.view_team", "customers.assign"}

Customized == {<<"SUPERVISOR", "customers.import_csv">> :> TRUE @@ <<"EMPLOYEE", "customers.import_csv">> :> TRUE
                 @@ <<"SUPERVISOR", "employees.edit">> :> TRUE @@ <<"SUPERVISOR", "employees.create">> :> FALSE}

Client(n, collector) ==
  [nationalId |-> "n" \o n, phone |-> "p" \o n, account |-> "a" \o n, collector |-> collector, been |-> {collector}]

Clients == "k1" :> Client("1", "ali") @@ "k2" :> Client("2", None)

Usage == [request |-> 2, fault |-> 1]

\* At most one disturbance in all, of a request or of an import.
OneDisturbance == left["fault"] + rest >= 1

Alike == Permutations({r1, r2}) \union Permutations({new1, new2})
=============================================================================
