----------------------------- MODULE StaffRegister -----------------------------
(***************************************************************************)
(* The accounts of the staff: who leads whom, who is active, and what each   *)
(* role is allowed. Requests authenticate against the database, then read,   *)
(* check and write in separate statements, beside each other: creation,      *)
(* update, deactivation, the import of employees with their supervisors,     *)
(* the import of accounts in one transaction, and the choice of permissions, *)
(* whose table is filled by the first request of a process that needs it.    *)
(***************************************************************************)
EXTENDS Naturals, Sequences, FiniteSets

CONSTANTS
  Users,     \* ids of accounts
  First,     \* the accounts that are there at the start
  Names,     \* names of people as they are written, letter case aside
  KeyOf,     \* the form under which an import remembers a name, blanks aside
  Codes,     \* employee codes
  Requests,  \* requests that may be handled at once
  Plans,     \* the bodies of the requests
  Defaults,  \* rows of DEFAULT_ROLE_PERMISSIONS
  Settings,  \* what the administrator may have chosen before the start
  Budget     \* how often each event may happen

None == "none"
Same == "same"

Roles == {"ADMIN", "SUPERVISOR", "EMPLOYEE"}
StaffRoles == {"SUPERVISOR", "EMPLOYEE"}

Account == [role : Roles, active : BOOLEAN, boss : Users \union {None},
            code : Codes \union {None}, name : Names]

\* The permissions that the routes modelled here ask for, in seeding order.
KeyOrder == <<"employees.view_team", "employees.create", "employees.edit",
              "employees.activate_deactivate", "customers.view_team", "customers.assign",
              "customers.import_csv">>
Keys == {KeyOrder[i] : i \in DOMAIN KeyOrder}
RolePermission == StaffRoles \X Keys

\* requirePermission and requireAnyPermission of the routes.
Permitted(plan, keys) ==
  CASE plan.op = "create" -> keys \intersect {"employees.create", "employees.view_team"} # {}
    [] plan.op = "update" -> /\ "employees.edit" \in keys
                             /\ plan.active # Same => "employees.activate_deactivate" \in keys
    [] plan.op \in {"deactivate", "activate"} -> "employees.activate_deactivate" \in keys
    [] plan.op = "customers" -> "customers.import_csv" \in keys
    [] OTHER -> TRUE

\* requireRole of the routes, and the roles that the services let through.
Admitted(plan) ==
  CASE plan.op = "choose" -> {"ADMIN"}
    [] plan.op = "users" -> IF plan.role = "SUPERVISOR" THEN {"ADMIN"} ELSE {"ADMIN", "SUPERVISOR"}
    [] plan.op \in {"create", "import"} -> {"ADMIN", "SUPERVISOR"}
    [] OTHER -> Roles

Events == {"request", "fault"}

\* The bodies that the validators let through; a field that an update leaves out
\* is Same.
Changes == {"update", "deactivate", "activate"}
PlanFits(p) ==
  /\ p.op \in Changes \union {"create", "import", "users", "customers", "choose"}
  /\ p.op = "create" => /\ p.role \in StaffRoles /\ p.name \in Names
                        /\ p.boss \in Users \union {None} /\ p.code \in Codes \union {None}
                        /\ p.active \in {Same, "on", "off"}
  /\ p.op \in Changes => /\ p.role \in StaffRoles \union {Same} /\ p.boss \in Users \union {None, Same}
                         /\ p.code \in Codes \union {None, Same}
  /\ p.op = "import" => /\ p.rows # << >>
                        /\ p.rows \in Seq([name : Names, code : Codes, active : BOOLEAN, worker : Names])
  /\ p.op = "users" => p.role \in StaffRoles /\ p.codes \subseteq Codes /\ p.name \in Names
  /\ p.op = "choose" => p.role \in StaffRoles /\ p.keys \subseteq Keys

ASSUME ConstantsAssumption ==
  /\ DOMAIN First \subseteq Users /\ First \in [DOMAIN First -> Account]
  /\ \A u \in DOMAIN First : First[u].boss # None =>
       First[u].role = "EMPLOYEE" /\ First[u].boss \in DOMAIN First /\ First[First[u].boss].role = "SUPERVISOR"
  /\ \A u, v \in DOMAIN First : First[u].code = First[v].code => First[u].code = None \/ u = v
  /\ Defaults \subseteq RolePermission /\ Plans # {} /\ \A p \in Plans : PlanFits(p)
  /\ \A s \in Settings : DOMAIN s \subseteq RolePermission /\ s \in [DOMAIN s -> BOOLEAN]
  /\ {None, Same} \intersect (Users \union Codes \union Names) = {}
  /\ Budget \in [Events -> Nat]

VARIABLES
  user,     \* User: the accounts that exist
  seeded,   \* rows of RolePermission
  enabled,  \* those of them that are switched on
  seeding,  \* seedPromise of the API process has been fulfilled
  req,      \* the requests under way
  raced,    \* history: accounts written by a request that had been overtaken
  unduly,   \* history: what requests changed beyond the rights of their users
  left      \* what remains of Budget

permissions == <<seeded, enabled, seeding>>
vars == <<user, permissions, req, raced, unduly, left>>

Existing == DOMAIN user
Team(u) == {e \in Existing : user[e].role = "EMPLOYEE" /\ user[e].boss = u}
Reports(u) == {e \in Existing : user[e].boss = u}
Leads(u) == u \in Existing /\ user[u].role = "SUPERVISOR"
LeadsNow(u) == Leads(u) /\ user[u].active
Owners(c) == {u \in Existing : user[u].code = c}
Spend(e) == left[e] > 0 /\ left' = [left EXCEPT ![e] = @ - 1]

-----------------------------------------------------------------------------
(* Requests. "role" is the one that was authenticated; "on", "was", "boss",   *)
(* "code" and "seen" are what was read of the account to be changed, "chief"  *)
(* the supervisor that was found and "led" whether he then was one; "row" and *)
(* "cache" say how far an import is; "team" and "keys" are the team and the    *)
(* permissions that were authenticated, which only an import of customers     *)
(* uses; "may", "held" and "been" collect the rights of its user while it was  *)
(* under way.                                                                *)

Idle == [at |-> "idle", plan |-> CHOOSE p \in Plans : TRUE, actor |-> None,
         role |-> None, on |-> None, was |-> "EMPLOYEE", boss |-> None, code |-> None,
         seen |-> {}, chief |-> None, led |-> FALSE, row |-> 1, cache |-> << >>,
         team |-> {}, keys |-> {}, may |-> {}, held |-> {}, been |-> {}]

At(r, place) == req[r].at = place

Granted(role) == IF role = "ADMIN" THEN Keys ELSE {k \in Keys : <<role, k>> \in enabled}

\* What the user of q may change in the role that he was authenticated with:
\* accounts by id, "team" for a new account of his own team, "any" for every
\* other new account.
Reach(q) ==
  CASE q.role = "ADMIN" -> Users \union {"team", "any"}
    [] q.role = "SUPERVISOR" -> Team(q.actor) \union {"team"}
    [] OTHER -> {}

\* q, with the rights of its user as they are now: what the role reaches, what it
\* is granted, and which role he has while he is active.
Noting(q) ==
  [q EXCEPT !.may = @ \union Reach(q), !.held = @ \union Granted(q.role),
            !.been = @ \union {role \in {user[q.actor].role} : user[q.actor].active}]

Goes(r, q) == req' = [req EXCEPT ![r] = Noting(q)]
Ends(r) == req' = [req EXCEPT ![r] = Idle]
Quiet == UNCHANGED <<user, permissions, raced, unduly, left>>

\* r reads or checks something: it goes on as q, or it is refused.
Check(r, holds, q) == (IF holds THEN Goes(r, q) ELSE Ends(r)) /\ Quiet

\* What r changes, against the rights that its user has had.
Charge(r, changed) ==
  LET q == Noting(req[r])
      entitled == q.role \in q.been /\ Permitted(q.plan, q.held)
  IN unduly' = unduly \union (IF entitled THEN changed \ q.may ELSE changed)

Arrive(r, u, p) ==
  /\ At(r, "idle") /\ u \in Existing /\ Spend("request")
  /\ Goes(r, [Idle EXCEPT !.at = "auth", !.actor = u, !.plan = p])
  /\ UNCHANGED <<user, permissions, raced, unduly>>

\* authenticate: the account behind the token is read at every request.
Authenticate(r) ==
  LET q == req[r]
      u == user[q.actor]
      team == IF q.plan.op = "customers" THEN {e \in Team(q.actor) : user[e].active} ELSE {}
  IN /\ At(r, "auth")
     /\ Check(r, u.active, [q EXCEPT !.at = "judge", !.role = u.role, !.team = team])

\* getPermissionKeysForUser, which waits for the seeding, then the guards of
\* the route. Each kind of request has its own first step.
Judge(r) ==
  LET q == req[r]
      entry == CASE q.plan.op = "create" -> "code"
                 [] q.plan.op = "deactivate" -> "peek"
                 [] q.plan.op \in {"update", "activate"} -> "read"
                 [] q.plan.op = "import" -> "row"
                 [] q.plan.op = "users" -> "known"
                 [] q.plan.op = "customers" -> "upload"
                 [] OTHER -> "choose"
  IN /\ At(r, "judge") /\ (q.role = "ADMIN" \/ seeding)
     /\ Check(r, q.role \in Admitted(q.plan) /\ Permitted(q.plan, Granted(q.role)),
              [q EXCEPT !.at = entry,
                        !.keys = IF q.plan.op = "customers" THEN Granted(q.role) ELSE {}])

-----------------------------------------------------------------------------
(* permission.service. *)

AwaitsSeeding == \E r \in Requests : At(r, "choose") \/ (At(r, "judge") /\ req[r].role # "ADMIN")

\* ensurePermissionsSeeded, one upsert per row: a row that exists is left alone.
Seed ==
  /\ ~seeding /\ AwaitsSeeding
  /\ seeding' = TRUE
  /\ seeded' = RolePermission /\ enabled' = enabled \union (Defaults \ seeded)
  /\ UNCHANGED <<user, req, raced, unduly, left>>

\* An upsert fails: the rows before it stay, whoever waits gets the error, and
\* the next request starts again.
SeedFails ==
  \E role \in StaffRoles, i \in DOMAIN KeyOrder :
    LET before == {<<s, KeyOrder[j]>> : s \in {"SUPERVISOR"} \ {role}, j \in DOMAIN KeyOrder}
                    \union {<<role, KeyOrder[j]>> : j \in 1..(i - 1)}
    IN /\ ~seeding /\ AwaitsSeeding /\ Spend("fault")
       /\ seeded' = seeded \union before
       /\ enabled' = enabled \union (Defaults \intersect (before \ seeded))
       /\ req' = [r \in Requests |->
                    IF At(r, "choose") \/ (At(r, "judge") /\ req[r].role # "ADMIN")
                    THEN Idle ELSE req[r]]
       /\ UNCHANGED <<user, seeding, raced, unduly>>

\* updateRolePermissions: one transaction of upserts.
Choose(r) ==
  LET p == req[r].plan
      rows == {<<p.role, k>> : k \in p.keys}
  IN /\ At(r, "choose") /\ seeding
     /\ enabled' = IF p.on THEN enabled \union rows ELSE enabled \ rows
     /\ seeded' = seeded \union rows
     /\ Ends(r)
     /\ UNCHANGED <<user, seeding, raced, unduly, left>>

-----------------------------------------------------------------------------
(* employee.service: one account. *)

\* What a stale write leaves behind: accounts that are under u although r makes
\* it an employee, if they came there after r looked or the role of u is no
\* longer what r had found, and u itself when that role or its supervisor is not.
Overtaken(r, u, account) ==
  LET stray == req[r].led /\ ~Leads(account.boss)
      recast == u \in Existing /\ user[u].role # req[r].was
  IN {x \in Reports(u) : account.role = "EMPLOYEE" /\ (x \notin req[r].seen \/ recast)}
       \union {x \in {u} : stray \/ recast}

\* r writes the account of u.
Store(r, u, account) ==
  /\ user' = [x \in Existing \union {u} |-> IF x = u THEN account ELSE user[x]]
  /\ raced' = (raced \ {u}) \union Overtaken(r, u, account)
  /\ UNCHANGED <<permissions, left>>

\* The unique columns refuse a code that another account has.
CodeFree(u, c) == c = None \/ Owners(c) \subseteq {u}

\* createEmployee up to assertUniqueEmployeeCode.
CheckNewCode(r) ==
  LET q == req[r]
  IN /\ At(r, "code")
     /\ IF q.plan.role = "SUPERVISOR"
        THEN Check(r, q.role = "ADMIN", [q EXCEPT !.at = "create"])
        ELSE Check(r, q.plan.code # None /\ Owners(q.plan.code) = {},
               [q EXCEPT !.at = "chief",
                  !.chief = IF q.role = "SUPERVISOR" THEN q.actor ELSE q.plan.boss])

\* assertActiveSupervisor, of createEmployee and of updateEmployee.
CheckChief(r) ==
  LET q == req[r]
  IN /\ At(r, "chief")
     /\ Check(r, LeadsNow(q.chief),
              [q EXCEPT !.at = IF q.plan.op = "create" THEN "create" ELSE "write",
                        !.led = Leads(q.chief)])

Create(r) ==
  LET q == req[r]
      account == [role |-> q.plan.role, active |-> q.plan.active # "off", name |-> q.plan.name,
                  boss |-> q.chief,
                  code |-> IF q.plan.role = "SUPERVISOR" THEN None ELSE q.plan.code]
  IN /\ At(r, "create") /\ Ends(r)
     /\ IF CodeFree(None, account.code)
        THEN \E u \in Users \ Existing :
               /\ Store(r, u, account)
               /\ Charge(r, {IF account.boss = q.actor THEN "team" ELSE "any"})
        ELSE Quiet

\* deactivateEmployee looks at the account before updateEmployee does.
Manages(q, u) ==
  /\ u \in Existing /\ user[u].role # "ADMIN"
  /\ \/ q.role = "ADMIN"
     \/ q.role = "SUPERVISOR" /\ user[u].role = "EMPLOYEE" /\ user[u].boss = q.actor

Peek(r) ==
  /\ At(r, "peek")
  /\ Check(r, Manages(req[r], req[r].plan.on), [req[r] EXCEPT !.at = "read"])

NextRole(plan, was) == IF plan.role = Same THEN was ELSE plan.role

\* Found(r, u): r as it knows the account u.
Found(q, u) ==
  [q EXCEPT !.on = u, !.was = user[u].role, !.boss = user[u].boss, !.code = user[u].code,
            !.seen = Reports(u)]

ReadWithoutReports(r) ==  \* faulty variant: the reports of a supervisor are not counted
  LET u == req[r].plan.on
  IN /\ At(r, "read")
     /\ Check(r, Manages(req[r], u), [Found(req[r], u) EXCEPT !.at = "fit"])

\* updateEmployee up to the check of the role.
Read(r) ==
  LET q == req[r]
      u == q.plan.on
  IN /\ At(r, "read")
     /\ Check(r, /\ Manages(q, u)
                 /\ q.role = "SUPERVISOR" =>
                      q.plan.role \in {"EMPLOYEE", Same} /\ q.plan.boss \in {q.actor, Same}
                 /\ q.plan.role = "EMPLOYEE" /\ user[u].role = "SUPERVISOR" => Reports(u) = {},
              [Found(q, u) EXCEPT !.at = "fit"])

\* The code and the supervisor that an employee needs.
Fit(r) ==
  LET q == req[r]
      code == IF q.plan.code = Same THEN q.code ELSE q.plan.code
      chief == IF q.plan.boss = Same THEN q.boss ELSE q.plan.boss
  IN /\ At(r, "fit")
     /\ IF NextRole(q.plan, q.was) = "SUPERVISOR"
        THEN Check(r, TRUE, [q EXCEPT !.at = "write", !.code = None, !.chief = None])
        ELSE Check(r, code # None /\ CodeFree(q.on, code) /\ chief \notin {None, q.on},
                   [q EXCEPT !.at = "chief", !.code = code, !.chief = chief])

\* The columns of the update: the role is written only if the body names it.
Write(r) ==
  LET q == req[r]
      account == [user[q.on] EXCEPT !.code = q.code, !.boss = q.chief,
                    !.role = IF q.plan.role = Same THEN @ ELSE q.plan.role,
                    !.active = IF q.plan.active = Same THEN @ ELSE q.plan.active = "on"]
  IN /\ At(r, "write") /\ Ends(r)
     /\ IF CodeFree(q.on, q.code) THEN Store(r, q.on, account) /\ Charge(r, {q.on})
        ELSE Quiet

-----------------------------------------------------------------------------
(* importEmployeesFromExcel: a row that fails is reported and the next follows. *)

Row(q) == q.plan.rows[q.row]

\* q at its next row, or at its end.
NextRow(r) ==
  LET q == [req[r] EXCEPT !.at = "row", !.row = @ + 1, !.on = None, !.led = FALSE, !.seen = {}]
  IN IF req[r].row = Len(req[r].plan.rows) THEN Ends(r) ELSE Goes(r, q)

Named(name) == {u \in Existing : Leads(u) /\ user[u].name = name}

\* findOrCreateImportSupervisor: a name is looked up as it is written and
\* remembered by its key. A supervisor imports into his own team only.
FindChief(r) ==
  LET q == req[r]
      key == KeyOf[Row(q).name]
      goes(place, u, led) == Goes(r, [q EXCEPT !.at = place, !.chief = u, !.led = led])
  IN /\ At(r, "row") /\ Quiet
     /\ IF q.role = "SUPERVISOR"
        THEN IF key = KeyOf[user[q.actor].name] THEN goes("find", q.actor, TRUE) ELSE NextRow(r)
        ELSE \/ key \in DOMAIN q.cache /\ goes("find", q.cache[key], TRUE)
             \/ /\ key \notin DOMAIN q.cache
                /\ IF Named(Row(q).name) = {} THEN goes("raise", None, TRUE)
                   ELSE \E u \in Named(Row(q).name) :
                          goes(IF user[u].active THEN "keep" ELSE "revive", u, TRUE)

Remember(r, u) ==
  LET q == req[r]
      key == KeyOf[Row(q).name]
  IN Goes(r, [q EXCEPT !.at = "find", !.chief = u,
                !.cache = [k \in DOMAIN q.cache \union {key} |-> IF k = key THEN u ELSE q.cache[k]]])

Keep(r) == At(r, "keep") /\ Remember(r, req[r].chief) /\ Quiet

Revive(r) ==
  LET u == req[r].chief
  IN /\ At(r, "revive")
     /\ user' = [user EXCEPT ![u].active = TRUE]
     /\ Charge(r, {u}) /\ Remember(r, u)
     /\ UNCHANGED <<permissions, raced, left>>

\* The new supervisor; his address is made from his name, and of two imports
\* that chose the same one the second fails.
Raise(r) ==
  /\ At(r, "raise")
  /\ \/ \E u \in Users \ Existing :
          /\ Store(r, u, [role |-> "SUPERVISOR", active |-> TRUE, boss |-> None, code |-> None,
                          name |-> Row(req[r]).name])
          /\ Charge(r, {"any"}) /\ Remember(r, u)
     \/ Named(Row(req[r]).name) # {} /\ NextRow(r) /\ Quiet

\* The account that has the code of the row.
FindCode(r) ==
  LET q == req[r]
      owners == Owners(Row(q).code)
  IN /\ At(r, "find") /\ Quiet
     /\ \/ owners = {} /\ Goes(r, [q EXCEPT !.at = "insert"])
        \/ \E u \in owners :
             IF user[u].role = "EMPLOYEE" /\ (q.role = "SUPERVISOR" => user[u].boss = q.actor)
             THEN Goes(r, [Found(q, u) EXCEPT !.at = "replace"])
             ELSE NextRow(r)

Imported(q) ==
  [role |-> "EMPLOYEE", active |-> Row(q).active, boss |-> q.chief, code |-> Row(q).code,
   name |-> Row(q).worker]

Replace(r) ==
  LET q == req[r]
  IN /\ At(r, "replace") /\ NextRow(r)
     /\ IF CodeFree(q.on, Row(q).code)
        THEN Store(r, q.on, Imported(q)) /\ Charge(r, {q.on})
        ELSE Quiet

Insert(r) ==
  LET q == req[r]
  IN /\ At(r, "insert") /\ NextRow(r)
     /\ IF CodeFree(None, Row(q).code)
        THEN \E u \in Users \ Existing :
               /\ Store(r, u, Imported(q))
               /\ Charge(r, {IF q.chief = q.actor THEN "team" ELSE "any"})
        ELSE Quiet

-----------------------------------------------------------------------------
(* userImport.service: every account in one transaction, or none. *)

KnownCodes(r) ==
  LET q == req[r]
  IN /\ At(r, "known")
     /\ Goes(r, [q EXCEPT !.at = "commit", !.seen = {c \in q.plan.codes : Owners(c) = {}},
                          !.led = q.role = "SUPERVISOR"])
     /\ Quiet

Commit(r) ==
  LET q == req[r]
      boss == IF q.plan.role = "EMPLOYEE" /\ q.role = "SUPERVISOR" THEN q.actor ELSE None
  IN /\ At(r, "commit") /\ Ends(r)
     /\ IF \E c \in q.seen : Owners(c) # {} THEN Quiet
        ELSE \E ids \in [q.seen -> Users \ Existing] :
               /\ \A c, d \in q.seen : ids[c] = ids[d] => c = d
               /\ user' = [u \in Existing \union {ids[c] : c \in q.seen} |->
                             IF u \in Existing THEN user[u]
                             ELSE [role |-> q.plan.role, active |-> TRUE, boss |-> boss,
                                   code |-> CHOOSE c \in q.seen : ids[c] = u,
                                   name |-> q.plan.name]]
               /\ raced' = IF boss # None /\ ~Leads(boss)
                           THEN raced \union {ids[c] : c \in q.seen} ELSE raced
               /\ Charge(r, IF q.seen = {} THEN {} ELSE {IF boss = None THEN "any" ELSE "team"})
               /\ UNCHANGED <<permissions, left>>

-----------------------------------------------------------------------------
InRows(r) == req[r].at \in {"row", "keep", "revive", "raise", "find", "replace", "insert"}

\* A statement fails. A row of an import is given up, any other request is.
CallFails(r) ==
  /\ ~At(r, "idle") /\ Spend("fault")
  /\ IF InRows(r) THEN NextRow(r) ELSE Ends(r)
  /\ UNCHANGED <<user, permissions, raced, unduly>>

Restart ==
  /\ Spend("fault")
  /\ seeding' = FALSE /\ req' = [r \in Requests |-> Idle]
  /\ UNCHANGED <<user, seeded, enabled, raced, unduly>>

Init ==
  /\ user = First
  /\ \/ seeded = {} /\ enabled = {}
     \/ /\ seeded = RolePermission
        /\ \E chosen \in Settings :
             enabled = {x \in seeded : IF x \in DOMAIN chosen THEN chosen[x] ELSE x \in Defaults}
  /\ seeding = FALSE
  /\ req = [r \in Requests |-> Idle]
  /\ raced = {} /\ unduly = {} /\ left = Budget

Serve ==
  \/ \E r \in Requests :
       \/ \E u \in Existing, p \in Plans : Arrive(r, u, p)
       \/ Authenticate(r) \/ Judge(r) \/ Choose(r)
       \/ CheckNewCode(r) \/ CheckChief(r) \/ Create(r)
       \/ Peek(r) \/ Read(r) \/ Fit(r) \/ Write(r)
       \/ FindChief(r) \/ Keep(r) \/ Revive(r) \/ Raise(r)
       \/ FindCode(r) \/ Replace(r) \/ Insert(r)
       \/ KnownCodes(r) \/ Commit(r)
       \/ CallFails(r)
  \/ Seed \/ SeedFails

Next == Serve \/ Restart

Spec == Init /\ [][Next]_vars

-----------------------------------------------------------------------------
TypeOK ==
  /\ Existing \subseteq Users /\ \A u \in Existing : user[u] \in Account
  /\ \A c \in Codes : \A u, v \in Owners(c) : u = v
  /\ seeded \subseteq RolePermission /\ enabled \subseteq seeded
  /\ seeding => seeded = RolePermission
  /\ \A r \in Requests : req[r].actor \in Existing \union {None}
  /\ left \in [Events -> Nat]

\* The chart of the staff stays a chart, whatever creations, updates and imports
\* run beside each other: an employee's supervisor is a supervisor, and a
\* supervisor has none. Only a request that was overtaken between its check and
\* its write breaks it.
TeamIsLed ==
  \A u \in Existing \ raced :
    user[u].boss # None => user[u].role = "EMPLOYEE" /\ Leads(user[u].boss)

\* Whatever a request changes, its user had the right to while it was under way:
\* at some moment he was active in the role that it acts with, at some moment this
\* role had the permission, and at some moment the account that a supervisor
\* changes was an employee of his team. No snapshot of a role or a team is used
\* past the request that took it. (Not all at one moment: of three requests beside
\* each other one may demote a supervisor while another gives him an employee.)
ChangesAreDue == unduly = {}
=============================================================================
