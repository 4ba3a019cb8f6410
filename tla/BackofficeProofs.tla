--------------------------- MODULE BackofficeProofs ---------------------------
(***************************************************************************)
(* Proofs about Backoffice, for all accounts, requests, imports and bodies.   *)
(* The summary of an import of customers tells what was stored, the staff stays *)
(* a chart, and nobody changes what he has no right to.                      *)
(***************************************************************************)
EXTENDS Backoffice, SequenceTheorems, TLAPS

-----------------------------------------------------------------------------
(* An import of customers: what it counts and what it may touch.              *)

\* The fields of an import, as far as they are counted with.
ImpFits(q) ==
  /\ DOMAIN q = {"at", "actor", "role", "team", "assigns", "rows", "row", "collector", "on",
                 "sum", "stored", "unsaid", "touched", "teams"}
  /\ q.role \in Roles /\ q.row \in Nat /\ q.unsaid \in Nat
  /\ q.sum \in [created : Nat, updated : Nat, skipped : Nat, debts : Nat, duplicates : Nat]
  /\ q.stored \in [customers : Nat, debts : Nat]

\* Every row is counted once, and what is stored is counted or will be.
Counted(q) ==
  LET unconfirmed == IF q.at = "confirm" THEN 1 ELSE 0
  IN /\ q.sum.created + q.sum.updated + q.sum.skipped = q.row - 1
     /\ q.sum.created + q.unsaid + unconfirmed = q.stored.customers
     /\ q.sum.debts + q.unsaid + unconfirmed = q.stored.debts

\* Of these customers each one that the import has changed, or is about to add a
\* debt to, had a collector who was in the team; so is the collector whom it is
\* about to give a new customer to.
Scoped(q, customers) ==
  /\ q.team \subseteq q.teams /\ q.touched \subseteq DOMAIN customers
  /\ q.role # "ADMIN" =>
       /\ \A c \in q.touched : customers[c].been \intersect q.teams # {}
       /\ q.at = "debt" /\ q.on \in DOMAIN customers =>
            customers[q.on].been \intersect q.teams # {}
       /\ q.at = "create" => q.collector \in q.teams

\* Between two steps an import is idle or knows its user.
Fair(q, customers) == ImpFits(q) /\ Counted(q) /\ Scoped(q, customers)

CustomersFit ==
  \A c \in DOMAIN customer :
    {"collector", "been"} \subseteq DOMAIN customer[c] /\ customer[c].collector \in customer[c].been

ImportInv ==
  /\ DOMAIN imp = Imports /\ CustomersFit
  /\ \A i \in Imports : Fair(imp[i], customer)

\* q with those who are in the team of its user now.
Joined(q) == [q EXCEPT !.teams = @ \union I!TeamOf(q.actor)]

LEMMA JoinedFields ==
  ASSUME NEW q, ImpFits(q)
  PROVE  /\ ImpFits(Joined(q))
         /\ Joined(q).teams = q.teams \union I!TeamOf(q.actor)
         /\ Joined(q).at = q.at /\ Joined(q).row = q.row /\ Joined(q).sum = q.sum
         /\ Joined(q).stored = q.stored /\ Joined(q).unsaid = q.unsaid /\ Joined(q).role = q.role
         /\ Joined(q).team = q.team /\ Joined(q).touched = q.touched /\ Joined(q).on = q.on
         /\ Joined(q).collector = q.collector
  BY DEF ImpFits, Joined

\* The team only grows while an import runs.
LEMMA JoinedFair ==
  ASSUME NEW q, NEW customers, Fair(q, customers)
  PROVE  Fair(Joined(q), customers)
  <1>1. ImpFits(q)
    BY DEF Fair
  <1>2. Counted(Joined(q))
    BY <1>1, JoinedFields DEF Fair, Counted
  <1>3. Scoped(Joined(q), customers)
    BY <1>1, JoinedFields DEF Fair, Scoped
  <1> QED
    BY <1>1, <1>2, <1>3, JoinedFields DEF Fair

\* One import goes on, the others stand still.
LEMMA OneGoes ==
  ASSUME DOMAIN imp = Imports, NEW i \in Imports, NEW q, I!Goes(i, q),
         NEW customers, ImpFits(q), Fair(Joined(q), customers),
         \A j \in Imports : j # i => Fair(imp[j], customers)
  PROVE  DOMAIN imp' = Imports /\ \A j \in Imports : Fair(imp'[j], customers)
  <1>1. imp' = [imp EXCEPT ![i] = Joined(q)]
    BY DEF I!Goes, Joined
  <1> QED
    BY <1>1

\* q at its next row, or done.
Ahead(q) ==
  [q EXCEPT !.at = IF q.row = Len(q.rows) THEN "done" ELSE "row", !.on = None,
            !.row = @ + 1, !.collector = None]

\* A row whose outcome has been counted ends well.
LEMMA RowEnds ==
  ASSUME DOMAIN imp = Imports, NEW i \in Imports, NEW q, I!NextRow(i, q), NEW customers,
         ImpFits(q), Scoped(q, customers),
         q.sum.created + q.sum.updated + q.sum.skipped = q.row,
         q.sum.created + q.unsaid = q.stored.customers,
         q.sum.debts + q.unsaid = q.stored.debts,
         \A j \in Imports : j # i => Fair(imp[j], customers)
  PROVE  DOMAIN imp' = Imports /\ \A j \in Imports : Fair(imp'[j], customers)
  <1> DEFINE n == Ahead(q)
  <1>1. I!Goes(i, n)
    BY DEF I!NextRow, Ahead, I!None, None
  <1>2. /\ ImpFits(n) /\ n.row = q.row + 1 /\ n.sum = q.sum /\ n.stored = q.stored
        /\ n.unsaid = q.unsaid /\ n.at \in {"done", "row"} /\ n.team = q.team /\ n.teams = q.teams
        /\ n.touched = q.touched /\ n.role = q.role
    BY DEF ImpFits, Ahead
  <1> HIDE DEF n
  <1>3. Counted(n)
    BY <1>2 DEF Counted, ImpFits
  <1>4. Scoped(n, customers)
    BY <1>2 DEF Scoped
  <1> QED
    BY <1>1, <1>2, <1>3, <1>4, JoinedFair, OneGoes DEF Fair

\* A row that is given up, once what it stored has been noted.
LEMMA RowGivenUp ==
  ASSUME DOMAIN imp = Imports, NEW i \in Imports, NEW q, I!RowFails(i, q), NEW customers,
         ImpFits(q), Scoped(q, customers),
         q.sum.created + q.sum.updated + q.sum.skipped = q.row - 1,
         q.sum.created + q.unsaid = q.stored.customers,
         q.sum.debts + q.unsaid = q.stored.debts,
         \A j \in Imports : j # i => Fair(imp[j], customers)
  PROVE  DOMAIN imp' = Imports /\ \A j \in Imports : Fair(imp'[j], customers)
  <1> DEFINE n == [q EXCEPT !.sum.skipped = @ + 1]
  <1>1. I!NextRow(i, n)
    BY DEF I!RowFails
  <1>2. /\ ImpFits(n) /\ n.row = q.row /\ n.sum.created = q.sum.created
        /\ n.sum.updated = q.sum.updated /\ n.sum.skipped = q.sum.skipped + 1
        /\ n.sum.debts = q.sum.debts /\ n.stored = q.stored
        /\ n.unsaid = q.unsaid /\ n.at = q.at /\ n.team = q.team /\ n.teams = q.teams
        /\ n.touched = q.touched /\ n.role = q.role /\ n.on = q.on /\ n.collector = q.collector
    BY DEF ImpFits
  <1> HIDE DEF n
  <1>3. Scoped(n, customers)
    BY <1>2 DEF Scoped
  <1>4. n.sum.created + n.sum.updated + n.sum.skipped = n.row
    BY <1>2 DEF ImpFits
  <1> QED
    BY <1>1, <1>2, <1>3, <1>4, RowEnds

\* The steps of one import, the customers standing still.
Reading(i) ==
  I!Refuse(i) \/ I!FindCollector(i) \/ I!CheckCollector(i) \/ I!FindCustomer(i)
  \/ I!CheckAccess(i) \/ I!ReadBack(i) \/ I!Resolve(i) \/ I!Confirm(i)

\* The step of an import from one place to another within a row.
LEMMA StepFits ==
  ASSUME DOMAIN imp = Imports, NEW i \in Imports, NEW q, I!Goes(i, q), NEW customers,
         ImpFits(q), Counted(q), Scoped(q, customers),
         \A j \in Imports : j # i => Fair(imp[j], customers)
  PROVE  DOMAIN imp' = Imports /\ \A j \in Imports : Fair(imp'[j], customers)
  BY JoinedFair, OneGoes DEF Fair

LEMMA ReadingKeepsImports ==
  ASSUME ImportInv, NEW i \in Imports, Reading(i)
  PROVE  DOMAIN imp' = Imports /\ \A j \in Imports : Fair(imp'[j], customer)
  <1> DEFINE q == imp[i]
  <1>0. /\ DOMAIN imp = Imports /\ ImpFits(q) /\ Counted(q) /\ Scoped(q, customer)
        /\ \A j \in Imports : Fair(imp[j], customer)
    BY DEF ImportInv, Fair
  <1>g. q.at # "confirm" =>
          /\ q.sum.created + q.sum.updated + q.sum.skipped = q.row - 1
          /\ q.sum.created + q.unsaid = q.stored.customers
          /\ q.sum.debts + q.unsaid = q.stored.debts
    BY <1>0 DEF Counted, ImpFits
  <1>1. CASE I!Refuse(i)
    <2>1. q.at = "row" /\ I!RowFails(i, q)
      BY <1>1 DEF I!Refuse, I!At
    <2> QED
      BY <2>1, <1>0, <1>g, RowGivenUp
  <1>2. CASE I!FindCollector(i)
    <2>1. q.at = "row" /\ \E place \in {"staff", "find"} : I!Goes(i, [q EXCEPT !.at = place])
      BY <1>2 DEF I!FindCollector, I!At
    <2>2. PICK place \in {"staff", "find"} : I!Goes(i, [q EXCEPT !.at = place])
      BY <2>1
    <2>3. /\ ImpFits([q EXCEPT !.at = place]) /\ Counted([q EXCEPT !.at = place])
          /\ Scoped([q EXCEPT !.at = place], customer)
      BY <1>0, <2>1 DEF ImpFits, Counted, Scoped
    <2> QED
      BY <2>2, <2>3, <1>0, StepFits
  <1>3. CASE I!CheckCollector(i)
    <2>1. PICK n : /\ I!Goes(i, n)
                   /\ \/ n = [q EXCEPT !.at = "find", !.collector = I!Row(q).collector]
                      \/ n = [q EXCEPT !.at = "aborted"]
      BY <1>3 DEF I!CheckCollector
    <2>2. q.at = "staff"
      BY <1>3 DEF I!CheckCollector, I!At
    <2>3. ImpFits(n) /\ Counted(n) /\ Scoped(n, customer)
      BY <1>0, <2>1, <2>2 DEF ImpFits, Counted, Scoped
    <2> QED
      BY <2>1, <2>3, <1>0, StepFits
  <1>4. CASE I!FindCustomer(i)
    <2>1. PICK n : /\ I!Goes(i, n)
                   /\ \/ n = [q EXCEPT !.at = "assign"]
                      \/ \E c \in DOMAIN customer : n = [q EXCEPT !.at = "access", !.on = c]
      BY <1>4 DEF I!FindCustomer
    <2>2. q.at = "find"
      BY <1>4 DEF I!FindCustomer, I!At
    <2>3. ImpFits(n) /\ Counted(n) /\ Scoped(n, customer)
      BY <1>0, <2>1, <2>2 DEF ImpFits, Counted, Scoped
    <2> QED
      BY <2>1, <2>3, <1>0, StepFits
  <1>5. CASE I!CheckAccess(i)
    <2>1. q.at = "access"
      BY <1>5 DEF I!CheckAccess, I!At
    <2>2. CASE I!Accessible(q, q.on)
      <3> DEFINE n == [q EXCEPT !.at = "debt"]
      <3>1. I!Goes(i, n)
        BY <1>5, <2>2 DEF I!CheckAccess
      <3>2. ImpFits(n) /\ Counted(n) /\ n.at = "debt" /\ n.on = q.on /\ n.role = q.role
            /\ n.team = q.team /\ n.teams = q.teams /\ n.touched = q.touched
        BY <1>0, <2>1 DEF ImpFits, Counted
      <3>3. q.role # "ADMIN" => customer[q.on].been \intersect q.teams # {}
        BY <1>0, <2>2 DEF I!Accessible, Scoped, ImportInv, CustomersFit
      <3> HIDE DEF n
      <3>4. Scoped(n, customer)
        BY <1>0, <3>2, <3>3 DEF Scoped
      <3> QED
        BY <3>1, <3>2, <3>4, <1>0, StepFits
    <2>3. CASE ~I!Accessible(q, q.on)
      <3>1. I!RowFails(i, q)
        BY <1>5, <2>3 DEF I!CheckAccess
      <3> QED
        BY <3>1, <2>1, <1>0, <1>g, RowGivenUp
    <2> QED
      BY <2>2, <2>3
  <1>6. CASE I!ReadBack(i)
    <2> DEFINE n == [q EXCEPT !.sum.updated = @ + 1]
    <2>1. q.at = "saved" /\ I!NextRow(i, n)
      BY <1>6 DEF I!ReadBack, I!At
    <2>2. /\ ImpFits(n) /\ n.row = q.row /\ n.sum.created = q.sum.created
          /\ n.sum.updated = q.sum.updated + 1 /\ n.sum.skipped = q.sum.skipped
          /\ n.sum.debts = q.sum.debts /\ n.stored = q.stored
          /\ n.unsaid = q.unsaid /\ n.at = q.at /\ n.team = q.team /\ n.teams = q.teams
          /\ n.touched = q.touched /\ n.role = q.role /\ n.on = q.on /\ n.collector = q.collector
      BY <1>0 DEF ImpFits
    <2> HIDE DEF n
    <2>3. Scoped(n, customer)
      BY <1>0, <2>2 DEF Scoped
    <2>4. n.sum.created + n.sum.updated + n.sum.skipped = n.row
      BY <2>1, <2>2, <1>0, <1>g DEF ImpFits
    <2> QED
      BY <2>1, <2>2, <2>3, <2>4, <1>0, <1>g, RowEnds
  <1>7. CASE I!Resolve(i)
    <2>1. q.at = "assign"
      BY <1>7 DEF I!Resolve, I!At
    <2>2. CASE I!RowFails(i, q)
      BY <2>2, <2>1, <1>0, <1>g, RowGivenUp
    <2>3. CASE ~I!RowFails(i, q)
      <3> DEFINE named == q.collector # I!None
                 collector == IF ~named /\ q.role = "EMPLOYEE" THEN q.actor ELSE q.collector
                 n == [q EXCEPT !.at = "create", !.collector = collector]
      <3>1. /\ named => /\ I!Assignable(q, q.collector) /\ user[q.collector].role = "EMPLOYEE"
                        /\ q.role = "ADMIN" \/ q.assigns
            /\ ~named => q.role # "SUPERVISOR"
            /\ I!Goes(i, n)
        BY <1>7, <2>3 DEF I!Resolve
      <3>2. q.role # "ADMIN" => collector \in I!TeamOf(q.actor)
        BY <3>1, <1>0 DEF I!Assignable, I!TeamOf, I!Active, ImpFits, Roles
      <3>3. /\ ImpFits(n) /\ Counted(n) /\ n.at = "create" /\ n.collector = collector
            /\ n.role = q.role /\ n.actor = q.actor
            /\ n.team = q.team /\ n.teams = q.teams /\ n.touched = q.touched
        <4> HIDE DEF collector
        <4> QED
          BY <1>0, <2>1 DEF ImpFits, Counted
      <3> HIDE DEF n, collector
      <3>4. Fair(Joined(n), customer)
        <4>1. ImpFits(Joined(n)) /\ Counted(Joined(n))
          BY <3>3, JoinedFields DEF Counted
        <4>2. Scoped(Joined(n), customer)
          BY <1>0, <3>2, <3>3, JoinedFields DEF Scoped
        <4> QED
          BY <4>1, <4>2 DEF Fair
      <3> QED
        BY <3>1, <3>3, <3>4, <1>0, OneGoes
    <2> QED
      BY <2>2, <2>3
  <1>8. CASE I!Confirm(i)
    <2>1. q.at = "confirm" /\ q.sum.created + q.unsaid + 1 = q.stored.customers
          /\ q.sum.debts + q.unsaid + 1 = q.stored.debts
          /\ q.sum.created + q.sum.updated + q.sum.skipped = q.row - 1
      BY <1>8, <1>0 DEF I!Confirm, I!At, Counted
    <2>2. CASE q.on \in DOMAIN customer
      <3> DEFINE n == [q EXCEPT !.sum.created = @ + 1, !.sum.debts = @ + 1]
      <3>1. I!NextRow(i, n)
        BY <1>8, <2>2 DEF I!Confirm
      <3>2. /\ ImpFits(n) /\ n.row = q.row /\ n.sum.created = q.sum.created + 1
            /\ n.sum.updated = q.sum.updated /\ n.sum.skipped = q.sum.skipped
            /\ n.sum.debts = q.sum.debts + 1 /\ n.stored = q.stored
            /\ n.unsaid = q.unsaid /\ n.at = q.at /\ n.team = q.team /\ n.teams = q.teams
            /\ n.touched = q.touched /\ n.role = q.role /\ n.on = q.on /\ n.collector = q.collector
        <4> DEFINE sum == [q.sum EXCEPT !.created = @ + 1, !.debts = @ + 1]
        <4>1. /\ sum \in [created : Nat, updated : Nat, skipped : Nat, debts : Nat, duplicates : Nat]
              /\ sum.created = q.sum.created + 1 /\ sum.debts = q.sum.debts + 1
              /\ sum.updated = q.sum.updated /\ sum.skipped = q.sum.skipped
          <5> DEFINE part == [q.sum EXCEPT !.created = q.sum.created + 1]
          <5>1. /\ part \in [created : Nat, updated : Nat, skipped : Nat, debts : Nat, duplicates : Nat]
                /\ part.created = q.sum.created + 1 /\ part.debts = q.sum.debts
                /\ part.updated = q.sum.updated /\ part.skipped = q.sum.skipped
            BY <1>0 DEF ImpFits
          <5>2. sum = [part EXCEPT !.debts = part.debts + 1]
            BY <5>1
          <5> HIDE DEF part, sum
          <5> QED
            BY <5>1, <5>2
        <4>2. n = [q EXCEPT !.sum = sum]
          <5> DEFINE m == [q EXCEPT !.sum.created = @ + 1]
          <5>1. n = [m EXCEPT !.sum.debts = @ + 1]
            OBVIOUS
          <5>2. ImpFits(m) /\ m = [q EXCEPT !.sum = [q.sum EXCEPT !.created = @ + 1]]
            BY <1>0 DEF ImpFits
          <5> QED
            BY <1>0, <5>1, <5>2 DEF ImpFits
        <4> HIDE DEF n, sum
        <4> QED
          BY <1>0, <4>1, <4>2 DEF ImpFits
      <3> HIDE DEF n
      <3>3. Scoped(n, customer)
        BY <1>0, <3>2 DEF Scoped
      <3>4. /\ n.sum.created + n.sum.updated + n.sum.skipped = n.row
            /\ n.sum.created + n.unsaid = n.stored.customers
            /\ n.sum.debts + n.unsaid = n.stored.debts
        BY <2>1, <3>2, <1>0 DEF ImpFits
      <3> QED
        BY <3>1, <3>2, <3>3, <3>4, <1>0, RowEnds
    <2>3. CASE q.on \notin DOMAIN customer
      <3> DEFINE n == [q EXCEPT !.unsaid = @ + 1]
      <3>1. I!RowFails(i, n)
        BY <1>8, <2>3 DEF I!Confirm
      <3>2. /\ ImpFits(n) /\ n.row = q.row /\ n.sum = q.sum /\ n.stored = q.stored
            /\ n.unsaid = q.unsaid + 1 /\ n.at = q.at /\ n.team = q.team /\ n.teams = q.teams
            /\ n.touched = q.touched /\ n.role = q.role /\ n.on = q.on /\ n.collector = q.collector
        BY <1>0 DEF ImpFits
      <3> HIDE DEF n
      <3>3. Scoped(n, customer)
        BY <1>0, <3>2 DEF Scoped
      <3>4. /\ n.sum.created + n.sum.updated + n.sum.skipped = n.row - 1
            /\ n.sum.created + n.unsaid = n.stored.customers
            /\ n.sum.debts + n.unsaid = n.stored.debts
        BY <2>1, <3>2, <1>0 DEF ImpFits
      <3> QED
        BY <3>1, <3>2, <3>3, <3>4, <1>0, RowGivenUp
    <2> QED
      BY <2>2, <2>3
  <1> QED
    BY <1>1, <1>2, <1>3, <1>4, <1>5, <1>6, <1>7, <1>8 DEF Reading

\* What one import knows of the others is still so when a customer is added whom
\* none of them has ever seen, or when an existing one changes hands.
LEMMA FairOfMore ==
  ASSUME NEW q, NEW old, NEW new, Fair(q, old), DOMAIN old \subseteq DOMAIN new,
         \A c \in DOMAIN old : old[c].been \subseteq new[c].been,
         q.on \in DOMAIN new => q.on \in DOMAIN old
  PROVE  Fair(q, new)
  BY DEF Fair, Scoped

LEMMA AddDebtKeepsImports ==
  ASSUME ImportInv, NEW i \in Imports, I!AddDebt(i)
  PROVE  DOMAIN imp' = Imports /\ \A j \in Imports : Fair(imp'[j], customer)
  <1> DEFINE q == imp[i]
             row == [owner |-> q.on, account |-> I!Row(q).account, year |-> I!Row(q).year]
  <1>0. /\ DOMAIN imp = Imports /\ ImpFits(q) /\ Counted(q) /\ Scoped(q, customer)
        /\ \A j \in Imports : Fair(imp[j], customer)
    BY DEF ImportInv, Fair
  <1>g. /\ q.at = "debt"
        /\ q.sum.created + q.sum.updated + q.sum.skipped = q.row - 1
        /\ q.sum.created + q.unsaid = q.stored.customers
        /\ q.sum.debts + q.unsaid = q.stored.debts
    BY <1>0 DEF Counted, ImpFits, I!AddDebt, I!At
  <1>1. CASE q.on \notin DOMAIN customer
    <2>1. I!RowFails(i, q)
      BY <1>1 DEF I!AddDebt
    <2> QED
      BY <2>1, <1>0, <1>g, RowGivenUp
  <1>2. CASE q.on \in DOMAIN customer /\ row \in debt
    <2> DEFINE n == [q EXCEPT !.at = "saved", !.sum.duplicates = @ + 1]
    <2>1. I!Goes(i, n)
      BY <1>2 DEF I!AddDebt
    <2>2. /\ ImpFits(n) /\ n.row = q.row /\ n.sum.created = q.sum.created
          /\ n.sum.updated = q.sum.updated /\ n.sum.skipped = q.sum.skipped
          /\ n.sum.debts = q.sum.debts /\ n.stored = q.stored
          /\ n.unsaid = q.unsaid /\ n.at = "saved" /\ n.team = q.team /\ n.teams = q.teams
          /\ n.touched = q.touched /\ n.role = q.role
      BY <1>0 DEF ImpFits
    <2> HIDE DEF n
    <2>3. Counted(n) /\ Scoped(n, customer)
      BY <1>0, <1>g, <2>2 DEF Counted, Scoped, ImpFits
    <2> QED
      BY <2>1, <2>2, <2>3, <1>0, StepFits
  <1>3. CASE q.on \in DOMAIN customer /\ row \notin debt
    <2> DEFINE sum == [q.sum EXCEPT !.debts = @ + 1]
               stored == [q.stored EXCEPT !.debts = @ + 1]
               n == [q EXCEPT !.at = "saved", !.touched = @ \union {q.on},
                              !.sum.debts = @ + 1, !.stored.debts = @ + 1]
    <2>1. I!Goes(i, n)
      BY <1>3 DEF I!AddDebt
    <2>2. /\ sum \in [created : Nat, updated : Nat, skipped : Nat, debts : Nat, duplicates : Nat]
          /\ sum.created = q.sum.created /\ sum.debts = q.sum.debts + 1
          /\ sum.updated = q.sum.updated /\ sum.skipped = q.sum.skipped
          /\ stored \in [customers : Nat, debts : Nat]
          /\ stored.customers = q.stored.customers /\ stored.debts = q.stored.debts + 1
      BY <1>0 DEF ImpFits
    <2>3. n = [q EXCEPT !.at = "saved", !.touched = q.touched \union {q.on}, !.sum = sum,
                        !.stored = stored]
      BY <1>0 DEF ImpFits
    <2> HIDE DEF n, sum, stored
    <2>4. /\ ImpFits(n) /\ n.row = q.row /\ n.sum = sum /\ n.stored = stored
          /\ n.unsaid = q.unsaid /\ n.at = "saved" /\ n.team = q.team /\ n.teams = q.teams
          /\ n.touched = q.touched \union {q.on} /\ n.role = q.role
      BY <1>0, <2>2, <2>3 DEF ImpFits
    <2>5. Counted(n)
      BY <1>0, <1>g, <2>2, <2>4 DEF Counted, ImpFits
    <2>6. Scoped(n, customer)
      BY <1>0, <1>g, <1>3, <2>4 DEF Scoped
    <2> QED
      BY <2>1, <2>4, <2>5, <2>6, <1>0, StepFits
  <1> QED
    BY <1>1, <1>2, <1>3

LEMMA FailureKeepsImports ==
  ASSUME ImportInv, NEW i \in Imports, I!StatementFails(i)
  PROVE  DOMAIN imp' = Imports /\ \A j \in Imports : Fair(imp'[j], customer)
  <1> DEFINE q == imp[i]
  <1>0. /\ DOMAIN imp = Imports /\ ImpFits(q) /\ Counted(q) /\ Scoped(q, customer)
        /\ \A j \in Imports : Fair(imp[j], customer)
    BY DEF ImportInv, Fair
  <1>1. CASE q.at \in {"staff", "row"} /\ I!Goes(i, [q EXCEPT !.at = "aborted"])
    <2> DEFINE n == [q EXCEPT !.at = "aborted"]
    <2>1. ImpFits(n) /\ Counted(n) /\ Scoped(n, customer)
      BY <1>0, <1>1 DEF ImpFits, Counted, Scoped
    <2> QED
      BY <1>1, <2>1, <1>0, StepFits
  <1>2. CASE q.at # "confirm" /\ I!RowFails(i, q)
    <2>1. /\ q.sum.created + q.sum.updated + q.sum.skipped = q.row - 1
          /\ q.sum.created + q.unsaid = q.stored.customers
          /\ q.sum.debts + q.unsaid = q.stored.debts
      BY <1>0, <1>2 DEF Counted, ImpFits
    <2> QED
      BY <1>2, <2>1, <1>0, RowGivenUp
  <1>3. CASE q.at = "confirm" /\ I!RowFails(i, [q EXCEPT !.unsaid = @ + 1])
    <2> DEFINE n == [q EXCEPT !.unsaid = @ + 1]
    <2>1. /\ ImpFits(n) /\ n.row = q.row /\ n.sum = q.sum /\ n.stored = q.stored
          /\ n.unsaid = q.unsaid + 1 /\ n.at = q.at /\ n.team = q.team /\ n.teams = q.teams
          /\ n.touched = q.touched /\ n.role = q.role /\ n.on = q.on /\ n.collector = q.collector
      BY <1>0 DEF ImpFits
    <2> HIDE DEF n
    <2>2. Scoped(n, customer)
      BY <1>0, <2>1 DEF Scoped
    <2>3. /\ n.sum.created + n.sum.updated + n.sum.skipped = n.row - 1
          /\ n.sum.created + n.unsaid = n.stored.customers
          /\ n.sum.debts + n.unsaid = n.stored.debts
      BY <1>3, <2>1, <1>0 DEF Counted, ImpFits
    <2>4. I!RowFails(i, n)
      BY <1>3 DEF n
    <2> QED
      BY <2>1, <2>2, <2>3, <2>4, <1>0, RowGivenUp
  <1> QED
    BY <1>1, <1>2, <1>3 DEF I!StatementFails

LEMMA CreateKeepsImports ==
  ASSUME ImportInv, NEW i \in Imports, I!Create(i)
  PROVE  ImportInv'
  <1> DEFINE q == imp[i]
  <1>0. /\ DOMAIN imp = Imports /\ ImpFits(q) /\ Counted(q) /\ Scoped(q, customer)
        /\ \A j \in Imports : Fair(imp[j], customer)
    BY DEF ImportInv, Fair
  <1>a. q.at = "create"
    BY DEF I!Create, I!At
  <1>g. /\ q.at = "create"
        /\ q.sum.created + q.sum.updated + q.sum.skipped = q.row - 1
        /\ q.sum.created + q.unsaid = q.stored.customers
        /\ q.sum.debts + q.unsaid = q.stored.debts
    BY <1>0, <1>a DEF Counted, ImpFits
  <1>1. CASE I!RowFails(i, q) /\ UNCHANGED customer
    <2>1. DOMAIN imp' = Imports /\ \A j \in Imports : Fair(imp'[j], customer)
      BY <1>1, <1>0, <1>g, RowGivenUp
    <2> QED
      BY <2>1, <1>1 DEF ImportInv, CustomersFit
  <1>2. ASSUME NEW c \in Customers \ (DOMAIN customer \union {imp[j].on : j \in Imports}),
               customer' = [x \in DOMAIN customer \union {c} |->
                 IF x # c THEN customer[x]
                 ELSE [nationalId |-> I!Row(q).nationalId, phone |-> I!Row(q).phone,
                       account |-> I!Row(q).account, collector |-> q.collector,
                       been |-> {q.collector}]],
               I!Goes(i, [q EXCEPT !.at = "confirm", !.on = c, !.touched = @ \union {c},
                            !.stored.customers = @ + 1, !.stored.debts = @ + 1])
        PROVE  ImportInv'
    <2> DEFINE stored == [q.stored EXCEPT !.customers = @ + 1, !.debts = @ + 1]
               n == [q EXCEPT !.at = "confirm", !.on = c, !.touched = @ \union {c},
                            !.stored.customers = @ + 1, !.stored.debts = @ + 1]
    <2>1. /\ stored \in [customers : Nat, debts : Nat]
          /\ stored.customers = q.stored.customers + 1 /\ stored.debts = q.stored.debts + 1
      <3> DEFINE part == [q.stored EXCEPT !.customers = q.stored.customers + 1]
      <3>1. /\ part \in [customers : Nat, debts : Nat]
            /\ part.customers = q.stored.customers + 1 /\ part.debts = q.stored.debts
        BY <1>0 DEF ImpFits
      <3>2. stored = [part EXCEPT !.debts = part.debts + 1]
        BY <3>1
      <3> HIDE DEF part, stored
      <3> QED
        BY <3>1, <3>2
    <2>2. n = [q EXCEPT !.at = "confirm", !.on = c, !.touched = q.touched \union {c},
                        !.stored = stored]
      BY <1>0 DEF ImpFits
    <2>g. I!Goes(i, n)
      BY <1>2
    <2> HIDE DEF n, stored
    <2>3. /\ ImpFits(n) /\ n.row = q.row /\ n.sum = q.sum /\ n.stored = stored
          /\ n.unsaid = q.unsaid /\ n.at = "confirm" /\ n.team = q.team /\ n.teams = q.teams
          /\ n.touched = q.touched \union {c} /\ n.role = q.role
      BY <1>0, <2>1, <2>2 DEF ImpFits
    <2>4. Counted(n)
      BY <1>0, <1>g, <2>1, <2>3 DEF Counted, ImpFits
    <2>5. /\ DOMAIN customer' = DOMAIN customer \union {c} /\ customer'[c].been = {q.collector}
          /\ customer'[c].collector = q.collector
          /\ {"collector", "been"} \subseteq DOMAIN customer'[c]
          /\ \A x \in DOMAIN customer : customer'[x] = customer[x]
      BY <1>2
    <2>6. Scoped(n, customer')
      BY <1>0, <1>g, <2>3, <2>5 DEF Scoped
    <2>7. ASSUME NEW j \in Imports, j # i
          PROVE  Fair(imp[j], customer')
      BY <2>5, <1>0, FairOfMore
    <2>8. DOMAIN imp' = Imports /\ \A j \in Imports : Fair(imp'[j], customer')
      BY <2>3, <2>4, <2>6, <2>7, <2>g, <1>0, StepFits
    <2>9. CustomersFit'
      BY <2>5 DEF ImportInv, CustomersFit
    <2> QED
      BY <2>8, <2>9 DEF ImportInv
  <1> QED
    BY <1>1, <1>2 DEF I!Create

LEMMA OthersKeepImports ==
  ASSUME ImportInv, NEW c, (\E u \in DOMAIN user : I!Move(c, u)) \/ I!Delete(c)
  PROVE  ImportInv'
  <1>0. DOMAIN imp = Imports /\ \A j \in Imports : Fair(imp[j], customer)
    BY DEF ImportInv
  <1>1. ASSUME NEW u, I!Move(c, u)
        PROVE  ImportInv'
    <2>1. /\ c \in DOMAIN customer /\ DOMAIN customer' = DOMAIN customer /\ imp' = imp
          /\ \A x \in DOMAIN customer : x # c => customer'[x] = customer[x]
          /\ {"collector", "been"} \subseteq DOMAIN customer'[c]
          /\ customer'[c].collector = u /\ customer'[c].been = customer[c].been \union {u}
      BY <1>1 DEF I!Move, ImportInv, CustomersFit
    <2>2. \A j \in Imports : Fair(imp[j], customer')
      BY <2>1, <1>0, FairOfMore
    <2> QED
      BY <2>1, <2>2 DEF ImportInv, CustomersFit
  <1>2. CASE I!Delete(c)
    <2>1. /\ DOMAIN customer' = DOMAIN customer \ {c} /\ DOMAIN imp' = Imports
          /\ \A x \in DOMAIN customer' : customer'[x] = customer[x]
          /\ \A j \in Imports : imp'[j] = [imp[j] EXCEPT !.touched = imp[j].touched \ {c}]
      BY <1>2 DEF I!Delete
    <2>2. ASSUME NEW j \in Imports
          PROVE  Fair(imp'[j], customer')
      <3> DEFINE q == imp[j]
                 n == [q EXCEPT !.touched = q.touched \ {c}]
      <3>1. ImpFits(q) /\ Counted(q) /\ Scoped(q, customer)
        BY <1>0 DEF Fair
      <3>2. /\ ImpFits(n) /\ n.at = q.at /\ n.row = q.row /\ n.sum = q.sum /\ n.stored = q.stored
            /\ n.unsaid = q.unsaid /\ n.role = q.role /\ n.team = q.team /\ n.teams = q.teams
            /\ n.on = q.on /\ n.collector = q.collector /\ n.touched = q.touched \ {c}
        BY <3>1 DEF ImpFits
      <3> HIDE DEF n
      <3>3. Counted(n)
        BY <3>1, <3>2 DEF Counted
      <3>4. Scoped(n, customer')
        BY <3>1, <3>2, <2>1 DEF Scoped
      <3>5. Fair(n, customer')
        BY <3>2, <3>3, <3>4 DEF Fair
      <3> QED
        BY <3>5, <2>1 DEF n
    <2> QED
      BY <2>1, <2>2 DEF ImportInv, CustomersFit
  <1> QED
    BY <1>1, <1>2

\* The imports, the ids of customers and the constants are as they should be.
LEMMA NextKeepsImports ==
  ASSUME ImportInv, I!Next
  PROVE  ImportInv'
  <1>1. ASSUME NEW i \in Imports, Reading(i)
        PROVE  ImportInv'
    <2>1. DOMAIN imp' = Imports /\ \A j \in Imports : Fair(imp'[j], customer)
      BY <1>1, ReadingKeepsImports
    <2>2. customer' = customer
      BY <1>1 DEF Reading, I!Reads, I!Refuse, I!FindCollector, I!CheckCollector, I!FindCustomer,
           I!CheckAccess, I!ReadBack, I!Resolve, I!Confirm
    <2> QED
      BY <2>1, <2>2 DEF ImportInv, CustomersFit
  <1>2. ASSUME NEW i \in Imports, I!AddDebt(i)
        PROVE  ImportInv'
    BY <1>2, AddDebtKeepsImports DEF ImportInv, CustomersFit, I!AddDebt
  <1>3. ASSUME NEW i \in Imports, I!StatementFails(i)
        PROVE  ImportInv'
    BY <1>3, FailureKeepsImports DEF ImportInv, CustomersFit, I!StatementFails
  <1> QED
    BY <1>1, <1>2, <1>3, CreateKeepsImports, OthersKeepImports DEF I!Next, Reading

LEMMA IdleImportIsFair ==
  ASSUME NEW customers
  PROVE  Fair(I!Resting, customers)
  BY DEF Fair, ImpFits, Counted, Scoped, I!Resting, I!Tally, Roles

\* An import starts with the team that was authenticated.
LEMMA StartKeepsImports ==
  ASSUME ImportInv, NEW i \in Imports, NEW u, NEW role \in Roles, NEW team, NEW keys, NEW rows,
         I!Start(i, u, role, team, keys, rows)
  PROVE  ImportInv'
  <1> DEFINE seen == {u} \union (IF role = "SUPERVISOR" /\ "customers.view_team" \in keys
                                 THEN team ELSE {})
             assigns == "customers.assign" \in keys
             n == [I!Resting EXCEPT !.at = "row", !.actor = u, !.role = role, !.rows = rows,
                     !.team = seen, !.teams = seen, !.assigns = assigns]
  <1>1. I!Goes(i, n) /\ customer' = customer
    BY DEF I!Start, I!Reads
  <1>3. ImpFits(n) /\ Counted(n) /\ n.team = seen /\ n.touched = {} /\ n.at = "row"
        /\ n.actor = u /\ n.teams = seen
    <2> HIDE DEF seen, assigns
    <2>1. /\ n.at = "row" /\ n.actor = u /\ n.role = role /\ n.team = seen /\ n.teams = seen
          /\ n.row = 1 /\ n.sum = I!Tally /\ n.unsaid = 0 /\ n.touched = {}
          /\ n.stored = [customers |-> 0, debts |-> 0]
      BY DEF I!Resting
    <2>2. DOMAIN n = {"at", "actor", "role", "team", "assigns", "rows", "row", "collector", "on",
                      "sum", "stored", "unsaid", "touched", "teams"}
      BY DEF I!Resting
    <2> HIDE DEF n
    <2> QED
      BY <2>1, <2>2 DEF ImpFits, Counted, I!Tally
  <1> HIDE DEF n, seen
  <1>4. Counted(Joined(n)) /\ Scoped(Joined(n), customer)
    BY <1>3, JoinedFields DEF Counted, Scoped
  <1>5. Fair(Joined(n), customer)
    BY <1>3, <1>4, JoinedFields DEF Fair
  <1> QED
    BY <1>1, <1>3, <1>5, OneGoes DEF ImportInv, CustomersFit

LEMMA KilledKeepsImports ==
  ASSUME ImportInv, I!Killed
  PROVE  ImportInv'
  BY IdleImportIsFair DEF ImportInv, CustomersFit, I!Killed

LEMMA InitImports ==
  ASSUME I!Init
  PROVE  ImportInv
  BY IdleImportIsFair, ImportAssumption DEF ImportInv, CustomersFit, I!Init, I!ImportConstants

LEMMA ImportInvSays ==
  ASSUME ImportInv
  PROVE  I!ReportIsTrue /\ I!ImportStaysInScope
  BY DEF ImportInv, Fair, Counted, Scoped, ImpFits, I!ReportIsTrue, I!ImportStaysInScope

-----------------------------------------------------------------------------
(* The register of the staff: what a request knows at each of its steps.      *)

PersonFits(p) == DOMAIN p = {"role", "active", "boss", "code", "name"} /\ p.role \in Roles

ReqFits(q) ==
  /\ DOMAIN q = {"at", "plan", "actor", "role", "on", "was", "boss", "code", "seen", "chief",
                 "led", "row", "cache", "team", "keys", "may", "held", "been"}
  /\ q.plan \in Plans

\* The user was active in the role that the request acts with, and what that role
\* always reaches has been noted.
Acting(q) ==
  /\ q.role \in Roles /\ q.role \in q.been
  /\ q.role = "ADMIN" => Users \union {"team", "any"} \subseteq q.may
  /\ q.role = "SUPERVISOR" => "team" \in q.may

\* The request has passed its guards.
Entitled(q) == Acting(q) /\ q.role \in Admitted(q.plan) /\ Permitted(q.plan, q.held)

\* A supervisor acts for his own team.
OwnTeam(q) == q.role = "SUPERVISOR" => q.chief = q.actor

\* The account to be changed is one that the user may change, and a supervisor who
\* is to become an employee led nobody when he was looked at.
Looked(q, accounts) ==
  /\ q.on \in accounts /\ q.on \in q.may /\ q.was \in StaffRoles
  /\ q.plan.role = "EMPLOYEE" /\ q.was = "SUPERVISOR" => q.seen = {}

\* What is known of a request that has passed its guards, by the step it is at.
Ready(q, accounts) ==
  /\ q.at \in {"code", "create"} => q.plan.op = "create"
  /\ q.at = "code" => q.chief = None
  /\ q.at \in {"peek", "read", "fit", "write"} => q.plan.op \in Changes
  /\ q.at \in {"row", "keep", "revive", "raise", "find", "replace", "insert"} => q.plan.op = "import"
  /\ q.at \in {"known", "commit"} => q.plan.op = "users"
  /\ q.at = "chief" =>
       \/ q.plan.op = "create" /\ q.plan.role = "EMPLOYEE" /\ OwnTeam(q)
       \/ /\ q.plan.op \in Changes /\ Looked(q, accounts)
          /\ NextRole(q.plan, q.was) # "SUPERVISOR" /\ q.chief \notin {None, q.on}
  /\ q.at = "create" =>
       IF q.plan.role = "SUPERVISOR" THEN q.role = "ADMIN" /\ q.chief = None
       ELSE q.led /\ OwnTeam(q)
  /\ q.at = "fit" => Looked(q, accounts)
  /\ q.at = "write" =>
       /\ Looked(q, accounts)
       /\ IF NextRole(q.plan, q.was) = "SUPERVISOR" THEN q.chief = None
          ELSE q.led /\ q.chief \notin {None, q.on}
  /\ q.at \in {"keep", "revive", "raise"} => q.role = "ADMIN" /\ q.led
  /\ q.at = "revive" => q.chief \in accounts
  /\ q.at \in {"find", "insert", "replace"} => q.led /\ OwnTeam(q)
  /\ q.at = "replace" => q.on \in accounts /\ q.on \in q.may /\ q.was = "EMPLOYEE"

Placed(q, accounts) ==
  /\ ReqFits(q)
  /\ q.at # "idle" => q.actor \in accounts
  /\ q.at \in {"auth", "judge"} => q.chief = None
  /\ q.at = "judge" => Acting(q)
  /\ q.at \notin {"idle", "auth", "judge"} => Entitled(q) /\ Ready(q, accounts)

PeopleFit == Existing \subseteq Users /\ \A u \in Existing : PersonFits(user[u])

AllPlaced == DOMAIN req = Requests /\ \A r \in Requests : Placed(req[r], Existing)

StaffInv == PeopleFit /\ AllPlaced

LEMMA PermittedMore ==
  ASSUME NEW plan, NEW keys, NEW more, keys \subseteq more, Permitted(plan, keys)
  PROVE  Permitted(plan, more)
  BY DEF Permitted

LEMMA NotingFields ==
  ASSUME NEW q, ReqFits(q)
  PROVE  LET n == Noting(q)
         IN /\ ReqFits(n) /\ n.at = q.at /\ n.plan = q.plan /\ n.actor = q.actor /\ n.role = q.role
            /\ n.on = q.on /\ n.was = q.was /\ n.boss = q.boss /\ n.code = q.code
            /\ n.seen = q.seen /\ n.chief = q.chief /\ n.led = q.led /\ n.row = q.row
            /\ n.cache = q.cache
            /\ n.may = q.may \union Reach(q) /\ n.held = q.held \union Granted(q.role)
            /\ n.been = q.been \union {role \in {user[q.actor].role} : user[q.actor].active}
  BY DEF ReqFits, Noting

\* Rights are only ever added to what has been noted.
LEMMA NotingKeeps ==
  ASSUME NEW q, NEW accounts, Placed(q, accounts)
  PROVE  Placed(Noting(q), accounts)
  <1> DEFINE n == Noting(q)
  <1>1. /\ ReqFits(n) /\ n.at = q.at /\ n.plan = q.plan /\ n.actor = q.actor /\ n.role = q.role
        /\ n.on = q.on /\ n.was = q.was /\ n.boss = q.boss /\ n.code = q.code
        /\ n.seen = q.seen /\ n.chief = q.chief /\ n.led = q.led
        /\ q.may \subseteq n.may /\ q.held \subseteq n.held /\ q.been \subseteq n.been
    BY NotingFields DEF Placed
  <1> HIDE DEF n
  <1>2. Acting(q) => Acting(n)
    BY <1>1 DEF Acting
  <1>3. Entitled(q) => Entitled(n)
    BY <1>1, <1>2, PermittedMore DEF Entitled
  <1>4. Ready(q, accounts) => Ready(n, accounts)
    BY <1>1 DEF Ready, Looked, OwnTeam
  <1>5. Placed(n, accounts)
    BY <1>1, <1>2, <1>3, <1>4 DEF Placed
  <1> QED
    BY <1>5 DEF n

\* Accounts are only ever added.
LEMMA PlacedAmongMore ==
  ASSUME NEW q, NEW accounts, NEW more, accounts \subseteq more, Placed(q, accounts)
  PROVE  Placed(q, more)
  BY DEF Placed, Ready, Looked

LEMMA IdlePlaced ==
  ASSUME NEW accounts
  PROVE  Placed(Idle, accounts) /\ Idle.at = "idle"
  BY ConstantsAssumption DEF Placed, ReqFits, Idle

LEMMA GoesPlaced ==
  ASSUME AllPlaced, NEW r \in Requests, NEW q, Goes(r, q), Placed(Noting(q), Existing'),
         Existing \subseteq Existing'
  PROVE  AllPlaced'
  BY PlacedAmongMore DEF AllPlaced, Goes

LEMMA EndsPlaced ==
  ASSUME AllPlaced, NEW r \in Requests, Ends(r), Existing \subseteq Existing'
  PROVE  AllPlaced'
  BY PlacedAmongMore, IdlePlaced DEF AllPlaced, Ends

\* A request that has passed its guards takes another step of its work.
LEMMA WorkGoesOn ==
  ASSUME AllPlaced, NEW r \in Requests, NEW q, Goes(r, q), Existing \subseteq Existing',
         ReqFits(q), q.at \notin {"idle", "auth", "judge"},
         Entitled(req[r]), q.role = req[r].role, q.plan = req[r].plan,
         q.may = req[r].may, q.held = req[r].held, q.been = req[r].been,
         q.actor = req[r].actor, req[r].actor \in Existing, Ready(Noting(q), Existing')
  PROVE  AllPlaced'
  <1> DEFINE n == Noting(q)
  <1>1. /\ ReqFits(n) /\ n.at = q.at /\ n.plan = q.plan /\ n.role = q.role /\ n.actor = q.actor
        /\ q.may \subseteq n.may /\ q.held \subseteq n.held /\ q.been \subseteq n.been
    BY NotingFields
  <1>2. Ready(n, Existing')
    OBVIOUS
  <1> HIDE DEF n
  <1>3. Entitled(n)
    BY <1>1, PermittedMore DEF Entitled, Acting
  <1>4. Placed(n, Existing')
    BY <1>1, <1>2, <1>3 DEF Placed
  <1> QED
    BY <1>4, GoesPlaced DEF n

\* An import is at its next row, or it has ended.
LEMMA NextRowPlaced ==
  ASSUME AllPlaced, NEW r \in Requests, InRows(r), NextRow(r), Existing \subseteq Existing'
  PROVE  AllPlaced'
  <1>1. CASE Ends(r)
    BY <1>1, EndsPlaced
  <1>2. CASE ~Ends(r)
    <2> DEFINE q == [req[r] EXCEPT !.at = "row", !.row = @ + 1, !.on = None, !.led = FALSE, !.seen = {}]
    <2>1. Goes(r, q)
      BY <1>2 DEF NextRow
    <2>2. Placed(req[r], Existing) /\ req[r].at \in {"row", "keep", "revive", "raise", "find", "replace", "insert"}
      BY DEF AllPlaced, InRows
    <2>3. /\ ReqFits(q) /\ q.at = "row" /\ q.role = req[r].role /\ q.plan = req[r].plan
          /\ q.actor = req[r].actor /\ q.may = req[r].may /\ q.held = req[r].held /\ q.been = req[r].been
      BY <2>2 DEF Placed, ReqFits
    <2>4. Entitled(req[r]) /\ req[r].plan.op = "import" /\ req[r].actor \in Existing
      BY <2>2 DEF Placed, Ready
    <2> HIDE DEF q
    <2>5. Ready(Noting(q), Existing')
      BY <2>3, <2>4, NotingFields DEF Ready
    <2> QED
      BY <2>1, <2>3, <2>4, <2>5, WorkGoesOn
  <1> QED
    BY <1>1, <1>2

-----------------------------------------------------------------------------
(* The steps that only look.                                                 *)

LEMMA ArriveKeepsPlaces ==
  ASSUME StaffInv, NEW r \in Requests, NEW u \in Existing, NEW p \in Plans, Arrive(r, u, p)
  PROVE  StaffInv'
  <1> DEFINE q == [Idle EXCEPT !.at = "auth", !.actor = u, !.plan = p]
  <1>1. Goes(r, q) /\ user' = user
    BY DEF Arrive
  <1>2. Placed(q, Existing)
    BY DEF Placed, ReqFits, Idle
  <1>3. AllPlaced'
    BY <1>1, <1>2, NotingKeeps, GoesPlaced DEF StaffInv, Existing
  <1> QED
    BY <1>1, <1>3 DEF StaffInv, PeopleFit, Existing

\* A request that checks something goes on, or is refused.
LEMMA CheckPlaced ==
  ASSUME StaffInv, NEW r \in Requests, NEW holds, NEW q, Check(r, holds, q),
         holds => Placed(Noting(q), Existing)
  PROVE  StaffInv'
  <1>1. user' = user
    BY DEF Check, Quiet
  <1>2. AllPlaced'
    <2>1. CASE Ends(r)
      BY <2>1, <1>1, EndsPlaced DEF StaffInv, Existing
    <2>2. CASE Goes(r, q) /\ holds
      <3>1. Placed(Noting(q), Existing')
        BY <2>2, <1>1 DEF Existing
      <3> QED
        BY <2>2, <3>1, <1>1, GoesPlaced DEF StaffInv, Existing
    <2> QED
      BY <2>1, <2>2 DEF Check
  <1> QED
    BY <1>1, <1>2 DEF StaffInv, PeopleFit, Existing

LEMMA AuthenticateKeepsPlaces ==
  ASSUME StaffInv, NEW r \in Requests, Authenticate(r)
  PROVE  StaffInv'
  <1> DEFINE u == user[req[r].actor]
             team == IF req[r].plan.op = "customers"
                     THEN {e \in Team(req[r].actor) : user[e].active} ELSE {}
             q == [req[r] EXCEPT !.at = "judge", !.role = u.role, !.team = team]
             n == Noting(q)
  <1>1. Check(r, u.active, q)
    BY DEF Authenticate
  <1>2. ASSUME u.active
        PROVE  Placed(n, Existing)
    <2>0. ReqFits(req[r]) /\ req[r].actor \in Existing /\ req[r].chief = None
      BY DEF StaffInv, AllPlaced, Placed, Authenticate, At
    <2>1. /\ ReqFits(q) /\ q.at = "judge" /\ q.role = u.role /\ q.actor = req[r].actor
          /\ q.chief = None
      BY <2>0 DEF ReqFits
    <2> HIDE DEF q
    <2>2. /\ ReqFits(n) /\ n.at = "judge" /\ n.role = u.role /\ Reach(q) \subseteq n.may
          /\ u.role \in n.been /\ n.actor = req[r].actor /\ n.chief = None
      BY <2>1, <1>2, NotingFields
    <2>3. u.role \in Roles
      BY <2>0 DEF StaffInv, PeopleFit, PersonFits
    <2>4. Acting(n)
      BY <2>1, <2>2, <2>3 DEF Acting, Reach
    <2> QED
      BY <2>0, <2>2, <2>4 DEF Placed
  <1> QED
    BY <1>1, <1>2, CheckPlaced

\* The first step of each kind of request.
Entry(plan) ==
  CASE plan.op = "create" -> "code"
    [] plan.op = "deactivate" -> "peek"
    [] plan.op \in {"update", "activate"} -> "read"
    [] plan.op = "import" -> "row"
    [] plan.op = "users" -> "known"
    [] plan.op = "customers" -> "upload"
    [] OTHER -> "choose"

LEMMA EntryOf ==
  ASSUME NEW p \in Plans
  PROVE  /\ Entry(p) = "code" => p.op = "create"
         /\ Entry(p) \in {"peek", "read"} => p.op \in Changes
         /\ Entry(p) = "row" => p.op = "import"
         /\ Entry(p) = "known" => p.op = "users"
         /\ Entry(p) \in {"code", "peek", "read", "row", "known", "upload", "choose"}
  BY DEF Entry, Changes

LEMMA JudgeKeepsPlaces ==
  ASSUME StaffInv, NEW r \in Requests, Judge(r)
  PROVE  StaffInv'
  <1> DEFINE o == req[r]
             holds == o.role \in Admitted(o.plan) /\ Permitted(o.plan, Granted(o.role))
             keys == IF o.plan.op = "customers" THEN Granted(o.role) ELSE {}
             q == [o EXCEPT !.at = Entry(o.plan), !.keys = keys]
             n == Noting(q)
  <1>1. o.at = "judge" /\ Check(r, holds, q)
    BY DEF Judge, At, Entry
  <1>2. ASSUME holds
        PROVE  Placed(n, Existing)
    <2>1. ReqFits(o) /\ Acting(o) /\ o.actor \in Existing /\ o.chief = None
      BY <1>1 DEF StaffInv, AllPlaced, Placed
    <2>2. /\ ReqFits(q) /\ q.at = Entry(o.plan) /\ q.role = o.role /\ q.plan = o.plan
          /\ q.may = o.may /\ q.held = o.held /\ q.been = o.been /\ q.actor = o.actor
          /\ q.chief = None
      BY <2>1 DEF ReqFits
    <2> HIDE DEF q
    <2>3. /\ ReqFits(n) /\ n.at = Entry(n.plan) /\ n.role = o.role /\ n.plan = o.plan
          /\ n.actor = o.actor /\ n.chief = None
          /\ o.may \subseteq n.may /\ Granted(o.role) \subseteq n.held /\ o.been \subseteq n.been
      BY <2>2, NotingFields
    <2> HIDE DEF n
    <2>4. Entitled(n)
      BY <1>2, <2>1, <2>3, PermittedMore DEF Entitled, Acting
    <2>5. Ready(n, Existing)
      BY <2>3, EntryOf DEF Ready, ReqFits
    <2>6. n.at # "judge"
      BY <2>3, EntryOf DEF ReqFits
    <2>7. n.at # "auth"
      BY <2>3, EntryOf DEF ReqFits
    <2> QED
      BY <2>1, <2>3, <2>4, <2>5, <2>6, <2>7 DEF Placed
  <1> HIDE DEF q
  <1> QED
    BY <1>1, <1>2, CheckPlaced

\* A request that has passed its guards checks something more.
LEMMA WorkChecked ==
  ASSUME StaffInv, NEW r \in Requests, req[r].at \notin {"idle", "auth", "judge"},
         NEW holds, NEW q, Check(r, holds, q),
         holds => /\ ReqFits(q) /\ q.at \notin {"idle", "auth", "judge"}
                  /\ q.role = req[r].role /\ q.plan = req[r].plan /\ q.may = req[r].may
                  /\ q.held = req[r].held /\ q.been = req[r].been /\ q.actor = req[r].actor
                  /\ Ready(Noting(q), Existing)
  PROVE  StaffInv'
  <1>1. Entitled(req[r]) /\ req[r].actor \in Existing
    BY DEF StaffInv, AllPlaced, Placed
  <1>2. ASSUME holds
        PROVE  Placed(Noting(q), Existing)
    <2> DEFINE n == Noting(q)
    <2>1. /\ ReqFits(n) /\ n.at = q.at /\ n.plan = q.plan /\ n.role = q.role /\ n.actor = q.actor
          /\ q.may \subseteq n.may /\ q.held \subseteq n.held /\ q.been \subseteq n.been
      BY <1>2, NotingFields
    <2>2. Ready(n, Existing)
      BY <1>2
    <2> HIDE DEF n
    <2>3. Entitled(n)
      BY <1>1, <1>2, <2>1, PermittedMore DEF Entitled, Acting
    <2>4. Placed(n, Existing)
      BY <1>1, <1>2, <2>1, <2>2, <2>3 DEF Placed
    <2> QED
      BY <2>4 DEF n
  <1> QED
    BY <1>2, CheckPlaced

LEMMA CreationChecksKeepPlaces ==
  ASSUME StaffInv, NEW r \in Requests, CheckNewCode(r)
  PROVE  StaffInv'
  <1> DEFINE o == req[r]
  <1>0. o.at = "code" /\ ReqFits(o) /\ Ready(o, Existing) /\ Entitled(o)
    BY DEF CheckNewCode, At, StaffInv, AllPlaced, Placed
  <1>1. o.plan.op = "create" /\ o.plan.role \in StaffRoles
    BY <1>0, ConstantsAssumption DEF Ready, ReqFits, PlanFits
  <1>2. CASE o.plan.role = "SUPERVISOR"
    <2> DEFINE q == [o EXCEPT !.at = "create"]
    <2>1. Check(r, o.role = "ADMIN", q)
      BY <1>2 DEF CheckNewCode
    <2>2. /\ ReqFits(q) /\ q.at = "create" /\ q.role = o.role /\ q.plan = o.plan
          /\ q.may = o.may /\ q.held = o.held /\ q.been = o.been /\ q.chief = o.chief
          /\ q.actor = o.actor
      BY <1>0 DEF ReqFits
    <2> HIDE DEF q
    <2>3. o.role = "ADMIN" => Ready(Noting(q), Existing)
      BY <2>2, <1>0, <1>1, <1>2, NotingFields DEF Ready
    <2> QED
      BY <2>1, <2>2, <2>3, <1>0, WorkChecked
  <1>3. CASE o.plan.role # "SUPERVISOR"
    <2> DEFINE chief == IF o.role = "SUPERVISOR" THEN o.actor ELSE o.plan.boss
               q == [o EXCEPT !.at = "chief", !.chief = chief]
    <2>1. Check(r, o.plan.code # None /\ Owners(o.plan.code) = {}, q)
      BY <1>3 DEF CheckNewCode
    <2>2. /\ ReqFits(q) /\ q.at = "chief" /\ q.role = o.role /\ q.plan = o.plan /\ q.actor = o.actor
          /\ q.may = o.may /\ q.held = o.held /\ q.been = o.been /\ q.chief = chief
      <3> HIDE DEF chief
      <3> QED
        BY <1>0 DEF ReqFits
    <2> HIDE DEF q
    <2>3. Ready(Noting(q), Existing)
      BY <2>2, <1>1, <1>3, NotingFields DEF Ready, OwnTeam, StaffRoles
    <2> QED
      BY <2>1, <2>2, <2>3, <1>0, WorkChecked
  <1> QED
    BY <1>2, <1>3

LEMMA CheckChiefKeepsPlaces ==
  ASSUME StaffInv, NEW r \in Requests, CheckChief(r)
  PROVE  StaffInv'
  <1> DEFINE o == req[r]
             place == IF o.plan.op = "create" THEN "create" ELSE "write"
             led == Leads(o.chief)
             q == [o EXCEPT !.at = place, !.led = led]
             n == Noting(q)
  <1>0. o.at = "chief" /\ ReqFits(o) /\ Ready(o, Existing) /\ Entitled(o)
    BY DEF CheckChief, At, StaffInv, AllPlaced, Placed
  <1>1. Check(r, LeadsNow(o.chief), q)
    BY DEF CheckChief
  <1>2. LeadsNow(o.chief) => led
    BY DEF LeadsNow
  <1>3. /\ ReqFits(q) /\ q.at = place /\ q.led = led /\ q.role = o.role /\ q.plan = o.plan
        /\ q.actor = o.actor /\ q.may = o.may /\ q.held = o.held /\ q.been = o.been
        /\ q.chief = o.chief /\ q.on = o.on /\ q.was = o.was /\ q.seen = o.seen
    <2> HIDE DEF place, led
    <2> QED
      BY <1>0 DEF ReqFits
  <1> HIDE DEF q, led
  <1>4. /\ n.at = place /\ n.led = led /\ n.role = o.role /\ n.plan = o.plan
        /\ n.actor = o.actor /\ o.may \subseteq n.may
        /\ n.chief = o.chief /\ n.on = o.on /\ n.was = o.was /\ n.seen = o.seen
    BY <1>3, NotingFields
  <1> HIDE DEF n
  <1>5. LeadsNow(o.chief) => Ready(n, Existing)
    BY <1>0, <1>2, <1>4 DEF Ready, OwnTeam, Looked, Changes
  <1> QED
    BY <1>0, <1>1, <1>3, <1>5, WorkChecked DEF n

\* What the user manages, he may change.
LEMMA ManagedMayChange ==
  ASSUME StaffInv, NEW q, ReqFits(q), Acting(q), NEW u, Manages(q, u)
  PROVE  u \in Existing /\ user[u].role \in StaffRoles /\ u \in q.may \union Reach(q)
  BY DEF StaffInv, PeopleFit, PersonFits, Acting, Manages, Reach, Team, Roles, StaffRoles

LEMMA PeekKeepsPlaces ==
  ASSUME StaffInv, NEW r \in Requests, Peek(r)
  PROVE  StaffInv'
  <1> DEFINE o == req[r]
             q == [o EXCEPT !.at = "read"]
  <1>0. o.at = "peek" /\ ReqFits(o) /\ Ready(o, Existing)
    BY DEF Peek, At, StaffInv, AllPlaced, Placed
  <1>1. Check(r, Manages(o, o.plan.on), q)
    BY DEF Peek
  <1>2. /\ ReqFits(q) /\ q.at = "read" /\ q.role = o.role /\ q.plan = o.plan
        /\ q.actor = o.actor /\ q.may = o.may /\ q.held = o.held /\ q.been = o.been
    BY <1>0 DEF ReqFits
  <1> HIDE DEF q
  <1>3. Ready(Noting(q), Existing)
    BY <1>0, <1>2, NotingFields DEF Ready
  <1> QED
    BY <1>0, <1>1, <1>2, <1>3, WorkChecked

\* What Found notes of the account.
LEMMA FoundFields ==
  ASSUME NEW q, ReqFits(q), NEW u
  PROVE  LET f == Found(q, u)
         IN /\ ReqFits(f) /\ f.role = q.role /\ f.plan = q.plan /\ f.actor = q.actor
            /\ f.may = q.may /\ f.held = q.held /\ f.been = q.been /\ f.chief = q.chief
            /\ f.led = q.led /\ f.on = u /\ f.was = user[u].role /\ f.seen = Reports(u)
  BY DEF ReqFits, Found

LEMMA ReadKeepsPlaces ==
  ASSUME StaffInv, NEW r \in Requests, Read(r)
  PROVE  StaffInv'
  <1> DEFINE o == req[r]
             u == o.plan.on
             holds == /\ Manages(o, u)
                      /\ o.role = "SUPERVISOR" =>
                           o.plan.role \in {"EMPLOYEE", Same} /\ o.plan.boss \in {o.actor, Same}
                      /\ o.plan.role = "EMPLOYEE" /\ user[u].role = "SUPERVISOR" => Reports(u) = {}
             q == [Found(o, u) EXCEPT !.at = "fit"]
             n == Noting(q)
  <1>0. o.at = "read" /\ ReqFits(o) /\ Ready(o, Existing) /\ Acting(o)
    BY DEF Read, At, StaffInv, AllPlaced, Placed, Entitled
  <1>1. Check(r, holds, q)
    BY DEF Read
  <1>2. /\ ReqFits(q) /\ q.at = "fit" /\ q.role = o.role /\ q.plan = o.plan
        /\ q.actor = o.actor /\ q.may = o.may /\ q.held = o.held /\ q.been = o.been
        /\ q.on = u /\ q.was = user[u].role /\ q.seen = Reports(u)
    <2> DEFINE f == Found(o, u)
    <2>1. /\ ReqFits(f) /\ f.role = o.role /\ f.plan = o.plan
          /\ f.actor = o.actor /\ f.may = o.may /\ f.held = o.held /\ f.been = o.been
          /\ f.on = u /\ f.was = user[u].role /\ f.seen = Reports(u)
      BY <1>0, FoundFields
    <2>2. q = [f EXCEPT !.at = "fit"]
      OBVIOUS
    <2> HIDE DEF f, q
    <2> QED
      BY <2>1, <2>2 DEF ReqFits
  <1> HIDE DEF q
  <1>3. /\ n.at = "fit" /\ n.role = o.role /\ n.plan = o.plan /\ n.may = o.may \union Reach(q)
        /\ n.on = u /\ n.was = user[u].role /\ n.seen = Reports(u)
    BY <1>2, NotingFields
  <1>4. Reach(q) = Reach(o)
    BY <1>2 DEF Reach
  <1> HIDE DEF n
  <1>5. ASSUME holds
        PROVE  Ready(n, Existing)
    <2>1. u \in Existing /\ user[u].role \in StaffRoles /\ u \in n.may
      BY <1>0, <1>3, <1>4, <1>5, ManagedMayChange
    <2>2. Looked(n, Existing)
      BY <1>3, <1>5, <2>1 DEF Looked
    <2>3. n.plan.op \in Changes
      BY <1>0, <1>3 DEF Ready
    <2> QED
      BY <1>3, <2>2, <2>3 DEF Ready
  <1> HIDE DEF holds
  <1> QED
    BY <1>0, <1>1, <1>2, <1>5, WorkChecked DEF n

LEMMA FitKeepsPlaces ==
  ASSUME StaffInv, NEW r \in Requests, Fit(r)
  PROVE  StaffInv'
  <1> DEFINE o == req[r]
             code == IF o.plan.code = Same THEN o.code ELSE o.plan.code
             chief == IF o.plan.boss = Same THEN o.boss ELSE o.plan.boss
  <1>0. o.at = "fit" /\ ReqFits(o) /\ Looked(o, Existing) /\ o.plan.op \in Changes
    BY DEF Fit, At, StaffInv, AllPlaced, Placed, Ready
  <1>1. CASE NextRole(o.plan, o.was) = "SUPERVISOR"
    <2> DEFINE q == [o EXCEPT !.at = "write", !.code = None, !.chief = None]
               n == Noting(q)
    <2>1. Check(r, TRUE, q)
      BY <1>1 DEF Fit
    <2>2. /\ ReqFits(q) /\ q.at = "write" /\ q.role = o.role /\ q.plan = o.plan
          /\ q.actor = o.actor /\ q.may = o.may /\ q.held = o.held /\ q.been = o.been
          /\ q.on = o.on /\ q.was = o.was /\ q.seen = o.seen /\ q.chief = None
      BY <1>0 DEF ReqFits
    <2> HIDE DEF q
    <2>3. /\ n.at = "write" /\ n.plan = o.plan /\ o.may \subseteq n.may
          /\ n.on = o.on /\ n.was = o.was /\ n.seen = o.seen /\ n.chief = None
      BY <2>2, NotingFields
    <2> HIDE DEF n
    <2>4. Ready(n, Existing)
      BY <2>3, <1>0, <1>1 DEF Ready, Looked
    <2> QED
      BY <2>1, <2>2, <2>4, <1>0, WorkChecked DEF n
  <1>2. CASE NextRole(o.plan, o.was) # "SUPERVISOR"
    <2> DEFINE q == [o EXCEPT !.at = "chief", !.code = code, !.chief = chief]
               n == Noting(q)
    <2>1. Check(r, code # None /\ CodeFree(o.on, code) /\ chief \notin {None, o.on}, q)
      BY <1>2 DEF Fit
    <2> HIDE DEF code, chief
    <2>2. /\ ReqFits(q) /\ q.at = "chief" /\ q.role = o.role /\ q.plan = o.plan
          /\ q.actor = o.actor /\ q.may = o.may /\ q.held = o.held /\ q.been = o.been
          /\ q.on = o.on /\ q.was = o.was /\ q.seen = o.seen /\ q.chief = chief
      BY <1>0 DEF ReqFits
    <2> HIDE DEF q
    <2>3. /\ n.at = "chief" /\ n.plan = o.plan /\ o.may \subseteq n.may
          /\ n.on = o.on /\ n.was = o.was /\ n.seen = o.seen /\ n.chief = chief
      BY <2>2, NotingFields
    <2> HIDE DEF n
    <2>4. chief \notin {None, o.on} => Ready(n, Existing)
      BY <2>3, <1>0, <1>2 DEF Ready, Looked
    <2> QED
      BY <2>1, <2>2, <2>4, <1>0, WorkChecked DEF n
  <1> QED
    BY <1>1, <1>2

\* A step of an import within a row, from what is known of the request to q.
LEMMA RowStep ==
  ASSUME StaffInv, NEW r \in Requests, InRows(r), NEW q, Goes(r, q), user' = user,
         ReqFits(q), q.at \in {"keep", "revive", "raise", "find", "insert", "replace"},
         q.role = req[r].role, q.plan = req[r].plan, q.actor = req[r].actor,
         q.may = req[r].may, q.held = req[r].held, q.been = req[r].been,
         q.at \in {"keep", "revive", "raise"} => q.role = "ADMIN" /\ q.led,
         q.at = "revive" => q.chief \in Existing,
         q.at \in {"find", "insert", "replace"} => q.led /\ OwnTeam(q),
         q.at = "replace" => q.on \in Existing /\ q.on \in q.may \union Reach(q) /\ q.was = "EMPLOYEE"
  PROVE  StaffInv'
  <1> DEFINE n == Noting(q)
  <1>1. /\ Placed(req[r], Existing)
        /\ req[r].at \in {"row", "keep", "revive", "raise", "find", "replace", "insert"}
    BY DEF StaffInv, AllPlaced, InRows
  <1>2. Entitled(req[r]) /\ req[r].actor \in Existing /\ req[r].plan.op = "import"
    BY <1>1 DEF Placed, Ready
  <1>3. /\ n.at = q.at /\ n.role = q.role /\ n.plan = q.plan /\ n.actor = q.actor
        /\ n.chief = q.chief /\ n.led = q.led /\ n.on = q.on /\ n.was = q.was
        /\ n.may = q.may \union Reach(q)
    BY NotingFields
  <1> HIDE DEF n
  <1>4. Ready(n, Existing)
    BY <1>2, <1>3 DEF Ready, OwnTeam
  <1>5. AllPlaced'
    BY <1>2, <1>4, WorkGoesOn DEF n, StaffInv, Existing
  <1> QED
    BY <1>5 DEF StaffInv, PeopleFit, Existing

LEMMA FindChiefKeepsPlaces ==
  ASSUME StaffInv, NEW r \in Requests, FindChief(r)
  PROVE  StaffInv'
  <1> DEFINE o == req[r]
  <1>0. /\ InRows(r) /\ ReqFits(o) /\ Acting(o) /\ Entitled(o) /\ o.plan.op = "import" /\ user' = user
    BY DEF FindChief, At, InRows, StaffInv, AllPlaced, Placed, Entitled, Ready, Quiet
  <1>1. o.role \in {"ADMIN", "SUPERVISOR"}
    BY <1>0 DEF Entitled, Admitted
  <1>2. CASE NextRow(r)
    BY <1>2, <1>0, NextRowPlaced DEF StaffInv, PeopleFit, Existing
  <1>3. CASE ~NextRow(r)
    <2>1. PICK place, u : /\ Goes(r, [o EXCEPT !.at = place, !.chief = u, !.led = TRUE])
                          /\ \/ place = "find" /\ (o.role = "SUPERVISOR" => u = o.actor)
                             \/ place \in {"raise", "keep"} /\ o.role # "SUPERVISOR"
                             \/ place = "revive" /\ o.role # "SUPERVISOR" /\ u \in Existing
      BY <1>3 DEF FindChief, Named
    <2> DEFINE q == [o EXCEPT !.at = place, !.chief = u, !.led = TRUE]
    <2>2. /\ ReqFits(q) /\ q.at = place /\ q.chief = u /\ q.led = TRUE /\ q.role = o.role
          /\ q.plan = o.plan /\ q.actor = o.actor /\ q.may = o.may /\ q.held = o.held /\ q.been = o.been
      BY <1>0 DEF ReqFits
    <2>3. Goes(r, q)
      BY <2>1
    <2> HIDE DEF q
    <2>4. OwnTeam(q) \/ place \notin {"find", "insert", "replace"}
      BY <2>1, <2>2 DEF OwnTeam
    <2> QED
      BY <2>1, <2>2, <2>3, <2>4, <1>0, <1>1, RowStep
  <1> QED
    BY <1>2, <1>3

\* The supervisor of a name is remembered: only an administrator looks him up.
LEMMA RememberPlaced ==
  ASSUME AllPlaced, NEW r \in Requests, NEW u, Remember(r, u),
         req[r].at \in {"keep", "revive", "raise"}, Existing \subseteq Existing'
  PROVE  AllPlaced'
  <1> DEFINE o == req[r]
             cache == [k \in DOMAIN o.cache \union {KeyOf[Row(o).name]} |->
                         IF k = KeyOf[Row(o).name] THEN u ELSE o.cache[k]]
             q == [o EXCEPT !.at = "find", !.chief = u, !.cache = cache]
             n == Noting(q)
  <1>0. /\ ReqFits(o) /\ Entitled(o) /\ o.plan.op = "import" /\ o.role = "ADMIN" /\ o.led
        /\ o.actor \in Existing
    BY DEF AllPlaced, Placed, Ready
  <1>1. Goes(r, q)
    BY DEF Remember
  <1> HIDE DEF cache
  <1>2. /\ ReqFits(q) /\ q.at = "find" /\ q.led = o.led /\ q.role = o.role
        /\ q.plan = o.plan /\ q.actor = o.actor /\ q.may = o.may /\ q.held = o.held /\ q.been = o.been
    BY <1>0 DEF ReqFits
  <1> HIDE DEF q
  <1>3. n.at = "find" /\ n.role = "ADMIN" /\ n.led = o.led /\ n.plan = o.plan
    BY <1>0, <1>2, NotingFields
  <1> HIDE DEF n
  <1>4. Ready(n, Existing')
    BY <1>0, <1>3 DEF Ready, OwnTeam
  <1> QED
    BY <1>0, <1>1, <1>2, <1>4, WorkGoesOn DEF n

LEMMA KeepKeepsPlaces ==
  ASSUME StaffInv, NEW r \in Requests, Keep(r)
  PROVE  StaffInv'
  BY RememberPlaced DEF Keep, At, Quiet, StaffInv, PeopleFit, Existing

LEMMA FindCodeKeepsPlaces ==
  ASSUME StaffInv, NEW r \in Requests, FindCode(r)
  PROVE  StaffInv'
  <1> DEFINE o == req[r]
  <1>0. /\ InRows(r) /\ ReqFits(o) /\ Acting(o) /\ Entitled(o) /\ o.plan.op = "import"
        /\ o.led /\ OwnTeam(o) /\ user' = user
    BY DEF FindCode, At, InRows, StaffInv, AllPlaced, Placed, Entitled, Ready, Quiet
  <1>1. o.role \in {"ADMIN", "SUPERVISOR"}
    BY <1>0 DEF Entitled, Admitted
  <1>2. CASE NextRow(r)
    BY <1>2, <1>0, NextRowPlaced DEF StaffInv, PeopleFit, Existing
  <1>3. CASE Goes(r, [o EXCEPT !.at = "insert"])
    <2> DEFINE q == [o EXCEPT !.at = "insert"]
    <2>1. /\ ReqFits(q) /\ q.at = "insert" /\ q.chief = o.chief /\ q.led = o.led /\ q.role = o.role
          /\ q.plan = o.plan /\ q.actor = o.actor /\ q.may = o.may /\ q.held = o.held /\ q.been = o.been
      BY <1>0 DEF ReqFits
    <2>2. Goes(r, q)
      BY <1>3
    <2> HIDE DEF q
    <2> QED
      BY <2>1, <2>2, <1>0, RowStep DEF OwnTeam
  <1>4. ASSUME NEW u \in Owners(Row(o).code), user[u].role = "EMPLOYEE",
               o.role = "SUPERVISOR" => user[u].boss = o.actor,
               Goes(r, [Found(o, u) EXCEPT !.at = "replace"])
        PROVE  StaffInv'
    <2> DEFINE q == [Found(o, u) EXCEPT !.at = "replace"]
    <2>1. /\ ReqFits(q) /\ q.at = "replace" /\ q.chief = o.chief /\ q.led = o.led /\ q.role = o.role
          /\ q.plan = o.plan /\ q.actor = o.actor /\ q.may = o.may /\ q.held = o.held /\ q.been = o.been
          /\ q.on = u /\ q.was = "EMPLOYEE"
      <3> DEFINE f == Found(o, u)
      <3>1. /\ ReqFits(f) /\ f.chief = o.chief /\ f.led = o.led /\ f.role = o.role
            /\ f.plan = o.plan /\ f.actor = o.actor /\ f.may = o.may /\ f.held = o.held /\ f.been = o.been
            /\ f.on = u /\ f.was = user[u].role
        <4>1. ReqFits(o)
          BY <1>0
        <4> QED
          BY <4>1, FoundFields
      <3>2. q = [f EXCEPT !.at = "replace"]
        OBVIOUS
      <3> HIDE DEF f, q
      <3> QED
        BY <1>4, <3>1, <3>2 DEF ReqFits
    <2>2. Goes(r, q)
      BY <1>4
    <2> HIDE DEF q
    <2>3. u \in Existing /\ u \in q.may \union Reach(q)
      BY <1>0, <1>1, <1>4, <2>1 DEF Owners, Reach, Team, Acting, StaffInv, PeopleFit
    <2> QED
      BY <2>1, <2>2, <2>3, <1>0, RowStep DEF OwnTeam
  <1> QED
    BY <1>2, <1>3, <1>4 DEF FindCode

LEMMA KnownCodesKeepsPlaces ==
  ASSUME StaffInv, NEW r \in Requests, KnownCodes(r)
  PROVE  StaffInv'
  <1> DEFINE o == req[r]
             seen == {c \in o.plan.codes : Owners(c) = {}}
             led == o.role = "SUPERVISOR"
             q == [o EXCEPT !.at = "commit", !.seen = seen, !.led = led]
             n == Noting(q)
  <1>0. /\ ReqFits(o) /\ Entitled(o) /\ o.plan.op = "users" /\ o.actor \in Existing
    BY DEF KnownCodes, At, StaffInv, AllPlaced, Placed, Ready
  <1>1. Goes(r, q) /\ user' = user
    BY DEF KnownCodes, Quiet
  <1> HIDE DEF seen, led
  <1>2. /\ ReqFits(q) /\ q.at = "commit" /\ q.role = o.role /\ q.plan = o.plan
        /\ q.actor = o.actor /\ q.may = o.may /\ q.held = o.held /\ q.been = o.been
    BY <1>0 DEF ReqFits
  <1> HIDE DEF q
  <1>3. n.at = "commit" /\ n.plan = o.plan
    BY <1>2, NotingFields
  <1> HIDE DEF n
  <1>4. Ready(n, Existing)
    BY <1>0, <1>3 DEF Ready
  <1>5. AllPlaced'
    BY <1>0, <1>1, <1>2, <1>4, WorkGoesOn DEF n, StaffInv, Existing
  <1> QED
    BY <1>1, <1>5 DEF StaffInv, PeopleFit, Existing

-----------------------------------------------------------------------------
(* The steps that write accounts.                                            *)

StaffSafe == StaffInv /\ TeamIsLed /\ ChangesAreDue

LEMMA StoreWrites ==
  ASSUME PeopleFit, NEW r, NEW u \in Users, NEW account, PersonFits(account), Store(r, u, account)
  PROVE  /\ PeopleFit' /\ Existing' = Existing \union {u} /\ user'[u] = account
         /\ \A x \in Existing : x # u => user'[x] = user[x]
         /\ raced' = (raced \ {u}) \union Overtaken(r, u, account)
  BY DEF Store, PeopleFit, Existing

\* A write that was not overtaken leaves a chart: the account has a supervisor only
\* as an employee and after that one was found to be a supervisor, and a supervisor
\* becomes an employee only if he led nobody when he was looked at.
LEMMA StoreKeepsChart ==
  ASSUME PeopleFit, TeamIsLed, NEW r, NEW u \in Users, NEW account, PersonFits(account),
         Store(r, u, account),
         account.boss # None /\ (u \in Existing => user[u].role = req[r].was) =>
           /\ account.role = "EMPLOYEE" /\ req[r].led
           /\ Leads(account.boss) => account.boss # u,
         Leads(u) /\ account.role # "SUPERVISOR" =>
           /\ account.role = "EMPLOYEE"
           /\ req[r].was = "SUPERVISOR" => req[r].seen = {}
  PROVE  TeamIsLed'
  <1>1. /\ Existing' = Existing \union {u} /\ user'[u] = account
        /\ \A x \in Existing : x # u => user'[x] = user[x]
        /\ raced' = (raced \ {u}) \union Overtaken(r, u, account)
    BY StoreWrites
  <1>2. ASSUME NEW x \in Existing', x \notin raced', user'[x].boss # None
        PROVE  /\ user'[x].role = "EMPLOYEE" /\ user'[x].boss \in Existing'
               /\ user'[user'[x].boss].role = "SUPERVISOR"
    <2>1. CASE x = u
      <3>1. ~(u \in Existing /\ user[u].role # req[r].was)
        BY <1>1, <1>2, <2>1 DEF Overtaken
      <3>2. account.role = "EMPLOYEE" /\ req[r].led
        BY <1>1, <1>2, <2>1, <3>1
      <3>3. ~(req[r].led /\ ~Leads(account.boss))
        BY <1>1, <1>2, <2>1 DEF Overtaken
      <3>4. Leads(account.boss)
        BY <3>2, <3>3
      <3>5. account.boss # u
        BY <1>1, <1>2, <2>1, <3>1, <3>4
      <3> QED
        BY <1>1, <2>1, <3>2, <3>4, <3>5 DEF Leads, Existing
    <2>2. CASE x # u
      <3> DEFINE b == user[x].boss
      <3>1. x \in Existing \ raced /\ user'[x] = user[x] /\ b # None
        BY <1>1, <1>2, <2>2
      <3>2. user[x].role = "EMPLOYEE" /\ Leads(b)
        BY <3>1 DEF TeamIsLed
      <3>3. CASE b = u /\ account.role # "SUPERVISOR"
        <4>1. account.role = "EMPLOYEE" /\ x \in Reports(u) /\ u \in Existing
          BY <3>1, <3>2, <3>3 DEF Reports, Leads
        <4>2. x \notin Overtaken(r, u, account)
          BY <1>1, <1>2
        <4>3. x \in req[r].seen /\ user[u].role = req[r].was
          BY <4>1, <4>2 DEF Overtaken
        <4> QED
          BY <3>2, <3>3, <4>3 DEF Leads
      <3>4. CASE ~(b = u /\ account.role # "SUPERVISOR")
        BY <1>1, <3>1, <3>2, <3>4 DEF Leads, Existing
      <3> QED
        BY <3>3, <3>4
    <2> QED
      BY <2>1, <2>2
  <1> QED
    BY <1>2 DEF TeamIsLed, Leads, Existing

\* What a request changes within the rights that have been noted is due.
LEMMA ChargeDue ==
  ASSUME ChangesAreDue, NEW r, NEW changed, Charge(r, changed), ReqFits(req[r]), Entitled(req[r]),
         changed \subseteq req[r].may
  PROVE  ChangesAreDue'
  <1> DEFINE n == Noting(req[r])
  <1>1. /\ n.plan = req[r].plan /\ n.role = req[r].role /\ req[r].may \subseteq n.may
        /\ req[r].held \subseteq n.held /\ req[r].been \subseteq n.been
    BY NotingFields
  <1>2. unduly' = unduly \union (IF n.role \in n.been /\ Permitted(n.plan, n.held)
                                THEN changed \ n.may ELSE changed)
    BY DEF Charge
  <1> HIDE DEF n
  <1>3. n.role \in n.been /\ Permitted(n.plan, n.held)
    BY <1>1, PermittedMore DEF Entitled, Acting
  <1> QED
    BY <1>1, <1>2, <1>3 DEF ChangesAreDue

LEMMA QuietIsSafe ==
  ASSUME StaffSafe, StaffInv', user' = user, raced' = raced, unduly' = unduly
  PROVE  StaffSafe'
  BY DEF StaffSafe, TeamIsLed, ChangesAreDue, Existing, Leads

\* Who has passed the guards of a creation or an import leads, or administers.
LEMMA LeaderOrAdmin ==
  ASSUME NEW q, Entitled(q), q.plan.op \in {"create", "import", "users"}
  PROVE  /\ q.role = "ADMIN" => Users \union {"team", "any"} \subseteq q.may
         /\ q.role # "ADMIN" => q.role = "SUPERVISOR" /\ "team" \in q.may
         /\ q.plan.op = "users" /\ q.plan.role = "SUPERVISOR" => q.role = "ADMIN"
  BY DEF Entitled, Acting, Admitted

LEMMA CreateIsSafe ==
  ASSUME StaffSafe, NEW r \in Requests, Create(r)
  PROVE  StaffSafe'
  <1> DEFINE q == req[r]
             account == [role |-> q.plan.role, active |-> q.plan.active # "off",
                         name |-> q.plan.name, boss |-> q.chief,
                         code |-> IF q.plan.role = "SUPERVISOR" THEN None ELSE q.plan.code]
  <1>0. /\ ReqFits(q) /\ Entitled(q) /\ Ready(q, Existing) /\ q.at = "create" /\ q.plan.op = "create"
        /\ Ends(r)
    BY DEF Create, At, StaffSafe, StaffInv, AllPlaced, Placed, Ready
  <1>1. q.plan.role \in StaffRoles
    BY <1>0, ConstantsAssumption DEF ReqFits, PlanFits
  <1>2. CASE Quiet
    <2>1. AllPlaced'
      BY <1>0, <1>2, EndsPlaced DEF StaffSafe, StaffInv, Quiet, Existing
    <2> QED
      BY <1>2, <2>1, QuietIsSafe DEF StaffSafe, StaffInv, PeopleFit, Quiet, Existing
  <1>3. ASSUME NEW u \in Users \ Existing, Store(r, u, account),
               Charge(r, {IF account.boss = q.actor THEN "team" ELSE "any"})
        PROVE  StaffSafe'
    <2>1. PersonFits(account) /\ account.role = q.plan.role /\ account.boss = q.chief
      BY <1>1 DEF PersonFits, Roles, StaffRoles
    <2> HIDE DEF account
    <2>2. PeopleFit' /\ Existing \subseteq Existing'
      BY <1>3, <2>1, StoreWrites DEF StaffSafe, StaffInv
    <2>3. AllPlaced'
      BY <1>0, <2>2, EndsPlaced DEF StaffSafe, StaffInv
    <2>4. TeamIsLed'
      <3>1. account.boss # None => account.role = "EMPLOYEE" /\ q.led
        BY <1>0, <1>1, <2>1 DEF Ready, StaffRoles
      <3>2. ~Leads(u) /\ (Leads(account.boss) => account.boss # u)
        BY <1>3 DEF Leads
      <3> QED
        BY <1>3, <2>1, <3>1, <3>2, StoreKeepsChart DEF StaffSafe, StaffInv
    <2>5. ChangesAreDue'
      <3>1. {IF account.boss = q.actor THEN "team" ELSE "any"} \subseteq q.may
        BY <1>0, <2>1, LeaderOrAdmin DEF Ready, OwnTeam
      <3> QED
        BY <1>0, <1>3, <3>1, ChargeDue DEF StaffSafe
    <2> QED
      BY <2>2, <2>3, <2>4, <2>5 DEF StaffSafe, StaffInv
  <1> QED
    BY <1>2, <1>3 DEF Create

LEMMA WriteIsSafe ==
  ASSUME StaffSafe, NEW r \in Requests, Write(r)
  PROVE  StaffSafe'
  <1> DEFINE q == req[r]
             role == IF q.plan.role = Same THEN user[q.on].role ELSE q.plan.role
             active == IF q.plan.active = Same THEN user[q.on].active ELSE q.plan.active = "on"
             account == [user[q.on] EXCEPT !.code = q.code, !.boss = q.chief,
                           !.role = role, !.active = active]
  <1>0. /\ ReqFits(q) /\ Entitled(q) /\ Ready(q, Existing) /\ q.at = "write" /\ Looked(q, Existing)
        /\ q.plan.op \in Changes /\ Ends(r)
    BY DEF Write, At, StaffSafe, StaffInv, AllPlaced, Placed, Ready
  <1>1. q.plan.role \in StaffRoles \union {Same} /\ q.on \in Existing /\ q.on \in Users
    BY <1>0, ConstantsAssumption DEF ReqFits, PlanFits, Looked, StaffSafe, StaffInv, PeopleFit
  <1>2. CASE Quiet
    <2>1. AllPlaced'
      BY <1>0, <1>2, EndsPlaced DEF StaffSafe, StaffInv, Quiet, Existing
    <2> QED
      BY <1>2, <2>1, QuietIsSafe DEF StaffSafe, StaffInv, PeopleFit, Quiet, Existing
  <1>3. CASE ~Quiet
    <2>1. Store(r, q.on, account) /\ Charge(r, {q.on})
      BY <1>3 DEF Write
    <2>2. PersonFits(account) /\ account.role = role /\ account.boss = q.chief
      <3>1. PersonFits(user[q.on])
        BY <1>1 DEF StaffSafe, StaffInv, PeopleFit
      <3>2. role \in Roles
        BY <1>1, <3>1 DEF PersonFits, Roles, StaffRoles
      <3> HIDE DEF role, active
      <3> QED
        BY <3>1, <3>2 DEF PersonFits
    <2> HIDE DEF account
    <2>3. PeopleFit' /\ Existing \subseteq Existing'
      BY <1>1, <2>1, <2>2, StoreWrites DEF StaffSafe, StaffInv
    <2>4. AllPlaced'
      BY <1>0, <2>3, EndsPlaced DEF StaffSafe, StaffInv
    <2>5. TeamIsLed'
      <3>1. user[q.on].role = q.was => role = NextRole(q.plan, q.was)
        BY DEF NextRole
      <3>2. NextRole(q.plan, q.was) \in StaffRoles
        BY <1>0, <1>1 DEF NextRole, Looked
      <3>3. account.boss # None /\ user[q.on].role = q.was =>
              account.role = "EMPLOYEE" /\ q.led /\ account.boss # q.on
        BY <1>0, <2>2, <3>1, <3>2 DEF Ready, StaffRoles
      <3>4. ASSUME Leads(q.on), account.role # "SUPERVISOR"
            PROVE  account.role = "EMPLOYEE" /\ (q.was = "SUPERVISOR" => q.seen = {})
        BY <1>0, <1>1, <2>2, <3>4 DEF Leads, Looked, StaffRoles
      <3> QED
        BY <1>1, <2>1, <2>2, <3>3, <3>4, StoreKeepsChart DEF StaffSafe, StaffInv
    <2>6. ChangesAreDue'
      BY <1>0, <2>1, ChargeDue DEF StaffSafe, Looked
    <2> QED
      BY <2>3, <2>4, <2>5, <2>6 DEF StaffSafe, StaffInv
  <1> QED
    BY <1>2, <1>3

LEMMA KeepIsSafe ==
  ASSUME StaffSafe, NEW r \in Requests, Keep(r)
  PROVE  StaffSafe'
  BY KeepKeepsPlaces, QuietIsSafe DEF Keep, Quiet, StaffSafe

LEMMA ReviveIsSafe ==
  ASSUME StaffSafe, NEW r \in Requests, Revive(r)
  PROVE  StaffSafe'
  <1> DEFINE q == req[r]
             u == q.chief
  <1>0. /\ ReqFits(q) /\ Entitled(q) /\ q.plan.op = "import" /\ q.at = "revive" /\ q.role = "ADMIN"
        /\ u \in Existing
    BY DEF Revive, At, StaffSafe, StaffInv, AllPlaced, Placed, Ready
  <1>1. user' = [user EXCEPT ![u].active = TRUE] /\ raced' = raced /\ Charge(r, {u}) /\ Remember(r, u)
    BY DEF Revive
  <1>2. /\ Existing' = Existing
        /\ \A x \in Existing : /\ PersonFits(user'[x]) /\ user'[x].role = user[x].role
                              /\ user'[x].boss = user[x].boss
    BY <1>0, <1>1 DEF StaffSafe, StaffInv, PeopleFit, PersonFits, Existing
  <1>3. PeopleFit'
    BY <1>2 DEF StaffSafe, StaffInv, PeopleFit
  <1>4. AllPlaced'
    BY <1>0, <1>1, <1>2, RememberPlaced DEF StaffSafe, StaffInv
  <1>5. TeamIsLed'
    BY <1>1, <1>2 DEF StaffSafe, TeamIsLed, Leads, Existing
  <1>6. ChangesAreDue'
    <2>1. {u} \subseteq q.may
      BY <1>0, LeaderOrAdmin DEF StaffSafe, StaffInv, PeopleFit
    <2> QED
      BY <1>0, <1>1, <2>1, ChargeDue DEF StaffSafe
  <1> QED
    BY <1>3, <1>4, <1>5, <1>6 DEF StaffSafe, StaffInv

LEMMA RaiseIsSafe ==
  ASSUME StaffSafe, NEW r \in Requests, Raise(r)
  PROVE  StaffSafe'
  <1> DEFINE q == req[r]
             account == [role |-> "SUPERVISOR", active |-> TRUE, boss |-> None, code |-> None,
                         name |-> Row(q).name]
  <1>0. /\ ReqFits(q) /\ Entitled(q) /\ q.plan.op = "import" /\ q.at = "raise" /\ q.role = "ADMIN"
        /\ InRows(r)
    BY DEF Raise, At, StaffSafe, StaffInv, AllPlaced, Placed, Ready, InRows
  <1>1. CASE NextRow(r) /\ Quiet
    <2>1. AllPlaced'
      BY <1>0, <1>1, NextRowPlaced DEF StaffSafe, StaffInv, Quiet, Existing
    <2> QED
      BY <1>1, <2>1, QuietIsSafe DEF StaffSafe, StaffInv, PeopleFit, Quiet, Existing
  <1>2. ASSUME NEW u \in Users \ Existing, Store(r, u, account), Charge(r, {"any"}), Remember(r, u)
        PROVE  StaffSafe'
    <2>1. PersonFits(account) /\ account.role = "SUPERVISOR" /\ account.boss = None
      BY DEF PersonFits, Roles
    <2> HIDE DEF account
    <2>2. PeopleFit' /\ Existing \subseteq Existing'
      BY <1>2, <2>1, StoreWrites DEF StaffSafe, StaffInv
    <2>3. AllPlaced'
      BY <1>0, <1>2, <2>2, RememberPlaced DEF StaffSafe, StaffInv
    <2>4. TeamIsLed'
      BY <1>2, <2>1, StoreKeepsChart DEF StaffSafe, StaffInv
    <2>5. ChangesAreDue'
      BY <1>0, <1>2, LeaderOrAdmin, ChargeDue DEF StaffSafe
    <2> QED
      BY <2>2, <2>3, <2>4, <2>5 DEF StaffSafe, StaffInv
  <1> QED
    BY <1>1, <1>2 DEF Raise

\* The account that a row of an import stands for.
LEMMA ImportedFields ==
  ASSUME NEW q
  PROVE  PersonFits(Imported(q)) /\ Imported(q).role = "EMPLOYEE" /\ Imported(q).boss = q.chief
  BY DEF PersonFits, Imported, Roles

LEMMA ReplaceIsSafe ==
  ASSUME StaffSafe, NEW r \in Requests, Replace(r)
  PROVE  StaffSafe'
  <1> DEFINE q == req[r]
  <1>0. /\ ReqFits(q) /\ Entitled(q) /\ InRows(r) /\ q.led /\ NextRow(r)
        /\ q.on \in Existing /\ q.on \in q.may /\ q.was = "EMPLOYEE" /\ q.on \in Users
    BY DEF Replace, At, StaffSafe, StaffInv, PeopleFit, AllPlaced, Placed, Ready, InRows
  <1>1. CASE Quiet
    <2>1. AllPlaced'
      BY <1>0, <1>1, NextRowPlaced DEF StaffSafe, StaffInv, Quiet, Existing
    <2> QED
      BY <1>1, <2>1, QuietIsSafe DEF StaffSafe, StaffInv, PeopleFit, Quiet, Existing
  <1>2. CASE ~Quiet
    <2>1. Store(r, q.on, Imported(q)) /\ Charge(r, {q.on})
      BY <1>2 DEF Replace
    <2>2. PeopleFit' /\ Existing \subseteq Existing'
      BY <1>0, <2>1, ImportedFields, StoreWrites DEF StaffSafe, StaffInv
    <2>3. AllPlaced'
      BY <1>0, <2>2, NextRowPlaced DEF StaffSafe, StaffInv
    <2>4. TeamIsLed'
      <3>1. user[q.on].role = q.was /\ Leads(q.chief) => q.chief # q.on
        BY <1>0 DEF Leads
      <3> QED
        BY <1>0, <2>1, <3>1, ImportedFields, StoreKeepsChart DEF StaffSafe, StaffInv
    <2>5. ChangesAreDue'
      BY <1>0, <2>1, ChargeDue DEF StaffSafe
    <2> QED
      BY <2>2, <2>3, <2>4, <2>5 DEF StaffSafe, StaffInv
  <1> QED
    BY <1>1, <1>2

LEMMA InsertIsSafe ==
  ASSUME StaffSafe, NEW r \in Requests, Insert(r)
  PROVE  StaffSafe'
  <1> DEFINE q == req[r]
  <1>0. /\ ReqFits(q) /\ Entitled(q) /\ InRows(r) /\ q.led /\ NextRow(r) /\ q.plan.op = "import"
        /\ OwnTeam(q)
    BY DEF Insert, At, StaffSafe, StaffInv, AllPlaced, Placed, Ready, InRows
  <1>1. CASE Quiet
    <2>1. AllPlaced'
      BY <1>0, <1>1, NextRowPlaced DEF StaffSafe, StaffInv, Quiet, Existing
    <2> QED
      BY <1>1, <2>1, QuietIsSafe DEF StaffSafe, StaffInv, PeopleFit, Quiet, Existing
  <1>2. ASSUME NEW u \in Users \ Existing, Store(r, u, Imported(q)),
               Charge(r, {IF q.chief = q.actor THEN "team" ELSE "any"})
        PROVE  StaffSafe'
    <2>2. PeopleFit' /\ Existing \subseteq Existing'
      BY <1>2, ImportedFields, StoreWrites DEF StaffSafe, StaffInv
    <2>3. AllPlaced'
      BY <1>0, <2>2, NextRowPlaced DEF StaffSafe, StaffInv
    <2>4. TeamIsLed'
      <3>1. ~Leads(u) /\ (Leads(q.chief) => q.chief # u)
        BY <1>2 DEF Leads
      <3> QED
        BY <1>0, <1>2, <3>1, ImportedFields, StoreKeepsChart DEF StaffSafe, StaffInv
    <2>5. ChangesAreDue'
      <3>1. {IF q.chief = q.actor THEN "team" ELSE "any"} \subseteq q.may
        BY <1>0, LeaderOrAdmin DEF OwnTeam
      <3> QED
        BY <1>0, <1>2, <3>1, ChargeDue DEF StaffSafe
    <2> QED
      BY <2>2, <2>3, <2>4, <2>5 DEF StaffSafe, StaffInv
  <1> QED
    BY <1>1, <1>2 DEF Insert

LEMMA CommitIsSafe ==
  ASSUME StaffSafe, NEW r \in Requests, Commit(r)
  PROVE  StaffSafe'
  <1> DEFINE q == req[r]
             boss == IF q.plan.role = "EMPLOYEE" /\ q.role = "SUPERVISOR" THEN q.actor ELSE None
  <1>0. /\ ReqFits(q) /\ Entitled(q) /\ q.plan.op = "users" /\ Ends(r) /\ q.actor \in Existing
        /\ PeopleFit /\ AllPlaced
    BY DEF Commit, At, StaffSafe, StaffInv, AllPlaced, Placed, Ready
  <1>1. q.plan.role \in StaffRoles
    BY <1>0, ConstantsAssumption DEF ReqFits, PlanFits, Changes
  <1>2. CASE Quiet
    <2>1. AllPlaced'
      BY <1>0, <1>2, EndsPlaced DEF Quiet, Existing
    <2> QED
      BY <1>2, <2>1, QuietIsSafe DEF StaffSafe, StaffInv, PeopleFit, Quiet, Existing
  <1>3. CASE ~Quiet
    <2>1. PICK ids \in [q.seen -> Users \ Existing] :
            /\ user' = [u \in Existing \union {ids[c] : c \in q.seen} |->
                          IF u \in Existing THEN user[u]
                          ELSE [role |-> q.plan.role, active |-> TRUE, boss |-> boss,
                                code |-> CHOOSE c \in q.seen : ids[c] = u,
                                name |-> q.plan.name]]
            /\ raced' = IF boss # None /\ ~Leads(boss)
                        THEN raced \union {ids[c] : c \in q.seen} ELSE raced
            /\ Charge(r, IF q.seen = {} THEN {} ELSE {IF boss = None THEN "any" ELSE "team"})
      BY <1>3 DEF Commit
    <2> DEFINE new == {ids[c] : c \in q.seen}
    <2> HIDE DEF boss
    <2>2. /\ Existing' = Existing \union new /\ new \subseteq Users \ Existing
          /\ \A u \in Existing : user'[u] = user[u]
          /\ \A u \in new : PersonFits(user'[u]) /\ user'[u].role = q.plan.role /\ user'[u].boss = boss
      <3>1. new \subseteq Users \ Existing
        BY <2>1
      <3>2. Existing' = Existing \union new /\ \A u \in Existing : user'[u] = user[u]
        BY <2>1 DEF Existing
      <3>3. ASSUME NEW u \in new
            PROVE  PersonFits(user'[u]) /\ user'[u].role = q.plan.role /\ user'[u].boss = boss
        <4>1. user'[u] = [role |-> q.plan.role, active |-> TRUE, boss |-> boss,
                          code |-> CHOOSE c \in q.seen : ids[c] = u, name |-> q.plan.name]
          BY <2>1, <3>1, <3>3
        <4> QED
          BY <4>1, <1>1 DEF PersonFits, Roles, StaffRoles
      <3> QED
        BY <3>1, <3>2, <3>3
    <2> HIDE DEF new
    <2>3. PeopleFit'
      BY <1>0, <2>2 DEF PeopleFit
    <2>4. AllPlaced'
      BY <1>0, <2>2, EndsPlaced
    <2>5. TeamIsLed'
      <3>1. raced \subseteq raced' /\ (boss # None /\ ~Leads(boss) => new \subseteq raced')
        BY <2>1 DEF new
      <3>2. boss # None => q.plan.role = "EMPLOYEE"
        BY DEF boss
      <3> QED
        BY <2>2, <3>1, <3>2 DEF StaffSafe, TeamIsLed, Leads, Existing
    <2>6. ChangesAreDue'
      <3>1. boss = None => q.role = "ADMIN"
        <4>1. q.actor # None
          BY <1>0, ConstantsAssumption DEF PeopleFit
        <4> QED
          BY <1>0, <1>1, <4>1, LeaderOrAdmin DEF boss, StaffRoles
      <3>2. {IF boss = None THEN "any" ELSE "team"} \subseteq q.may
        BY <1>0, <3>1, LeaderOrAdmin
      <3>3. (IF q.seen = {} THEN {} ELSE {IF boss = None THEN "any" ELSE "team"}) \subseteq q.may
        BY <3>2
      <3> QED
        BY <1>0, <2>1, <3>3, ChargeDue DEF StaffSafe
    <2> QED
      BY <2>3, <2>4, <2>5, <2>6 DEF StaffSafe, StaffInv
  <1> QED
    BY <1>2, <1>3

-----------------------------------------------------------------------------
(* The whole.                                                                *)

LEMMA CallFailsIsSafe ==
  ASSUME StaffSafe, NEW r \in Requests, CallFails(r)
  PROVE  StaffSafe'
  <1>1. AllPlaced'
    BY NextRowPlaced, EndsPlaced DEF CallFails, StaffSafe, StaffInv, Existing
  <1> QED
    BY <1>1, QuietIsSafe DEF CallFails, StaffSafe, StaffInv, PeopleFit, Existing

LEMMA ChooseIsSafe ==
  ASSUME StaffSafe, NEW r \in Requests, Choose(r)
  PROVE  StaffSafe'
  <1>1. AllPlaced'
    BY EndsPlaced DEF Choose, StaffSafe, StaffInv, Existing
  <1> QED
    BY <1>1, QuietIsSafe DEF Choose, StaffSafe, StaffInv, PeopleFit, Existing

LEMMA SeedingIsSafe ==
  ASSUME StaffSafe, Seed \/ SeedFails \/ Restart
  PROVE  StaffSafe'
  <1>1. user' = user /\ raced' = raced /\ unduly' = unduly
    BY DEF Seed, SeedFails, Restart
  <1>2. /\ DOMAIN req' = Requests
        /\ \A r \in Requests : req'[r] = Idle \/ req'[r] = req[r]
    <2>1. CASE Seed
      BY <2>1 DEF Seed, StaffSafe, StaffInv, AllPlaced
    <2>2. CASE SeedFails
      BY <2>2 DEF SeedFails
    <2>3. CASE Restart
      BY <2>3 DEF Restart
    <2> QED
      BY <2>1, <2>2, <2>3
  <1>3. AllPlaced'
    BY <1>1, <1>2, IdlePlaced DEF StaffSafe, StaffInv, AllPlaced, Existing
  <1> QED
    BY <1>1, <1>3, QuietIsSafe DEF StaffSafe, StaffInv, PeopleFit, Existing

LEMMA LookingIsSafe ==
  ASSUME StaffSafe, NEW r \in Requests,
         \/ \E u \in Existing, p \in Plans : Arrive(r, u, p)
         \/ Authenticate(r) \/ Judge(r) \/ CheckNewCode(r) \/ CheckChief(r) \/ Peek(r) \/ Read(r)
         \/ Fit(r) \/ FindChief(r) \/ FindCode(r) \/ KnownCodes(r)
  PROVE  StaffSafe'
  <1>1. StaffInv'
    BY ArriveKeepsPlaces, AuthenticateKeepsPlaces, JudgeKeepsPlaces, CreationChecksKeepPlaces,
       CheckChiefKeepsPlaces, PeekKeepsPlaces, ReadKeepsPlaces, FitKeepsPlaces,
       FindChiefKeepsPlaces, FindCodeKeepsPlaces, KnownCodesKeepsPlaces DEF StaffSafe
  <1>2. user' = user /\ raced' = raced /\ unduly' = unduly
    BY DEF Arrive, Authenticate, Judge, CheckNewCode, CheckChief, Peek, Read, Fit, FindChief,
           FindCode, KnownCodes, Check, Quiet
  <1> QED
    BY <1>1, <1>2, QuietIsSafe

LEMMA ServeIsSafe ==
  ASSUME StaffSafe, Serve \/ Restart
  PROVE  StaffSafe'
  BY LookingIsSafe, ChooseIsSafe, CreateIsSafe, WriteIsSafe, KeepIsSafe, ReviveIsSafe, RaiseIsSafe,
     ReplaceIsSafe, InsertIsSafe, CommitIsSafe, CallFailsIsSafe, SeedingIsSafe DEF Serve

LEMMA InitIsSafe ==
  ASSUME Init
  PROVE  StaffSafe
  <1>1. PeopleFit
    <2>1. ASSUME NEW u \in DOMAIN First
          PROVE  PersonFits(First[u])
      <3>1. First[u] \in Account
        BY ConstantsAssumption
      <3> QED
        BY <3>1 DEF PersonFits, Account
    <2> QED
      BY <2>1, ConstantsAssumption DEF Init, PeopleFit, Existing
  <1>2. AllPlaced
    BY IdlePlaced DEF Init, AllPlaced
  <1>3. TeamIsLed
    BY ConstantsAssumption DEF Init, TeamIsLed, Leads, Existing
  <1> QED
    BY <1>1, <1>2, <1>3 DEF StaffSafe, StaffInv, ChangesAreDue, Init

\* The register alone, and with the imports beside it.
OfficeInv == StaffSafe /\ ImportInv

LEMMA InitOffice ==
  ASSUME BackofficeInit
  PROVE  OfficeInv
  BY InitIsSafe, InitImports DEF BackofficeInit, OfficeInv

LEMMA UploadKeepsOffice ==
  ASSUME OfficeInv, NEW r \in Requests, Upload(r)
  PROVE  OfficeInv'
  <1> DEFINE q == req[r]
  <1>1. q.role \in Roles
    BY DEF Upload, At, OfficeInv, StaffSafe, StaffInv, AllPlaced, Placed, Entitled, Acting
  <1>2. Ends(r) /\ Quiet
    BY DEF Upload
  <1>3. StaffSafe'
    <2>1. AllPlaced'
      BY <1>2, EndsPlaced DEF OfficeInv, StaffSafe, StaffInv, Quiet, Existing
    <2> QED
      BY <1>2, <2>1, QuietIsSafe DEF OfficeInv, StaffSafe, StaffInv, PeopleFit, Quiet, Existing
  <1>4. PICK i \in Imports : I!Start(i, q.actor, q.role, q.team, q.keys, q.plan.rows)
    BY DEF Upload
  <1>5. ImportInv'
    BY <1>1, <1>4, StartKeepsImports DEF OfficeInv
  <1> QED
    BY <1>3, <1>5 DEF OfficeInv

LEMMA NextOffice ==
  ASSUME OfficeInv, [BackofficeNext]_<<vars, importVars>>
  PROVE  OfficeInv'
  <1>1. CASE Serve /\ UNCHANGED importVars
    <2>1. StaffSafe'
      BY <1>1, ServeIsSafe DEF OfficeInv
    <2>2. ImportInv'
      BY <1>1 DEF OfficeInv, ImportInv, CustomersFit, importVars
    <2> QED
      BY <2>1, <2>2 DEF OfficeInv
  <1>2. CASE Restart /\ I!Killed
    BY <1>2, ServeIsSafe, KilledKeepsImports DEF OfficeInv
  <1>3. CASE \E r \in Requests : Upload(r)
    BY <1>3, UploadKeepsOffice
  <1>4. CASE UNCHANGED vars /\ (I!Next \/ UNCHANGED importVars)
    <2>1. StaffSafe'
      BY <1>4 DEF OfficeInv, StaffSafe, StaffInv, PeopleFit, AllPlaced, TeamIsLed, ChangesAreDue,
           Leads, Existing, vars
    <2>2. ImportInv'
      <3>1. CASE I!Next
        BY <3>1, NextKeepsImports DEF OfficeInv
      <3>2. CASE UNCHANGED importVars
        BY <3>2 DEF OfficeInv, ImportInv, CustomersFit, importVars
      <3> QED
        BY <1>4, <3>1, <3>2
    <2> QED
      BY <2>1, <2>2 DEF OfficeInv
  <1> QED
    BY <1>1, <1>2, <1>3, <1>4 DEF BackofficeNext

THEOREM OfficeIsSafe == BackofficeSpec => []OfficeInv
  <1>1. BackofficeInit => OfficeInv
    BY InitOffice
  <1>2. OfficeInv /\ [BackofficeNext]_<<vars, importVars>> => OfficeInv'
    BY NextOffice
  <1> QED
    BY <1>1, <1>2, PTL DEF BackofficeSpec

\* The summary of an import of customers tells what it stored.
THEOREM SummariesAreTrue == BackofficeSpec => []ReportIsTrue
  <1>1. OfficeInv => ReportIsTrue
    BY ImportInvSays DEF OfficeInv, ReportIsTrue
  <1> QED
    BY <1>1, OfficeIsSafe, PTL

\* The staff stays a chart, but for accounts whose writer had been overtaken.
THEOREM ChartIsKept == BackofficeSpec => []TeamIsLed
  <1>1. OfficeInv => TeamIsLed
    BY DEF OfficeInv, StaffSafe
  <1> QED
    BY <1>1, OfficeIsSafe, PTL

\* Nobody changes an account, a team or a customer without the right to.
THEOREM ChangesAreWithinRights == BackofficeSpec => []RightsAreHeld
  <1>1. OfficeInv => RightsAreHeld
    BY ImportInvSays DEF OfficeInv, StaffSafe, RightsAreHeld
  <1> QED
    BY <1>1, OfficeIsSafe, PTL

=============================================================================
