------------------------ MODULE CustomerRecordsProofs ------------------------
(***************************************************************************)
(* Proofs about CustomerRecords: type correctness, which includes that each  *)
(* table writes a number once, that a number leads to one customer, that the *)
(* phone column and the rows agree, and that the conversation follows the    *)
(* customer, for all customers, numbers, requests and plans.                *)
(***************************************************************************)
EXTENDS CustomerRecords, FiniteSetTheorems, TLAPS

Lookups == {"row", "column", "fix", "create"}

\* What a request knows at each of its steps.
Fits(q) ==
  /\ q.at = "commit" =>
       \/ q.op = "create" /\ q.plan.phone # Same
       \/ q.op = "update" /\ q.on \in Customers /\ q.primary \in Numbers
  /\ q.at \in {"fix", "sync", "close", "shut", "who", "upsert", "turn"} => q.on \in Customers
  /\ q.at \in Lookups => q.number \in Numbers /\ q.op \in {"inbound", "quick"}

TypeInv == TypeOK /\ \A r \in Requests : Fits(req[r])

\* d has the number n, written in form f, in a row or in his column.
RowOf(d, n, f) == \E w \in rows : w.owner = d /\ w.phone = [number |-> n, form |-> f]
ColumnOf(d, n, f) == Exists(d) /\ record[d].phone = [number |-> n, form |-> f]

\* A number leads to one customer, unless it is excused.
OneHolder == \A n \in Numbers \ doubled : \A c, d \in Holders(n) : c = d

\* What a lookup has found out of the older forms, which nobody writes any more:
\* those that the stages before it searched for certain are not there, and one that
\* is rewritten is its customer's.
Aware(r) ==
  LET n == req[r].number IN
  /\ req[r].at = "column" /\ req[r].stage >= 2 => \A d : ~RowOf(d, n, "plus")
  /\ req[r].at = "column" /\ req[r].stage = 3 => \A d : ~RowOf(d, n, "spaced")
  /\ req[r].at \in {"row", "column"} /\ req[r].stage = 3 =>
       \A d : ~RowOf(d, n, "plus") /\ ~ColumnOf(d, n, "plus")
  /\ req[r].at = "create" =>
       \A d : \A f \in {"plus", "spaced"} : ~RowOf(d, n, f) /\ ~ColumnOf(d, n, f)
  /\ req[r].at = "fix" /\ n \notin doubled =>
       \A d : \A f \in Forms \ {"digits"} : RowOf(d, n, f) \/ ColumnOf(d, n, f) => d = req[r].on

\* What a request read of its customer is true until the customer is changed, and
\* the conversation it has ensured is there as long as he is.
Informed(r) ==
  /\ req[r].at = "turn" =>
       req[r].on \in used /\ (Exists(req[r].on) => talk[req[r].on].status # "none")
  /\ Exists(req[r].on) /\ ~req[r].overtaken =>
       /\ req[r].at = "commit" /\ req[r].op = "update" =>
            req[r].status = record[req[r].on].status
       /\ req[r].at = "sync" => record[req[r].on].assignee = Collector(req[r].plan)
       /\ req[r].at \in {"shut", "upsert"} => req[r].seen = record[req[r].on].assignee

(***************************************************************************)
(* Types.                                                                  *)
(***************************************************************************)

LEMMA DigitsWritten ==
  ASSUME NEW n \in Numbers
  PROVE  Digits(n) \in Written /\ Digits(n).number = n /\ Digits(n).form = "digits"
  BY DEF Digits, Written, Forms

LEMMA PlansFit ==
  ASSUME NEW p \in Plans
  PROVE  /\ p.phone \in Numbers \union {Same} /\ Rest(p) \subseteq Numbers
         /\ p.status \in Statuses \union {Same}
         /\ p.assignee \in Staff \union {Unassigned, Same}
         /\ Collector(p) \in Staff \union {Unassigned}
<1>1. p \in Plan
  BY ConstantsAssumption DEF ConstantsAssumption
<1>2. p.seconds \in (SUBSET Numbers) \union {{Same}}
  BY <1>1 DEF Plan
<1>3. Rest(p) \subseteq Numbers
  <2>1. CASE p.seconds = {Same}
    BY <2>1 DEF Rest
  <2>2. CASE p.seconds \in SUBSET Numbers
    BY <2>2 DEF Rest
  <2>3. QED
    BY <1>2, <2>1, <2>2
<1>4. QED
  BY <1>1, <1>3 DEF Plan, Collector

LEMMA IdleFits ==
  /\ Idle \in Request /\ Idle.at = "idle" /\ Idle.on = Nobody /\ Fits(Idle)
  /\ Idle.op = "none" /\ ~Idle.overtaken /\ Idle.stage = 1
<1>1. (CHOOSE p \in Plans : TRUE) \in Plans
  BY ConstantsAssumption DEF ConstantsAssumption
<1>2. Idle \in Request
  BY <1>1 DEF Idle, Request, Statuses
<1>3. QED
  BY <1>2 DEF Idle, Fits, Lookups

\* r goes on as q; of the others at most a mark that they are overtaken changes.
Turns(r, q) ==
  /\ req' \in [Requests -> Request] /\ req'[r] = q
  /\ Fits(q) => \A s \in Requests : Fits(req'[s])
  /\ \A s \in Requests \ {r} :
       /\ req'[s].at = req[s].at /\ req'[s].op = req[s].op /\ req'[s].on = req[s].on
       /\ req'[s].plan = req[s].plan /\ req'[s].number = req[s].number
       /\ req'[s].status = req[s].status /\ req'[s].seen = req[s].seen
       /\ req'[s].stage = req[s].stage
       /\ req'[s].overtaken \/ req'[s] = req[s]

LEMMA GoesTurns ==
  ASSUME TypeInv, NEW r \in Requests, NEW q \in Request, Goes(r, q)
  PROVE  Turns(r, q)
  BY DEF Goes, Turns, TypeInv, TypeOK

LEMMA OvertakesTurns ==
  ASSUME TypeInv, NEW r \in Requests, NEW q \in Request, NEW c, Overtakes(r, q, c)
  PROVE  /\ Turns(r, q)
         /\ \A s \in Requests \ {r} : req'[s].overtaken \/ req[s].on # c
<1>1. \A s \in Requests : req[s] \in Request
  BY DEF TypeInv, TypeOK
<1>2. ASSUME NEW s \in Requests \ {r}
      PROVE  /\ req'[s] \in Request
             /\ req'[s].at = req[s].at /\ req'[s].op = req[s].op /\ req'[s].on = req[s].on
             /\ req'[s].plan = req[s].plan /\ req'[s].number = req[s].number
             /\ req'[s].status = req[s].status /\ req'[s].seen = req[s].seen
             /\ req'[s].stage = req[s].stage /\ req'[s].primary = req[s].primary
             /\ req'[s].overtaken \/ (req'[s] = req[s] /\ req[s].on # c)
  <2>1. CASE req[s].on = c
    <3>1. req'[s] = [req[s] EXCEPT !.overtaken = TRUE]
      BY <2>1 DEF Overtakes
    <3>2. QED
      BY <1>1, <3>1 DEF Request
  <2>2. CASE req[s].on # c
    <3>1. req'[s] = req[s]
      BY <2>2 DEF Overtakes
    <3>2. QED
      BY <1>1, <2>2, <3>1
  <2>3. QED
    BY <2>1, <2>2
<1>3. req'[r] = q /\ req' = [s \in Requests |-> req'[s]]
  BY DEF Overtakes
<1>4. req' \in [Requests -> Request]
  BY <1>2, <1>3
<1>5. ASSUME Fits(q), NEW s \in Requests PROVE Fits(req'[s])
  BY <1>2, <1>3, <1>5 DEF Fits, TypeInv
<1>6. QED
  BY <1>2, <1>3, <1>4, <1>5 DEF Turns

\* How the requests begin.
LEMMA UpdateFits ==
  ASSUME NEW p \in Plans, NEW c \in Customers, NEW status \in Statuses, NEW n \in Numbers,
         NEW q, q = [Idle EXCEPT !.at = "commit", !.op = "update", !.on = c,
                       !.plan = p, !.status = status, !.primary = n]
  PROVE  q \in Request /\ Fits(q)
<1>1. /\ q \in Request /\ q.at = "commit" /\ q.op = "update" /\ q.on = c /\ q.primary = n
  BY IdleFits DEF Request
<1>2. QED
  BY <1>1 DEF Fits, Lookups

LEMMA CreateFits ==
  ASSUME NEW p \in Plans, p.phone # Same,
         NEW q, q = [Idle EXCEPT !.at = "commit", !.op = "create", !.plan = p]
  PROVE  q \in Request /\ Fits(q)
<1>1. q \in Request /\ q.at = "commit" /\ q.op = "create" /\ q.plan = p
  BY IdleFits DEF Request
<1>2. QED
  BY <1>1 DEF Fits, Lookups

LEMMA LookupFits ==
  ASSUME NEW n \in Numbers, NEW op \in {"inbound", "quick"},
         NEW q, q = [Idle EXCEPT !.at = "row", !.op = op, !.number = n]
  PROVE  q \in Request /\ Fits(q)
<1>1. q \in Request /\ q.at = "row" /\ q.number = n /\ q.op = op
  BY IdleFits DEF Request
<1>2. QED
  BY <1>1 DEF Fits

LEMMA CallsTyped ==
  ASSUME NEW op \in {"inbound", "quick", "send", "status"}
  PROVE  Calls[op] \in Nat
  BY DEF Calls

LEMMA VisitFits ==
  ASSUME NEW c \in Customers, NEW op \in {"send", "status"},
         NEW to \in {"OPEN", "PENDING", "CLOSED"},
         NEW q, q = [Idle EXCEPT !.at = "who", !.op = op, !.on = c,
                       !.rounds = Calls[op], !.to = to]
  PROVE  q \in Request /\ Fits(q)
<1> DEFINE rounds == Calls[op]
<1>0. rounds \in Nat
  BY CallsTyped
<1> HIDE DEF rounds
<1>1. q \in Request /\ q.at = "who" /\ q.on = c
  <2>1. q = [Idle EXCEPT !.at = "who", !.op = op, !.on = c, !.rounds = rounds, !.to = to]
    BY DEF rounds
  <2>2. QED
    BY <1>0, <2>1, IdleFits DEF Request, Visits
<1>2. QED
  BY <1>1 DEF Fits, Lookups

\* A lookup that has its customer.
LEMMA GoesToFits ==
  ASSUME TypeInv, NEW r \in Requests, req[r].at \in Lookups, NEW c \in Customers,
         NEW who \in Staff \union {Unassigned}
  PROVE  /\ GoesTo(r, c, who) \in Request /\ Fits(GoesTo(r, c, who))
         /\ GoesTo(r, c, who).at \in {"who", "upsert"} /\ GoesTo(r, c, who).on = c
         /\ GoesTo(r, c, who).seen = who
<1>1. req[r].op \in {"inbound", "quick"}
  BY DEF TypeInv, Fits
<1>2. Calls[req[r].op] \in Nat
  BY <1>1, CallsTyped
<1>3. PICK at \in {"who", "upsert"}, op \in {"inbound", "quick"}, rounds \in Nat :
        GoesTo(r, c, who) = [Idle EXCEPT !.at = at, !.op = op, !.on = c, !.seen = who,
                                         !.rounds = rounds]
  BY <1>1, <1>2 DEF GoesTo
<1>4. ASSUME NEW q, q = [Idle EXCEPT !.at = at, !.op = op, !.on = c, !.seen = who,
                                     !.rounds = rounds]
      PROVE  q \in Request /\ q.at = at /\ q.on = c /\ q.seen = who
  BY <1>4, IdleFits DEF Request, Visits
<1>5. /\ GoesTo(r, c, who) \in Request /\ GoesTo(r, c, who).at = at
      /\ GoesTo(r, c, who).on = c /\ GoesTo(r, c, who).seen = who
  BY <1>3, <1>4
<1>6. QED
  BY <1>5 DEF Fits, Lookups

LEMMA ReachedFits ==
  ASSUME TypeInv, NEW r \in Requests, req[r].at \in Lookups, NEW c \in Existing,
         NEW q \in Reached(r, c)
  PROVE  /\ q \in Request /\ Fits(q) /\ q.at \in {"idle", "who", "upsert"}
         /\ q.at # "idle" => q.on = c /\ q.seen = record[c].assignee
<1>1. c \in Customers /\ record[c].assignee \in Staff \union {Unassigned}
  BY DEF TypeInv, TypeOK, Record
<1>2. q = Idle \/ q = GoesTo(r, c, record[c].assignee)
  BY DEF Reached
<1>3. QED
  BY <1>1, <1>2, IdleFits, GoesToFits

\* The steps of r that write no table.
Quiet(r) ==
  \/ Ask(r)
  \/ UpdateRefused(r) \/ CreateRefused(r) \/ ReadCollector(r) \/ FollowUpRefused(r)
  \/ FollowUpFails(r) \/ ReadWho(r)
  \/ FindRow(r) \/ FindColumn(r) \/ FixRefused(r) \/ LookAgain(r)

\* The number that a customer has is a number.
LEMMA PrimaryTyped ==
  ASSUME TypeOK, NEW c \in Existing
  PROVE  Primary(c) \in Numbers
<1>1. ASSUME NEW w \in Written PROVE w.number \in Numbers
  BY <1>1 DEF Written
<1>2. ASSUME NEW w \in RowsOf(c) PROVE w.phone.number \in Numbers
  BY <1>1, <1>2 DEF TypeOK, RowsOf
<1>3. record[c].phone.number \in Numbers
  BY <1>1 DEF TypeOK, Record
<1>4. QED
  BY <1>2, <1>3 DEF Primary

\* What r reads of its customer, and goes on with.
LEMMA ReadFits ==
  ASSUME TypeInv, NEW r \in Requests, req[r].on \in Existing,
         NEW at \in {"shut", "upsert"},
         NEW q, q = [req[r] EXCEPT !.at = at, !.seen = record[req[r].on].assignee,
                                   !.overtaken = FALSE]
  PROVE  /\ q \in Request /\ Fits(q) /\ q.at = at /\ q.on = req[r].on
         /\ q.seen = record[req[r].on].assignee
<1>1. req[r] \in Request /\ record[req[r].on].assignee \in Staff \union {Unassigned}
      /\ req[r].on \in Customers
  BY DEF TypeInv, TypeOK, Record
<1>2. q \in Request /\ q.at = at /\ q.on = req[r].on /\ q.seen = record[req[r].on].assignee
  BY <1>1 DEF Request, FollowUps, Visits
<1>3. QED
  BY <1>1, <1>2 DEF Fits, Lookups

LEMMA MatchFits ==
  ASSUME TypeInv, NEW r \in Requests, req[r].at \in Lookups, NEW c \in Existing,
         NEW b \in BOOLEAN, Match(r, c, b)
  PROVE  \E q \in Request :
           /\ Fits(q) /\ Step(r, q)
           /\ \/ q = [req[r] EXCEPT !.at = "fix", !.on = c] /\ q.at = "fix" /\ q.on = c
                 /\ q.number = req[r].number
              \/ q \in Reached(r, c)
<1> DEFINE fix == [req[r] EXCEPT !.at = "fix", !.on = c]
<1>1. req[r] \in Request /\ Fits(req[r]) /\ c \in Customers
  BY DEF TypeInv, TypeOK
<1>2. fix \in Request /\ fix.at = "fix" /\ fix.on = c /\ fix.number = req[r].number
      /\ fix.op = req[r].op
  BY <1>1 DEF Request
<1>3. Fits(fix)
  BY <1>1, <1>2 DEF Fits
<1>4. Step(r, fix) \/ \E q \in Reached(r, c) : Step(r, q)
  BY DEF Match
<1>5. QED
  BY <1>2, <1>3, <1>4, ReachedFits

\* They leave the other requests alone, and r where it belongs.
LEMMA QuietSteps ==
  ASSUME TypeInv, NEW r \in Requests, Quiet(r)
  PROVE  /\ \E q \in Request : Fits(q) /\ req' = [req EXCEPT ![r] = q]
         /\ UNCHANGED <<tables, doubled, relabelled, opened, skipped, raced>>
         /\ cut' = cut \/ (FollowUpFails(r)
                           /\ cut' = IF req[r].at \in FollowUps THEN cut \union {req[r].on} ELSE cut)
         /\ left' \in [Events -> Nat]
<1> DEFINE Good(q) == q \in Request /\ Fits(q)
           Result == /\ \E q \in Request : Fits(q) /\ req' = [req EXCEPT ![r] = q]
                     /\ UNCHANGED <<tables, doubled, relabelled, opened, skipped, raced, cut>>
                     /\ left' \in [Events -> Nat]
<1>0. /\ req[r] \in Request /\ Fits(req[r]) /\ Good(Idle) /\ left \in [Events -> Nat]
  BY IdleFits DEF TypeInv, TypeOK
<1>1. ASSUME NEW q \in Request, Fits(q), Step(r, q) PROVE Result
  BY <1>0, <1>1 DEF Step, Goes, history
<1>2. ASSUME NEW e \in Events, Spend(e) PROVE left' \in [Events -> Nat]
  BY <1>0, <1>2 DEF Spend
<1>3. ASSUME NEW c \in Customers, NEW p \in Plans, AskUpdate(r, c, p) PROVE Result
  <2>1. Primary(c) \in Numbers /\ record[c].status \in Statuses
    BY <1>3, PrimaryTyped DEF AskUpdate, Exists, Record, TypeInv, TypeOK
  <2>2. \E q \in Request : Fits(q) /\ req' = [req EXCEPT ![r] = q]
    BY <1>3, <2>1, UpdateFits DEF AskUpdate
  <2>3. QED
    BY <1>2, <1>3, <2>2 DEF AskUpdate, history, Events
<1>4. ASSUME NEW p \in Plans, AskCreate(r, p) PROVE Result
  <2>1. \E q \in Request : Fits(q) /\ req' = [req EXCEPT ![r] = q]
    BY <1>4, CreateFits DEF AskCreate
  <2>2. QED
    BY <1>2, <1>4, <2>1 DEF AskCreate, history, Events
<1>5. ASSUME NEW n \in Numbers, NEW op \in {"inbound", "quick"}, AskLookup(r, n, op)
      PROVE  Result
  <2>1. \E q \in Request : Fits(q) /\ req' = [req EXCEPT ![r] = q]
    BY <1>5, LookupFits DEF AskLookup, Goes
  <2>2. QED
    BY <1>2, <1>5, <2>1 DEF AskLookup, history, Events
<1>6. ASSUME NEW c \in Customers, NEW op \in {"send", "status"},
             NEW to \in {"OPEN", "PENDING", "CLOSED"}, AskConversation(r, c, op, to)
      PROVE  Result
  <2>1. \E q \in Request : Fits(q) /\ req' = [req EXCEPT ![r] = q]
    BY <1>6, VisitFits DEF AskConversation, Goes
  <2>2. QED
    BY <1>2, <1>6, <2>1 DEF AskConversation, history, Events
<1>7. CASE Ask(r)
  BY <1>3, <1>4, <1>5, <1>6, <1>7 DEF Ask
<1>8. CASE UpdateRefused(r) \/ CreateRefused(r) \/ FollowUpRefused(r)
  BY <1>0, <1>1, <1>8 DEF UpdateRefused, CreateRefused, FollowUpRefused
<1>9. CASE ReadCollector(r)
  <2>1. Good([req[r] EXCEPT !.at = "shut", !.seen = record[req[r].on].assignee,
                            !.overtaken = FALSE])
    BY <1>9, ReadFits DEF ReadCollector, Exists
  <2>2. QED
    BY <1>1, <1>9, <2>1 DEF ReadCollector
<1>10. CASE ReadWho(r)
  <2>1. Good([req[r] EXCEPT !.at = "upsert", !.seen = record[req[r].on].assignee,
                            !.overtaken = FALSE])
    BY <1>10, ReadFits DEF ReadWho, Exists
  <2>2. QED
    BY <1>1, <1>10, <2>1 DEF ReadWho
<1>11. CASE FollowUpFails(r)
  <2>1. /\ UNCHANGED <<tables, doubled, relabelled, opened, skipped, raced>>
        /\ req' = [req EXCEPT ![r] = Idle] /\ left' \in [Events -> Nat]
        /\ cut' = IF req[r].at \in FollowUps THEN cut \union {req[r].on} ELSE cut
    BY <1>2, <1>11 DEF FollowUpFails, Goes, Events
  <2>2. QED
    BY <1>0, <1>11, <2>1
<1>12. ASSUME NEW c \in Existing, NEW b \in BOOLEAN, Match(r, c, b), req[r].at \in Lookups
       PROVE  Result
  BY <1>1, <1>12, MatchFits
<1>13. CASE FindRow(r)
  <2>1. Good([req[r] EXCEPT !.at = "column"])
    BY <1>0, <1>13 DEF FindRow, Request, Fits, Lookups
  <2>2. \A w \in rows : w.owner \in Existing /\ w.primary \in BOOLEAN
    BY DEF TypeInv, TypeOK
  <2>3. \A w \in rows : (req[r].stage > 1 /\ w.primary) \in BOOLEAN
    OBVIOUS
  <2>4. req[r].at \in Lookups
    BY <1>13 DEF FindRow, Lookups
  <2>5. QED
    BY <1>1, <1>12, <1>13, <2>1, <2>2, <2>3, <2>4 DEF FindRow
<1>14. CASE FindColumn(r)
  <2>1. req[r].at = "column" /\ req[r].at \in Lookups /\ TRUE \in BOOLEAN
    BY <1>14 DEF FindColumn, Lookups
  <2>2. ASSUME req[r].stage < Len(Searched)
        PROVE  Good([req[r] EXCEPT !.at = "row", !.stage = @ + 1])
    <3>1. req[r].stage + 1 \in 1..3
      BY <1>0, <2>2 DEF Request, Searched
    <3>2. QED
      BY <1>0, <2>1, <3>1 DEF Request, Fits, Lookups
  <2>3. Good([req[r] EXCEPT !.at = "create"])
    BY <1>0, <2>1 DEF Request, Fits, Lookups
  <2>4. Good(AfterColumn(r))
    BY <1>0, <2>2, <2>3 DEF AfterColumn
  <2>5. QED
    BY <1>1, <1>12, <1>14, <2>1, <2>4 DEF FindColumn
<1>15. CASE FixRefused(r)
  <2>1. req[r].at \in Lookups /\ FALSE \in BOOLEAN
    BY <1>15 DEF FixRefused, Lookups
  <2>2. QED
    BY <1>0, <1>1, <1>12, <1>15, <2>1 DEF FixRefused
<1>16. CASE LookAgain(r)
  <2> DEFINE q == [req[r] EXCEPT !.at = "row", !.stage = 1, !.again = TRUE]
  <2>1. /\ q \in Request /\ q.at = "row" /\ q.number = req[r].number /\ q.op = req[r].op
    <3>1. 1 \in 1..3 /\ TRUE \in BOOLEAN
      OBVIOUS
    <3>2. QED
      BY <1>0, <3>1 DEF Request
  <2>2. req[r].at \in Lookups
    BY <1>16 DEF LookAgain, Lookups
  <2>3. Good(q)
    BY <1>0, <2>1, <2>2 DEF Fits
  <2>4. QED
    BY <1>1, <1>16, <2>3 DEF LookAgain
<1>17. QED
  BY <1>7, <1>8, <1>9, <1>10, <1>11, <1>13, <1>14, <1>15, <1>16 DEF Quiet

\* The rows that a customer gets are new, and nobody else's.
LEMMA RowsTyped ==
  ASSUME TypeOK, NEW c \in Customers, NEW first \in Numbers, NEW rest, rest \subseteq Numbers,
         ~Taken(c, first, rest)
  PROVE  /\ RowsReplaced(c, first, rest)
              \subseteq [phone : Written, owner : Existing \union {c}, primary : BOOLEAN]
         /\ \A v, w \in RowsReplaced(c, first, rest) : v.phone = w.phone => v = w
<1> DEFINE old == rows \ RowsOf(c)
           new == {Row(first, c, TRUE)} \union {Row(n, c, FALSE) : n \in rest \ {first}}
<1>1. RowsReplaced(c, first, rest) = old \union new
  BY DEF RowsReplaced
<1>2. \A n \in {first} \union rest : Digits(n) \in Written
  BY DigitsWritten
<1>3. new \subseteq [phone : Written, owner : {c}, primary : BOOLEAN]
  <2>1. \A n \in {first} \union rest, b \in BOOLEAN :
          Row(n, c, b) \in [phone : Written, owner : {c}, primary : BOOLEAN]
    BY <1>2 DEF Row
  <2>2. QED
    BY <2>1
<1>4. \A v, w \in new : v.phone = w.phone => v = w
  <2>1. \A v \in new : \/ v = Row(first, c, TRUE)
                       \/ \E n \in rest : n # first /\ v = Row(n, c, FALSE)
    OBVIOUS
  <2>2. TAKE v, w \in new
  <2>3. HAVE v.phone = w.phone
  <2>4. CASE v = Row(first, c, TRUE)
    BY <2>1, <2>3, <2>4 DEF Row, Digits
  <2>5. ASSUME NEW n \in rest, n # first, v = Row(n, c, FALSE) PROVE v = w
    <3>1. w # Row(first, c, TRUE)
      BY <2>3, <2>5 DEF Row, Digits
    <3>2. PICK m \in rest : w = Row(m, c, FALSE)
      BY <2>1, <3>1
    <3>3. QED
      BY <2>3, <2>5, <3>2 DEF Row, Digits
  <2>6. QED
    BY <2>1, <2>4, <2>5
<1>5. ASSUME NEW v \in old, NEW w \in new PROVE v.phone # w.phone
  <2>1. v \in rows /\ v.owner # c
    BY DEF RowsOf
  <2>2. PICK n \in {first} \union rest : w.phone = Digits(n)
    BY DEF Row
  <2>3. QED
    BY <2>1, <2>2 DEF Taken, RowTaken
<1>6. old \subseteq [phone : Written, owner : Existing, primary : BOOLEAN]
      /\ \A v, w \in old : v.phone = w.phone => v = w
  BY DEF TypeOK
<1>7. RowsReplaced(c, first, rest)
        \subseteq [phone : Written, owner : Existing \union {c}, primary : BOOLEAN]
  BY <1>1, <1>3, <1>6
<1>8. QED
  BY <1>1, <1>4, <1>5, <1>6, <1>7

LEMMA FreshFits ==
  ASSUME TypeOK, CanCreate
  PROVE  Fresh \in Customers /\ Fresh \notin used /\ Fresh \notin Existing /\ RowsOf(Fresh) = {}
<1>1. \E c \in Customers : c \notin used
  BY DEF TypeOK, CanCreate
<1>2. Fresh \in Customers /\ Fresh \notin used
  BY <1>1 DEF Fresh
<1>3. QED
  BY <1>2 DEF TypeOK, RowsOf

\* The columns of a new customer, who is not there yet.
LEMMA NewTyped ==
  ASSUME TypeInv, NEW c \in Customers \ used, NEW columns \in Record, NEW n \in Numbers,
         columns.phone = Digits(n), ~Taken(c, n, {}),
         record' = Stored(c, columns), used' = used \union {c}
  PROVE  /\ used' \subseteq Customers /\ Existing' \subseteq used'
         /\ Existing' = Existing \union {c} /\ c \notin Existing
         /\ record' \in [Existing' -> Record]
         /\ record'[c] = columns /\ \A d \in Existing : record'[d] = record[d]
         /\ \A d, e \in Existing' : record'[d].phone = record'[e].phone => d = e
<1> USE DEF TypeInv, TypeOK
<1>1. Existing' = Existing \union {c} /\ c \notin Existing
  BY DEF Stored, Existing
<1>2. record'[c] = columns /\ \A d \in Existing : record'[d] = record[d]
  BY <1>1 DEF Stored
<1>3. \A d \in Existing : record[d].phone # Digits(n)
  BY <1>1 DEF Taken, ColumnTaken
<1>4. record' \in [Existing' -> Record]
  BY <1>1, <1>2 DEF Stored
<1>5. QED
  BY <1>1, <1>2, <1>3, <1>4

\* What an update writes into the columns of its customer.
LEMMA UpdatedColumns ==
  ASSUME TypeInv, NEW r \in Requests, CommitUpdate(r),
         NEW c, c = req[r].on, NEW p, p = req[r].plan,
         NEW first, first = IF p.phone # Same THEN p.phone ELSE req[r].primary
  PROVE  /\ c \in Existing /\ p \in Plans /\ first \in Numbers /\ Existing' = Existing
         /\ record' \in [Existing' -> Record]
         /\ \A d \in Existing \ {c} : record'[d] = record[d]
         /\ record'[c].phone = IF p.phone # Same \/ p.seconds # {Same} THEN Digits(first)
                               ELSE record[c].phone
         /\ record'[c].status = IF p.status = Same THEN record[c].status ELSE p.status
         /\ record'[c].assignee = IF p.assignee = Same THEN record[c].assignee ELSE p.assignee
<1> DEFINE phone == IF p.phone # Same \/ p.seconds # {Same} THEN Digits(first)
                    ELSE record[c].phone
           status == IF p.status = Same THEN record[c].status ELSE p.status
           who == IF p.assignee = Same THEN record[c].assignee ELSE p.assignee
           z == [record[c] EXCEPT !.phone = phone, !.status = status, !.assignee = who]
<1>1. req[r] \in Request /\ c \in Existing /\ p \in Plans /\ req[r].primary \in Numbers
  BY DEF TypeInv, TypeOK, CommitUpdate, Fits, Exists, Request
<1>2. first \in Numbers
  BY <1>1, PlansFit
<1>3. record[c] \in Record /\ record \in [Existing -> Record] /\ Existing = DOMAIN record
  BY <1>1 DEF TypeInv, TypeOK, Existing
<1>4. phone \in Written /\ status \in Statuses /\ who \in Staff \union {Unassigned}
  BY <1>1, <1>2, <1>3, DigitsWritten, PlansFit DEF Record
<1>5. record' = [record EXCEPT ![c] = z]
  BY <1>1, <1>3 DEF CommitUpdate
<1>6. z \in Record /\ z.phone = phone /\ z.status = status /\ z.assignee = who
  BY <1>3, <1>4 DEF Record
<1>7. QED
  BY <1>1, <1>2, <1>3, <1>5, <1>6 DEF Existing

\* The conversations stay in their type.
LEMMA TalkTyped ==
  ASSUME TypeInv, NEW c \in Customers, NEW who \in Staff \union {Unassigned}
  PROVE  /\ Ensured(c, who) \in [Customers -> [status : {"none", "OPEN", "PENDING", "CLOSED"},
                                   assignee : Staff \union {Unassigned}, turn : Nat]]
         /\ Reassigned(c, who) \in [Customers -> [status : {"none", "OPEN", "PENDING", "CLOSED"},
                                      assignee : Staff \union {Unassigned}, turn : Nat]]
  BY DEF Reassigned, Ensured, TypeInv, TypeOK

\* What an update leaves r with.
LEMMA UpdateTurns ==
  ASSUME TypeInv, NEW r \in Requests, CommitUpdate(r)
  PROVE  \E q \in Request :
           /\ Fits(q) /\ Turns(r, q)
           /\ q.at = "idle" \/ (q.at = "close" /\ q.on = req[r].on)
           /\ q.at = "idle" <=> ~(req[r].plan.status \notin {Same, req[r].status}
                                  /\ Blocked(req[r].plan.status))
           /\ \/ \A s \in Requests \ {r} : req'[s].overtaken \/ req[s].on # req[r].on
              \/ record'[req[r].on].assignee = record[req[r].on].assignee
                 /\ record'[req[r].on].status = record[req[r].on].status
<1> DEFINE q == req[r]
           c == q.on
           p == q.plan
           next == IF p.status \notin {Same, q.status} /\ Blocked(p.status)
                   THEN [q EXCEPT !.at = "close"] ELSE Idle
<1>1. q \in Request /\ c \in Existing /\ c \in Customers
  BY DEF TypeInv, TypeOK, CommitUpdate, Exists
<1>2. /\ next \in Request /\ Fits(next)
      /\ next.at = "idle" \/ (next.at = "close" /\ next.on = c)
      /\ next.at = "idle" <=> ~(p.status \notin {Same, q.status} /\ Blocked(p.status))
  <2>1. [q EXCEPT !.at = "close"] \in Request /\ [q EXCEPT !.at = "close"].at = "close"
        /\ [q EXCEPT !.at = "close"].on = c
    BY <1>1 DEF Request, FollowUps
  <2>2. Fits([q EXCEPT !.at = "close"])
    BY <1>1, <2>1 DEF Fits, Lookups
  <2>3. QED
    BY <2>1, <2>2, IdleFits
<1>3. \/ Overtakes(r, next, c)
      \/ /\ Goes(r, next) /\ p.assignee \in {Same, record[c].assignee}
         /\ (IF p.status = Same THEN record[c].status ELSE p.status) = record[c].status
  BY DEF CommitUpdate
<1>4. record'[c].status = (IF p.status = Same THEN record[c].status ELSE p.status)
      /\ record'[c].assignee = (IF p.assignee = Same THEN record[c].assignee ELSE p.assignee)
  BY UpdatedColumns
<1>5. CASE Overtakes(r, next, c)
  BY <1>1, <1>2, <1>5, OvertakesTurns
<1>6. CASE ~Overtakes(r, next, c)
  <2>1. Turns(r, next)
    BY <1>2, <1>3, <1>6, GoesTurns
  <2>2. record'[c].assignee = record[c].assignee /\ record'[c].status = record[c].status
    BY <1>3, <1>4, <1>6
  <2>3. QED
    BY <1>2, <2>1, <2>2
<1>7. QED
  BY <1>5, <1>6

LEMMA UpdateTyped ==
  ASSUME TypeInv, NEW r \in Requests, CommitUpdate(r)
  PROVE  TypeInv'
<1> DEFINE q == req[r]
           c == q.on
           p == q.plan
           first == IF p.phone # Same THEN p.phone ELSE q.primary
           phones == p.phone # Same \/ p.seconds # {Same}
<1>1. /\ q \in Request /\ c \in Existing /\ c \in Customers /\ q.primary \in Numbers
      /\ p \in Plans
  BY DEF TypeInv, TypeOK, CommitUpdate, Exists, Request, Fits
<1>2. first \in Numbers /\ Rest(p) \subseteq Numbers
      /\ p.assignee \in Staff \union {Unassigned, Same}
  BY <1>1, PlansFit
<1>5. req' \in [Requests -> Request] /\ \A s \in Requests : Fits(req'[s])
  BY UpdateTurns DEF Turns
<1>6. Existing' = Existing /\ record' \in [Existing' -> Record]
      /\ record'[c].phone = (IF phones THEN Digits(first) ELSE record[c].phone)
      /\ \A d \in Existing \ {c} : record'[d] = record[d]
  BY UpdatedColumns
<1>7. \A d, e \in Existing' : record'[d].phone = record'[e].phone => d = e
  <2>1. CASE phones
    <3>1. \A d \in Existing \ {c} : record[d].phone # Digits(first)
      BY <2>1 DEF CommitUpdate, Taken, ColumnTaken
    <3>2. QED
      BY <1>1, <1>6, <2>1, <3>1 DEF TypeInv, TypeOK
  <2>2. CASE ~phones
    BY <1>1, <1>6, <2>2 DEF TypeInv, TypeOK
  <2>3. QED
    BY <2>1, <2>2
<1>8. /\ rows' \subseteq [phone : Written, owner : Existing', primary : BOOLEAN]
      /\ \A v, w \in rows' : v.phone = w.phone => v = w
  <2>1. CASE phones
    <3>1. rows' = RowsReplaced(c, first, Rest(p)) /\ ~Taken(c, first, Rest(p))
      BY <2>1 DEF CommitUpdate
    <3>2. Existing' = Existing \union {c}
      BY <1>1, <1>6
    <3>3. QED
      BY <1>1, <1>2, <3>1, <3>2, RowsTyped DEF TypeInv
  <2>2. CASE ~phones
    <3>1. rows' = rows
      BY <2>2 DEF CommitUpdate
    <3>2. QED
      BY <1>6, <3>1 DEF TypeInv, TypeOK
  <2>3. QED
    BY <2>1, <2>2
<1>9. talk' \in [Customers -> [status : {"none", "OPEN", "PENDING", "CLOSED"},
                              assignee : Staff \union {Unassigned}, turn : Nat]]
  <2>1. CASE p.assignee = Same
    BY <2>1 DEF CommitUpdate, TypeInv, TypeOK
  <2>2. CASE p.assignee # Same
    <3>1. talk' = Reassigned(c, p.assignee) /\ p.assignee \in Staff \union {Unassigned}
      BY <1>2, <2>2 DEF CommitUpdate
    <3>2. QED
      BY <1>1, <3>1, TalkTyped
  <2>3. QED
    BY <2>1, <2>2
<1>10. /\ doubled' \subseteq Numbers
       /\ relabelled' \union opened' \union skipped' \subseteq Customers
       /\ UNCHANGED <<used, raced, cut, left>>
  BY <1>1, <1>2 DEF CommitUpdate, Shared, TypeInv, TypeOK
<1>11. QED
  BY <1>5, <1>6, <1>7, <1>8, <1>9, <1>10 DEF TypeInv, TypeOK

LEMMA CreateTyped ==
  ASSUME TypeInv, NEW r \in Requests, CommitCreate(r)
  PROVE  TypeInv'
<1> DEFINE p == req[r].plan
           c == Fresh
           next == [req[r] EXCEPT !.at = "sync", !.on = c]
<1>1. req[r] \in Request /\ p \in Plans /\ p.phone # Same
  BY DEF TypeInv, TypeOK, CommitCreate, Fits, Request
<1>2. p.phone \in Numbers /\ Rest(p) \subseteq Numbers /\ p.status \in Statuses \union {Same}
      /\ Collector(p) \in Staff \union {Unassigned}
  BY <1>1, PlansFit
<1>3. c \in Customers \ used /\ RowsOf(c) = {}
  BY FreshFits DEF CommitCreate, TypeInv
<1>4. next \in Request /\ Fits(next)
  <2>1. next \in Request /\ next.at = "sync" /\ next.on = c
    BY <1>1, <1>3 DEF Request, FollowUps
  <2>2. QED
    BY <1>3, <2>1 DEF Fits, Lookups
<1>5. Overtakes(r, next, c)
  BY DEF CommitCreate
<1>6. req' \in [Requests -> Request] /\ \A s \in Requests : Fits(req'[s])
  BY <1>4, <1>5, OvertakesTurns DEF Turns
<1>7. Created(p) \in Record /\ Created(p).phone = Digits(p.phone)
  BY <1>2, DigitsWritten DEF Created, Record, Statuses
<1>8. ~Taken(c, p.phone, Rest(p)) /\ ~Taken(c, p.phone, {})
  BY DEF CommitCreate, Taken
<1>9. record' = Stored(c, Created(p)) /\ used' = used \union {c}
      /\ rows' = RowsReplaced(c, p.phone, Rest(p))
  BY DEF CommitCreate
<1>10. /\ used' \subseteq Customers /\ Existing' \subseteq used'
       /\ Existing' = Existing \union {c}
       /\ record' \in [Existing' -> Record]
       /\ \A d, e \in Existing' : record'[d].phone = record'[e].phone => d = e
  BY <1>2, <1>3, <1>7, <1>8, <1>9, NewTyped
<1>11. /\ rows' \subseteq [phone : Written, owner : Existing', primary : BOOLEAN]
       /\ \A v, w \in rows' : v.phone = w.phone => v = w
  BY <1>2, <1>3, <1>8, <1>9, <1>10, RowsTyped DEF TypeInv
<1>12. /\ doubled' \subseteq Numbers
       /\ UNCHANGED <<talk, relabelled, opened, skipped, raced, cut, left>>
  BY <1>2 DEF CommitCreate, Shared, TypeInv, TypeOK
<1>13. QED
  BY <1>6, <1>10, <1>11, <1>12 DEF TypeInv, TypeOK

\* Where a request goes on that has ensured its conversation.
LEMMA AfterUpsertFits ==
  ASSUME TypeInv, NEW r \in Requests, req[r].on \in Customers, NEW q \in AfterUpsert(r)
  PROVE  /\ q \in Request /\ Fits(q) /\ q.at \in {"idle", "who", "turn"}
         /\ q.at # "idle" => q.on = req[r].on
<1> DEFINE again == [req[r] EXCEPT !.at = "who", !.rounds = @ - 1]
           found == [req[r] EXCEPT !.at = "turn", !.turn = talk[req[r].on].turn]
<1>1. req[r] \in Request /\ talk[req[r].on].turn \in Nat
  BY DEF TypeInv, TypeOK
<1>2. found \in Request /\ found.at = "turn" /\ found.on = req[r].on
  BY <1>1 DEF Request, Visits
<1>3. ASSUME req[r].rounds > 1 PROVE again \in Request /\ again.at = "who" /\ again.on = req[r].on
  <2>1. req[r].rounds - 1 \in Nat
    BY <1>1, <1>3 DEF Request
  <2>2. QED
    BY <1>1, <2>1 DEF Request, Visits
<1>4. \/ q = Idle \/ q = found \/ (q = again /\ req[r].rounds > 1)
  BY DEF AfterUpsert
<1>5. ASSUME NEW p, p.at \in {"who", "turn"}, p.on = req[r].on PROVE Fits(p)
  BY <1>5 DEF Fits, Lookups
<1>6. CASE q = Idle
  BY <1>6, IdleFits
<1>7. CASE q = found
  <2>1. q \in Request /\ q.at = "turn" /\ q.on = req[r].on
    BY <1>2, <1>7
  <2>2. QED
    BY <1>5, <2>1
<1>8. CASE q = again /\ req[r].rounds > 1
  <2>1. q \in Request /\ q.at = "who" /\ q.on = req[r].on
    BY <1>3, <1>8
  <2>2. QED
    BY <1>5, <2>1
<1>9. QED
  BY <1>4, <1>6, <1>7, <1>8

\* What follows a transaction, and the visits to a conversation.
LEMMA VisitTyped ==
  ASSUME TypeInv, NEW r \in Requests, Sync(r) \/ Shut(r) \/ Upsert(r) \/ SetStatus(r)
  PROVE  /\ TypeInv' /\ UNCHANGED <<record, used, rows, doubled, relabelled, skipped, cut>>
         /\ \E q \in Request : /\ Goes(r, q) /\ q.at \in {"idle", "close", "who", "turn"}
                               /\ q.at # "idle" => q.on = req[r].on
<1> DEFINE c == req[r].on
           close == [req[r] EXCEPT !.at = "close"]
<1>1. req[r] \in Request /\ c \in Customers /\ c \in Existing /\ req[r].plan \in Plans
      /\ req[r].seen \in Staff \union {Unassigned} /\ req[r].to \in {"OPEN", "PENDING", "CLOSED"}
  BY DEF TypeInv, TypeOK, Sync, Shut, Upsert, SetStatus, Exists, Request
<1>2. close \in Request /\ Fits(close) /\ close.at = "close" /\ close.on = c
  <2>1. close \in Request /\ close.at = "close" /\ close.on = c
    BY <1>1 DEF Request, FollowUps
  <2>2. QED
    BY <1>1, <2>1 DEF Fits, Lookups
<1>3. PICK q \in Request :
        /\ Fits(q) /\ Goes(r, q) /\ q.at \in {"idle", "close", "who", "turn"}
        /\ q.at # "idle" => q.on = c
  <2>1. CASE Sync(r)
    BY <1>2, <2>1, IdleFits DEF Sync
  <2>2. CASE Shut(r) \/ SetStatus(r)
    BY <2>2, IdleFits DEF Shut, SetStatus
  <2>3. CASE Upsert(r)
    BY <1>1, <2>3, AfterUpsertFits DEF Upsert
  <2>4. QED
    BY <2>1, <2>2, <2>3
<1>4. req' \in [Requests -> Request] /\ \A s \in Requests : Fits(req'[s])
  BY <1>3, GoesTurns DEF Turns
<1>5. talk' \in [Customers -> [status : {"none", "OPEN", "PENDING", "CLOSED"},
                              assignee : Staff \union {Unassigned}, turn : Nat]]
  <2>1. CASE Sync(r)
    BY <1>1, <2>1, TalkTyped, PlansFit DEF Sync
  <2>2. CASE Upsert(r)
    BY <1>1, <2>2, TalkTyped DEF Upsert
  <2>3. CASE Shut(r)
    BY <1>1, <2>3 DEF Shut, TypeInv, TypeOK
  <2>4. CASE SetStatus(r)
    BY <1>1, <2>4 DEF SetStatus, TypeInv, TypeOK
  <2>5. QED
    BY <2>1, <2>2, <2>3, <2>4
<1>6. /\ UNCHANGED <<record, used, rows, doubled, relabelled, skipped, cut, left>>
      /\ opened' \subseteq Customers /\ raced' \subseteq Customers
  BY <1>1 DEF Sync, Shut, Upsert, SetStatus, Names, TypeInv, TypeOK
<1>7. QED
  BY <1>3, <1>4, <1>5, <1>6 DEF TypeInv, TypeOK, Existing

LEMMA FixTyped ==
  ASSUME TypeInv, NEW r \in Requests, Fix(r)
  PROVE  /\ TypeInv'
         /\ \E q \in Request : /\ Goes(r, q) /\ q.at \in {"idle", "who", "upsert"}
                               /\ q.at # "idle" => /\ q.on = req[r].on
                                                   /\ q.seen = record[req[r].on].assignee
<1> DEFINE c == req[r].on
           n == req[r].number
<1>1. c \in Customers /\ c \in Existing /\ n \in Numbers /\ req[r].at \in Lookups
  BY DEF TypeInv, TypeOK, Fix, Fits, Exists, Lookups
<1>2. PICK q \in Request : /\ Fits(q) /\ Goes(r, q) /\ q.at \in {"idle", "who", "upsert"}
                           /\ q.at # "idle" => q.on = c /\ q.seen = record[c].assignee
  BY <1>1, ReachedFits DEF Fix
<1>3. req' \in [Requests -> Request] /\ \A s \in Requests : Fits(req'[s])
  BY <1>2, GoesTurns DEF Turns
<1>4. Existing' = Existing /\ record' \in [Existing' -> Record]
      /\ record'[c].phone = Digits(n) /\ \A d \in Existing \ {c} : record'[d] = record[d]
  <2>1. [record[c] EXCEPT !.phone = Digits(n)] \in Record
    BY <1>1, DigitsWritten DEF TypeInv, TypeOK, Record
  <2>2. record[c] \in Record
    BY <1>1 DEF TypeInv, TypeOK
  <2>3. QED
    BY <1>1, <2>1, <2>2 DEF Fix, TypeInv, TypeOK, Existing, Record
<1>5. \A d, e \in Existing' : record'[d].phone = record'[e].phone => d = e
  <2>1. \A d \in Existing \ {c} : record[d].phone # Digits(n)
    BY DEF Fix, ColumnTaken
  <2>2. QED
    BY <1>1, <1>4, <2>1 DEF TypeInv, TypeOK
<1>6. /\ rows' \subseteq [phone : Written, owner : Existing', primary : BOOLEAN]
      /\ \A v, w \in rows' : v.phone = w.phone => v = w
  <2>1. rows' = {w \in rows : w.phone # Digits(n)} \union {Row(n, c, TRUE)}
    BY DEF Fix
  <2>2. Row(n, c, TRUE) \in [phone : Written, owner : Existing, primary : BOOLEAN]
        /\ Row(n, c, TRUE).phone = Digits(n)
    BY <1>1, DigitsWritten DEF Row
  <2>3. QED
    BY <1>4, <2>1, <2>2 DEF TypeInv, TypeOK
<1>7. /\ relabelled' \subseteq Customers
      /\ UNCHANGED <<used, talk, doubled, opened, skipped, raced, cut, left>>
  BY <1>1 DEF Fix, TypeInv, TypeOK
<1>8. QED
  BY <1>2, <1>3, <1>4, <1>5, <1>6, <1>7 DEF TypeInv, TypeOK

LEMMA FoundTyped ==
  ASSUME TypeInv, NEW r \in Requests, CreateFound(r)
  PROVE  TypeInv'
<1> DEFINE c == Fresh
           n == req[r].number
<1>1. n \in Numbers /\ ~Taken(c, n, {}) /\ used' = used \union {c} /\ req[r].at \in Lookups
  BY DEF TypeInv, CreateFound, Fits, Lookups
<1>2. c \in Customers \ used
  BY FreshFits DEF CreateFound, TypeInv
<1>3. PICK who \in Staff \union {Unassigned} :
        record' = Stored(c, Looked(r, who)) /\ Overtakes(r, GoesTo(r, c, who), c)
  BY DEF CreateFound, Collectors
<1>4. req' \in [Requests -> Request] /\ \A s \in Requests : Fits(req'[s])
  BY <1>1, <1>2, <1>3, GoesToFits, OvertakesTurns DEF Turns
<1>6. Looked(r, who) \in Record /\ Looked(r, who).phone = Digits(n)
  BY <1>1, DigitsWritten DEF Looked, Record, Statuses
<1>7. /\ used' \subseteq Customers /\ Existing' \subseteq used'
      /\ Existing' = Existing \union {c}
      /\ record' \in [Existing' -> Record]
      /\ \A d, e \in Existing' : record'[d].phone = record'[e].phone => d = e
  BY <1>1, <1>2, <1>3, <1>6, NewTyped
<1>8. /\ rows' \subseteq [phone : Written, owner : Existing', primary : BOOLEAN]
      /\ \A v, w \in rows' : v.phone = w.phone => v = w
  <2>1. rows' = rows \union {Row(n, c, TRUE)}
    BY DEF CreateFound
  <2>2. Row(n, c, TRUE) \in [phone : Written, owner : Existing', primary : BOOLEAN]
        /\ Row(n, c, TRUE).phone = Digits(n)
    BY <1>1, <1>7, DigitsWritten DEF Row
  <2>3. \A w \in rows : w.phone # Digits(n)
    <3>1. \A w \in rows : w.owner # c
      BY <1>2 DEF TypeInv, TypeOK
    <3>2. QED
      BY <1>1, <3>1 DEF Taken, RowTaken
  <2>4. QED
    BY <1>7, <2>1, <2>2, <2>3 DEF TypeInv, TypeOK
<1>9. /\ doubled' \subseteq Numbers
      /\ UNCHANGED <<talk, relabelled, opened, skipped, raced, cut, left>>
  BY <1>1 DEF CreateFound, TypeInv, TypeOK
<1>10. QED
  BY <1>4, <1>7, <1>8, <1>9 DEF TypeInv, TypeOK

LEMMA DeleteTyped ==
  ASSUME TypeInv, NEW c \in Customers, Delete(c)
  PROVE  /\ TypeInv'
         /\ \A s \in Requests :
              /\ req'[s].at = req[s].at /\ req'[s].on = req[s].on
              /\ req'[s].number = req[s].number /\ req'[s].stage = req[s].stage
              /\ req'[s].plan = req[s].plan
              /\ req'[s].overtaken \/ (req'[s] = req[s] /\ req[s].on # c)
<1>1. ASSUME NEW s \in Requests
      PROVE  /\ req'[s] \in Request /\ req'[s].at = req[s].at
             /\ req'[s].op = req[s].op /\ req'[s].on = req[s].on
             /\ req'[s].plan = req[s].plan /\ req'[s].number = req[s].number
             /\ req'[s].primary = req[s].primary /\ req'[s].stage = req[s].stage
             /\ req'[s].overtaken \/ (req'[s] = req[s] /\ req[s].on # c)
  <2>1. req[s] \in Request
    BY DEF TypeInv, TypeOK
  <2>2. req'[s] = IF req[s].on = c THEN [req[s] EXCEPT !.overtaken = TRUE] ELSE req[s]
    BY DEF Delete
  <2>3. CASE req[s].on = c
    <3>1. req'[s] = [req[s] EXCEPT !.overtaken = TRUE]
      BY <2>2, <2>3
    <3>2. QED
      BY <2>1, <3>1 DEF Request
  <2>4. CASE req[s].on # c
    <3>1. req'[s] = req[s]
      BY <2>2, <2>4
    <3>2. QED
      BY <2>1, <2>4, <3>1
  <2>5. QED
    BY <2>3, <2>4
<1>2. req' \in [Requests -> Request] /\ \A s \in Requests : Fits(req'[s])
  <2>1. req' \in [Requests -> Request]
    BY <1>1 DEF Delete
  <2>2. QED
    BY <1>1, <2>1 DEF Fits, TypeInv
<1>3. Existing' = Existing \ {c} /\ record' \in [Existing' -> Record]
      /\ \A d \in Existing' : record'[d] = record[d]
  BY DEF Delete, Existing, TypeInv, TypeOK
<1>4. /\ rows' \subseteq [phone : Written, owner : Existing', primary : BOOLEAN]
      /\ \A v, w \in rows' : v.phone = w.phone => v = w
  BY <1>3 DEF Delete, RowsOf, TypeInv, TypeOK
<1>5. talk' \in [Customers -> [status : {"none", "OPEN", "PENDING", "CLOSED"},
                              assignee : Staff \union {Unassigned}, turn : Nat]]
  <2>1. talk' = [talk EXCEPT ![c].status = "none"]
    BY DEF Delete
  <2>2. QED
    BY <2>1 DEF TypeInv, TypeOK
<1>6. left' \in [Events -> Nat]
  BY DEF Delete, Spend, Events, TypeInv, TypeOK
<1>7. QED
  BY <1>1, <1>2, <1>3, <1>4, <1>5, <1>6 DEF Delete, history, TypeInv, TypeOK

LEMMA InitTyped == Init => TypeInv
<1> SUFFICES ASSUME Init PROVE TypeInv
  OBVIOUS
<1>1. PICK form \in Forms, who \in Staff, status \in {"none", "OPEN"} :
        LET w == [number |-> Kept, form |-> form] IN
        /\ record = [c \in {First} |->
             [phone |-> w, account |-> Own, status |-> "ACTIVE_DEBT", assignee |-> who]]
        /\ rows \in {{}, {[phone |-> w, owner |-> First, primary |-> TRUE]}}
        /\ talk = [c \in Customers |->
             IF c = First /\ status = "OPEN"
             THEN [status |-> "OPEN", assignee |-> who, turn |-> 0]
             ELSE [status |-> "none", assignee |-> Unassigned, turn |-> 0]]
  BY DEF Init
<1> DEFINE w == [number |-> Kept, form |-> form]
<1>2. w \in Written /\ First \in Customers
  BY ConstantsAssumption DEF ConstantsAssumption, Written
<1>3. Existing = {First} /\ record \in [Existing -> Record]
  BY <1>1, <1>2 DEF Existing, Record, Statuses
<1>4. /\ rows \subseteq [phone : Written, owner : Existing, primary : BOOLEAN]
      /\ \A v, u \in rows : v.phone = u.phone => v = u
  <2>1. [phone |-> w, owner |-> First, primary |-> TRUE]
          \in [phone : Written, owner : Existing, primary : BOOLEAN]
    BY <1>2, <1>3
  <2>2. rows = {} \/ rows = {[phone |-> w, owner |-> First, primary |-> TRUE]}
    BY <1>1
  <2>3. QED
    BY <2>1, <2>2
<1>5. talk \in [Customers -> [status : {"none", "OPEN", "PENDING", "CLOSED"},
                             assignee : Staff \union {Unassigned}, turn : Nat]]
  BY <1>1
<1>6. /\ used = {First} /\ req = [r \in Requests |-> Idle] /\ left = Budget
      /\ doubled = {} /\ relabelled = {} /\ opened = {} /\ skipped = {} /\ raced = {} /\ cut = {}
  BY DEF Init
<1>7. req \in [Requests -> Request] /\ \A r \in Requests : Fits(req[r])
  BY <1>6, IdleFits
<1>8. left \in [Events -> Nat]
  BY <1>6, ConstantsAssumption DEF ConstantsAssumption
<1>9. QED
  BY <1>2, <1>3, <1>4, <1>5, <1>6, <1>7, <1>8 DEF TypeInv, TypeOK

LEMMA QuietTyped ==
  ASSUME TypeInv, NEW r \in Requests, Quiet(r)
  PROVE  TypeInv'
<1>1. PICK q \in Request : Fits(q) /\ req' = [req EXCEPT ![r] = q]
  BY QuietSteps
<1>2. req' \in [Requests -> Request] /\ \A s \in Requests : Fits(req'[s])
  BY <1>1 DEF TypeInv, TypeOK
<1>3. ASSUME FollowUpFails(r), req[r].at \in FollowUps PROVE req[r].on \in Customers
  BY <1>3 DEF FollowUps, TypeInv, Fits
<1>4. cut' \subseteq Customers
  BY <1>3, QuietSteps DEF TypeInv, TypeOK
<1>5. QED
  BY <1>2, <1>4, QuietSteps DEF TypeInv, TypeOK, tables, Existing

\* The steps of the system, for the proofs that follow.
LEMMA Steps ==
  ASSUME [Next]_vars
  PROVE  \/ UNCHANGED vars \/ \E c \in Customers : Delete(c)
         \/ \E r \in Requests :
              \/ Quiet(r) \/ CommitUpdate(r) \/ CommitCreate(r)
              \/ Sync(r) \/ Shut(r) \/ Upsert(r) \/ SetStatus(r)
              \/ Fix(r) \/ CreateFound(r)
  BY DEF Next, Quiet

LEMMA Typed == Spec => []TypeInv
<1>1. ASSUME TypeInv, [Next]_vars PROVE TypeInv'
  <2>1. CASE UNCHANGED vars
    BY <1>1, <2>1 DEF vars, tables, history, TypeInv, TypeOK, Existing
  <2>2. QED
    BY <1>1, <2>1, Steps, QuietTyped, UpdateTyped, CreateTyped, VisitTyped, FixTyped,
       FoundTyped, DeleteTyped
<1>2. QED
  BY <1>1, InitTyped, PTL DEF Spec

\* Every value stays in its type; what TypeOK adds is what the foreign keys and the
\* unique columns of the database ask for, and no step asks the database to break it.
THEOREM TypeCorrect == Spec => []TypeOK
  BY Typed, PTL DEF TypeInv

(***************************************************************************)
(* A number leads to one customer. Nobody writes an older form any more, so   *)
(* what a lookup has learnt of the older forms stays true whatever the others *)
(* do; when it creates or rewrites, the unique columns rule out the digits.   *)
(***************************************************************************)

HoldersInv == OneHolder /\ \A r \in Requests : Aware(r)

\* The older forms that are there were there before.
Fading ==
  \A d, n : \A f \in Forms \ {"digits"} :
    (RowOf(d, n, f)' => RowOf(d, n, f)) /\ (ColumnOf(d, n, f)' => ColumnOf(d, n, f))

LEMMA DigitsFade ==
  ASSUME \A w \in rows' : w \in rows \/ w.phone.form = "digits",
         \A d \in Existing' : \/ d \in Existing /\ record'[d].phone = record[d].phone
                              \/ record'[d].phone.form = "digits"
  PROVE  Fading
<1> SUFFICES ASSUME NEW d, NEW n, NEW f \in Forms \ {"digits"}
             PROVE  /\ RowOf(d, n, f)' => RowOf(d, n, f)
                    /\ ColumnOf(d, n, f)' => ColumnOf(d, n, f)
  BY DEF Fading
<1>1. \A w : w.phone = [number |-> n, form |-> f] => w.phone.form # "digits"
  OBVIOUS
<1>2. RowOf(d, n, f)' => RowOf(d, n, f)
  BY <1>1 DEF RowOf
<1>3. ColumnOf(d, n, f)' => ColumnOf(d, n, f)
  BY <1>1 DEF ColumnOf, Exists
<1>4. QED
  BY <1>2, <1>3

\* So what a lookup knows stays true while it does nothing.
LEMMA StaysAware ==
  ASSUME NEW s \in Requests, Aware(s), Fading, doubled \subseteq doubled',
         req'[s].at = req[s].at, req'[s].number = req[s].number,
         req'[s].stage = req[s].stage, req'[s].on = req[s].on
  PROVE  Aware(s)'
<1>1. {"plus", "spaced"} \subseteq Forms \ {"digits"}
  BY DEF Forms
<1>2. \A d, n : \A f \in {"plus", "spaced"} :
        (~RowOf(d, n, f) => ~RowOf(d, n, f)') /\ (~ColumnOf(d, n, f) => ~ColumnOf(d, n, f)')
  BY <1>1 DEF Fading
<1>3. \A d, n : \A f \in Forms \ {"digits"} :
        RowOf(d, n, f)' \/ ColumnOf(d, n, f)' => RowOf(d, n, f) \/ ColumnOf(d, n, f)
  BY DEF Fading
<1>4. QED
  BY <1>2, <1>3 DEF Aware

\* A step that gives c numbers that nobody else holds then, or that are excused.
Gives(c, numbers) ==
  /\ Existing' \ {c} = Existing \ {c} /\ doubled \subseteq doubled'
  /\ \A d \in Existing \ {c} : Held(d)' \subseteq Held(d)
  /\ \/ c \in Existing /\ Held(c)' \subseteq Held(c) \union numbers
     \/ Held(c)' \subseteq numbers
  /\ \A n \in numbers : n \in doubled' \/ Holders(n)' \subseteq {c}

LEMMA GivenNumbers ==
  ASSUME TypeInv, HoldersInv, Fading, NEW r \in Requests, NEW q, Turns(r, q),
         q.at \notin Lookups, NEW c, NEW numbers, Gives(c, numbers)
  PROVE  HoldersInv'
<1>1. ASSUME NEW n \in Numbers, n \notin doubled'
      PROVE  Holders(n)' \subseteq {c} \/ (n \notin numbers /\ Holders(n)' \subseteq Holders(n))
  BY <1>1 DEF Gives, Holders
<1>2. OneHolder'
  BY <1>1 DEF Gives, HoldersInv, OneHolder
<1>3. ASSUME NEW s \in Requests PROVE Aware(s)'
  <2>1. CASE s = r
    BY <2>1 DEF Aware, Turns, Lookups
  <2>2. CASE s # r
    BY <2>2, StaysAware DEF HoldersInv, Turns, Gives
  <2>3. QED
    BY <2>1, <2>2
<1>4. QED
  BY <1>2, <1>3 DEF HoldersInv

\* A customer whose rows are replaced holds the numbers given, and others what they held.
LEMMA ReplacedHeld ==
  ASSUME NEW c, NEW first, NEW rest, rows' = RowsReplaced(c, first, rest),
         record'[c].phone = Digits(first)
  PROVE  /\ Held(c)' = {first} \union rest
         /\ \A d : d # c /\ record'[d] = record[d] => Held(d)' = Held(d)
<1>1. \A d : d # c => RowsOf(d)' = RowsOf(d)
  BY DEF RowsOf, RowsReplaced, Row
<1>2. RowsOf(c)' = {Row(first, c, TRUE)} \union {Row(n, c, FALSE) : n \in rest \ {first}}
  BY DEF RowsOf, RowsReplaced, Row
<1>3. \A n : Row(n, c, TRUE).phone.number = n /\ Row(n, c, FALSE).phone.number = n
             /\ Digits(n).number = n
  BY DEF Row, Digits
<1>4. {w.phone.number : w \in RowsOf(c)'} = {first} \union rest
  <2>1. \A w \in RowsOf(c)' : w.phone.number \in {first} \union rest
    <3>1. \A w \in RowsOf(c)' : \/ w = Row(first, c, TRUE)
                               \/ \E n \in rest : w = Row(n, c, FALSE)
      BY <1>2
    <3>2. \A w : w = Row(first, c, TRUE) => w.phone.number = first
      BY <1>3
    <3>3. \A w, n : w = Row(n, c, FALSE) => w.phone.number = n
      BY <1>3
    <3>4. QED
      BY <3>1, <3>2, <3>3
  <2>2. ASSUME NEW n \in {first} \union rest PROVE \E w \in RowsOf(c)' : w.phone.number = n
    <3>1. CASE n = first
      BY <1>2, <1>3, <3>1
    <3>2. CASE n # first
      <4>1. Row(n, c, FALSE) \in RowsOf(c)'
        BY <1>2, <3>2
      <4>2. QED
        BY <1>3, <4>1
    <3>3. QED
      BY <3>1, <3>2
  <2>3. QED
    BY <2>1, <2>2
<1>5. QED
  BY <1>1, <1>3, <1>4 DEF Held

\* What is stored of a replacement is digits.
LEMMA ReplacedFade ==
  ASSUME NEW c, NEW first, NEW rest, rows' = RowsReplaced(c, first, rest),
         NEW w \in rows'
  PROVE  w \in rows \/ w.phone.form = "digits"
<1>1. \A n : Row(n, c, TRUE).phone.form = "digits" /\ Row(n, c, FALSE).phone.form = "digits"
  BY DEF Row, Digits
<1>2. QED
  BY <1>1 DEF RowsReplaced

\* The staff give numbers, knowingly or not.
LEMMA UpdateHolds ==
  ASSUME TypeInv, HoldersInv, NEW r \in Requests, CommitUpdate(r)
  PROVE  HoldersInv'
<1> SUFFICES ASSUME NEW c, c = req[r].on, NEW p, p = req[r].plan,
                    NEW first, first = IF p.phone # Same THEN p.phone ELSE req[r].primary
             PROVE  HoldersInv'
  OBVIOUS
<1> DEFINE phones == p.phone # Same \/ p.seconds # {Same}
<1>1. /\ c \in Existing /\ Existing' = Existing
      /\ \A d \in Existing \ {c} : record'[d] = record[d]
      /\ record'[c].phone = IF phones THEN Digits(first) ELSE record[c].phone
  BY UpdatedColumns
<1>2. PICK q \in Request : Turns(r, q) /\ q.at \notin Lookups
  BY UpdateTurns DEF Lookups
<1>3. CASE phones
  <2>1. /\ rows' = RowsReplaced(c, first, Rest(p))
        /\ doubled' = doubled \union Shared(c, {first} \union Rest(p))
    BY <1>3 DEF CommitUpdate
  <2>2. record'[c].phone = Digits(first)
    BY <1>1, <1>3
  <2>3. /\ Held(c)' = {first} \union Rest(p)
        /\ \A d \in Existing \ {c} : Held(d)' = Held(d)
    BY <1>1, <2>1, <2>2, ReplacedHeld
  <2>4. \A n \in {first} \union Rest(p) : n \in doubled' \/ Holders(n)' \subseteq {c}
    BY <1>1, <2>1, <2>3 DEF Shared, Holders
  <2>5. Gives(c, {first} \union Rest(p))
    BY <1>1, <2>1, <2>3, <2>4 DEF Gives
  <2>6. Fading
    <3>1. \A d \in Existing' : \/ d \in Existing /\ record'[d].phone = record[d].phone
                               \/ record'[d].phone.form = "digits"
      BY <1>1, <2>2 DEF Digits
    <3>2. \A w \in rows' : w \in rows \/ w.phone.form = "digits"
      BY <2>1, ReplacedFade
    <3>3. QED
      BY <3>1, <3>2, DigitsFade
  <2>7. QED
    BY <1>2, <2>5, <2>6, GivenNumbers
<1>4. CASE ~phones
  <2>1. rows' = rows /\ doubled' = doubled /\ record'[c].phone = record[c].phone
    <3>1. rows' = rows /\ doubled' = doubled
      BY <1>4 DEF CommitUpdate
    <3>2. QED
      BY <1>1, <1>4, <3>1
  <2>2. \A d \in Existing : Held(d)' = Held(d)
    BY <1>1, <2>1 DEF Held, RowsOf
  <2>3. Gives(c, {})
    BY <1>1, <2>1, <2>2 DEF Gives
  <2>4. Fading
    BY <1>1, <2>1, DigitsFade
  <2>5. QED
    BY <1>2, <2>3, <2>4, GivenNumbers
<1>5. QED
  BY <1>3, <1>4

LEMMA CreateHolds ==
  ASSUME TypeInv, HoldersInv, NEW r \in Requests, CommitCreate(r)
  PROVE  HoldersInv'
<1> SUFFICES ASSUME NEW p, p = req[r].plan, NEW c, c = Fresh PROVE HoldersInv'
  OBVIOUS
<1> DEFINE next == [req[r] EXCEPT !.at = "sync", !.on = c]
<1>1. c \in Customers /\ c \notin Existing /\ req[r] \in Request
  BY FreshFits DEF CommitCreate, TypeInv, TypeOK
<1>2. /\ Overtakes(r, next, c) /\ record' = Stored(c, Created(p))
      /\ rows' = RowsReplaced(c, p.phone, Rest(p))
      /\ doubled' = doubled \union Shared(c, {p.phone} \union Rest(p))
  BY DEF CommitCreate
<1>3. next \in Request /\ next.at \notin Lookups
  BY <1>1 DEF Request, FollowUps, Lookups
<1>4. /\ Existing' = Existing \union {c}
      /\ record'[c].phone = Digits(p.phone) /\ \A d \in Existing : record'[d] = record[d]
  BY <1>1, <1>2 DEF Stored, Existing, Created
<1>5. /\ Held(c)' = {p.phone} \union Rest(p)
      /\ \A d \in Existing \ {c} : Held(d)' = Held(d)
  BY <1>2, <1>4, ReplacedHeld
<1>6. \A n \in {p.phone} \union Rest(p) : n \in doubled' \/ Holders(n)' \subseteq {c}
  BY <1>1, <1>2, <1>4, <1>5 DEF Shared, Holders
<1>7. Gives(c, {p.phone} \union Rest(p))
  BY <1>1, <1>2, <1>4, <1>5, <1>6 DEF Gives
<1>8. Fading
  <2>1. \A d \in Existing' : \/ d \in Existing /\ record'[d].phone = record[d].phone
                             \/ record'[d].phone.form = "digits"
    BY <1>4 DEF Digits
  <2>2. \A w \in rows' : w \in rows \/ w.phone.form = "digits"
    BY <1>2, ReplacedFade
  <2>3. QED
    BY <2>1, <2>2, DigitsFade
<1>9. Turns(r, next)
  BY <1>2, <1>3, OvertakesTurns
<1>10. QED
  BY <1>3, <1>7, <1>8, <1>9, GivenNumbers

\* A lookup gives a number that nobody holds, unless somebody holds it hidden: the
\* columns rule out the digits, and the search has found no other form.
LEMMA FoundHolds ==
  ASSUME TypeInv, HoldersInv, NEW r \in Requests, CreateFound(r)
  PROVE  HoldersInv'
<1> SUFFICES ASSUME NEW c, c = Fresh, NEW n, n = req[r].number PROVE HoldersInv'
  OBVIOUS
<1>1. c \in Customers /\ c \notin Existing /\ RowsOf(c) = {} /\ req[r].at \in Lookups
      /\ n \in Numbers
  BY FreshFits DEF CreateFound, TypeInv, Lookups, Fits
<1>2. /\ rows' = rows \union {Row(n, c, TRUE)} /\ ~Taken(c, n, {}) /\ req[r].at = "create"
      /\ doubled' = IF Hidden(n) THEN doubled \union {n} ELSE doubled
  BY DEF CreateFound
<1>3. PICK who \in Staff \union {Unassigned} :
        record' = Stored(c, Looked(r, who)) /\ Overtakes(r, GoesTo(r, c, who), c)
  BY DEF CreateFound, Collectors
<1>4. /\ Existing' = Existing \union {c}
      /\ record'[c].phone = Digits(n) /\ \A d \in Existing : record'[d] = record[d]
  BY <1>1, <1>3 DEF Stored, Existing, Looked
<1>5. \A d \in Existing : RowsOf(d)' = RowsOf(d)
  BY <1>1, <1>2 DEF RowsOf, Row
<1>6. RowsOf(c)' = {Row(n, c, TRUE)}
  BY <1>1, <1>2 DEF RowsOf, Row
<1>7. Held(c)' = {n}
  BY <1>4, <1>6 DEF Held, Row, Digits
<1>8. \A d \in Existing \ {c} : Held(d)' = Held(d)
  BY <1>4, <1>5 DEF Held
<1>9. ASSUME ~Hidden(n), NEW d \in Existing PROVE n \notin Held(d)
  <2>1. ASSUME NEW w \in Written, w.number = n,
               ColumnOf(d, n, w.form) \/ RowOf(d, n, w.form)
        PROVE  FALSE
    <3>1. w.form \in {"digits", "plus", "spaced", "hidden"}
      BY <2>1 DEF Written, Forms
    <3>2. w.form # "digits"
      BY <1>1, <1>2, <2>1 DEF ColumnOf, RowOf, Taken, ColumnTaken, RowTaken, RowsOf, Digits
    <3>3. w.form # "hidden"
      BY <1>9, <2>1 DEF ColumnOf, RowOf, Hidden, Exists
    <3>4. w.form \notin {"plus", "spaced"}
      BY <1>2, <2>1 DEF HoldersInv, Aware
    <3>5. QED
      BY <3>1, <3>2, <3>3, <3>4
  <2>2. \A w \in Written : w = [number |-> w.number, form |-> w.form]
    BY DEF Written
  <2>3. record[d].phone \in Written /\ \A w \in RowsOf(d) : w.phone \in Written
    BY DEF TypeInv, TypeOK, Record, RowsOf
  <2>4. record[d].phone.number # n
    BY <2>1, <2>2, <2>3 DEF ColumnOf, Exists
  <2>5. \A w \in RowsOf(d) : w.phone.number # n
    BY <2>1, <2>2, <2>3 DEF RowOf, RowsOf
  <2>6. QED
    BY <2>4, <2>5 DEF Held
<1>10. n \in doubled' \/ Holders(n)' \subseteq {c}
  BY <1>2, <1>4, <1>8, <1>9 DEF Holders
<1>11. Gives(c, {n})
  BY <1>1, <1>2, <1>4, <1>7, <1>8, <1>10 DEF Gives
<1>12. Fading
  <2>1. \A d \in Existing' : \/ d \in Existing /\ record'[d].phone = record[d].phone
                             \/ record'[d].phone.form = "digits"
    BY <1>4 DEF Digits
  <2>2. \A w \in rows' : w \in rows \/ w.phone.form = "digits"
    BY <1>2 DEF Row, Digits
  <2>3. QED
    BY <2>1, <2>2, DigitsFade
<1>13. Turns(r, GoesTo(r, c, who)) /\ GoesTo(r, c, who).at \notin Lookups
  BY <1>1, <1>3, GoesToFits, OvertakesTurns DEF Lookups
<1>14. QED
  BY <1>11, <1>12, <1>13, GivenNumbers

\* It rewrites the number of the one who has it in an older form; a row with the
\* digits of somebody else becomes his.
LEMMA FixHolds ==
  ASSUME TypeInv, HoldersInv, NEW r \in Requests, Fix(r)
  PROVE  HoldersInv'
<1> SUFFICES ASSUME NEW c, c = req[r].on, NEW n, n = req[r].number PROVE HoldersInv'
  OBVIOUS
<1>1. c \in Customers /\ c \in Existing /\ n \in Numbers
  BY DEF TypeInv, Fix, Fits, Exists, Lookups
<1>2. /\ rows' = {w \in rows : w.phone # Digits(n)} \union {Row(n, c, TRUE)}
      /\ doubled' = doubled /\ req[r].at = "fix" /\ ~ColumnTaken(c, Digits(n))
  BY DEF Fix
<1>3. /\ Existing' = Existing /\ record'[c].phone = Digits(n)
      /\ \A d \in Existing \ {c} : record'[d] = record[d]
  BY <1>1 DEF Fix, TypeInv, TypeOK, Existing, Record
<1>4. \A d \in Existing \ {c} : RowsOf(d)' = {w \in RowsOf(d) : w.phone # Digits(n)}
  BY <1>2 DEF RowsOf, Row
<1>5. RowsOf(c)' \subseteq RowsOf(c) \union {Row(n, c, TRUE)}
  BY <1>2 DEF RowsOf
<1>6. Digits(n).number = n /\ Row(n, c, TRUE).phone.number = n
  BY DEF Digits, Row
<1>7. Held(c)' \subseteq Held(c) \union {n}
  BY <1>3, <1>5, <1>6 DEF Held
<1>8. \A d \in Existing \ {c} : Held(d)' \subseteq Held(d)
  BY <1>3, <1>4 DEF Held
<1>9. ASSUME n \notin doubled, NEW d \in Existing \ {c} PROVE n \notin Held(d)'
  <2>1. ASSUME NEW w \in Written, w.number = n, w # Digits(n),
               record[d].phone = w \/ \E v \in RowsOf(d) : v.phone = w
        PROVE  FALSE
    <3>1. w = [number |-> n, form |-> w.form] /\ w.form \in Forms \ {"digits"}
      BY <2>1 DEF Written, Digits
    <3>2. RowOf(d, n, w.form) \/ ColumnOf(d, n, w.form)
      BY <2>1, <3>1 DEF RowOf, ColumnOf, RowsOf, Exists
    <3>3. QED
      BY <1>2, <1>9, <3>1, <3>2 DEF HoldersInv, Aware
  <2>2. record[d].phone \in Written /\ \A w \in RowsOf(d) : w.phone \in Written
    BY DEF TypeInv, TypeOK, Record, RowsOf
  <2>3. record[d].phone # Digits(n)
    BY <1>2 DEF ColumnTaken
  <2>4. record[d].phone.number # n
    BY <2>1, <2>2, <2>3
  <2>5. \A w \in RowsOf(d)' : w.phone.number # n
    BY <1>4, <2>1, <2>2
  <2>6. QED
    BY <1>3, <2>4, <2>5 DEF Held
<1>10. n \in doubled' \/ Holders(n)' \subseteq {c}
  BY <1>2, <1>3, <1>9 DEF Holders
<1>11. Gives(c, {n})
  BY <1>1, <1>2, <1>3, <1>7, <1>8, <1>10 DEF Gives
<1>12. Fading
  <2>1. \A d \in Existing' : \/ d \in Existing /\ record'[d].phone = record[d].phone
                             \/ record'[d].phone.form = "digits"
    BY <1>3 DEF Digits
  <2>2. \A w \in rows' : w \in rows \/ w.phone.form = "digits"
    BY <1>2 DEF Row, Digits
  <2>3. QED
    BY <2>1, <2>2, DigitsFade
<1>13. PICK q \in Request : Goes(r, q) /\ q.at \notin Lookups
  BY FixTyped DEF Lookups
<1>14. QED
  BY <1>11, <1>12, <1>13, GoesTurns, GivenNumbers

\* What follows a transaction or visits a conversation gives nobody a number, nor does
\* a deletion.
LEMMA VisitHolds ==
  ASSUME TypeInv, HoldersInv, NEW r \in Requests,
         Sync(r) \/ Shut(r) \/ Upsert(r) \/ SetStatus(r)
  PROVE  HoldersInv'
<1> SUFFICES ASSUME NEW c, c = req[r].on PROVE HoldersInv'
  OBVIOUS
<1>1. UNCHANGED <<record, rows>> /\ doubled' = doubled
  BY VisitTyped
<1>2. PICK q \in Request : Goes(r, q) /\ q.at \notin Lookups
  BY VisitTyped DEF Lookups
<1>3. Existing' = Existing /\ \A d \in Existing : Held(d)' = Held(d)
  BY <1>1 DEF Existing, Held, RowsOf
<1>4. Gives(c, {})
  <2>1. c \in Existing
    BY DEF Sync, Shut, Upsert, SetStatus, Exists
  <2>2. QED
    BY <1>1, <1>3, <2>1 DEF Gives
<1>5. Fading
  BY <1>1, <1>3, DigitsFade
<1>6. QED
  BY <1>2, <1>4, <1>5, GoesTurns, GivenNumbers

LEMMA DeleteHolds ==
  ASSUME TypeInv, HoldersInv, NEW c \in Customers, Delete(c)
  PROVE  HoldersInv'
<1>1. Existing' = Existing \ {c} /\ doubled' = doubled
  BY DEF Delete, Existing, history
<1>2. \A d \in Existing' : Held(d)' = Held(d) /\ record'[d] = record[d]
  BY <1>1 DEF Held, RowsOf, Delete, Existing
<1>3. \A n : Holders(n)' = Holders(n) \ {c}
  BY <1>1, <1>2 DEF Holders
<1>4. OneHolder'
  BY <1>1, <1>3 DEF HoldersInv, OneHolder
<1>5. Fading
  BY <1>1, <1>2, DigitsFade DEF Delete
<1>6. ASSUME NEW s \in Requests PROVE Aware(s)'
  BY <1>1, <1>5, DeleteTyped, StaysAware DEF HoldersInv
<1>7. QED
  BY <1>4, <1>6 DEF HoldersInv

\* Who has the number in some form holds it.
LEMMA MatchHolds ==
  ASSUME TypeInv, HoldersInv, NEW n \in Numbers \ doubled, NEW c \in Existing,
         record[c].phone.number = n \/ \E w \in rows : w.owner = c /\ w.phone.number = n
  PROVE  \A d : \A f \in Forms \ {"digits"} : RowOf(d, n, f) \/ ColumnOf(d, n, f) => d = c
<1>1. c \in Holders(n)
  BY DEF Holders, Held, RowsOf
<1>2. ASSUME NEW d, NEW f \in Forms \ {"digits"}, RowOf(d, n, f) \/ ColumnOf(d, n, f)
      PROVE  d \in Holders(n)
  <2>1. [number |-> n, form |-> f].number = n
    OBVIOUS
  <2>2. d \in Existing
    BY <1>2 DEF RowOf, ColumnOf, Exists, TypeInv, TypeOK
  <2>3. n \in Held(d)
    BY <1>2, <2>1 DEF RowOf, ColumnOf, Held, RowsOf
  <2>4. QED
    BY <2>2, <2>3 DEF Holders
<1>3. QED
  BY <1>1, <1>2 DEF HoldersInv, OneHolder

\* Only a lookup leaves r where it knows something.
LEMMA LookupsStart ==
  ASSUME TypeInv, NEW r \in Requests, Quiet(r), req'[r].at \in Lookups
  PROVE  \/ FindRow(r) \/ FindColumn(r) \/ FixRefused(r)
         \/ req'[r].at = "row" /\ req'[r].stage = 1
<1> USE DEF Lookups
<1>1. req[r] \in Request /\ req \in [Requests -> Request] /\ Idle.at = "idle"
  BY IdleFits DEF TypeInv, TypeOK
<1>2. ASSUME NEW q, Goes(r, q), q.at \notin Lookups PROVE FALSE
  BY <1>1, <1>2 DEF Goes
<1>3. ASSUME NEW c \in Customers, NEW p \in Plans, AskUpdate(r, c, p) PROVE FALSE
  <2> DEFINE q == [Idle EXCEPT !.at = "commit", !.op = "update", !.on = c,
                     !.plan = p, !.status = record[c].status, !.primary = Primary(c)]
  <2>1. q.at = "commit"
    BY DEF Idle
  <2>2. req' = [req EXCEPT ![r] = q]
    BY <1>3 DEF AskUpdate
  <2>3. QED
    BY <1>1, <2>1, <2>2
<1>4. ASSUME NEW p \in Plans, AskCreate(r, p) PROVE FALSE
  <2> DEFINE q == [Idle EXCEPT !.at = "commit", !.op = "create", !.plan = p]
  <2>1. q.at = "commit"
    BY DEF Idle
  <2>2. req' = [req EXCEPT ![r] = q]
    BY <1>4 DEF AskCreate
  <2>3. QED
    BY <1>1, <2>1, <2>2
<1>5. ASSUME NEW c \in Customers, NEW op, NEW to, AskConversation(r, c, op, to) PROVE FALSE
  <2> DEFINE q == [Idle EXCEPT !.at = "who", !.op = op, !.on = c, !.rounds = Calls[op],
                               !.to = to]
  <2>1. q.at = "who"
    BY DEF Idle
  <2>2. QED
    BY <1>2, <1>5, <2>1 DEF AskConversation
<1>6. ASSUME NEW n \in Numbers, NEW op, AskLookup(r, n, op)
      PROVE  req'[r].at = "row" /\ req'[r].stage = 1
  <2> DEFINE q == [Idle EXCEPT !.at = "row", !.op = op, !.number = n]
  <2>1. q.at = "row" /\ q.stage = 1
    BY DEF Idle
  <2>2. req'[r] = q
    BY <1>1, <1>6 DEF AskLookup, Goes
  <2>3. QED
    BY <2>1, <2>2
<1>7. ASSUME ReadCollector(r) \/ ReadWho(r) PROVE FALSE
  <2>1. PICK at \in {"shut", "upsert"} :
          Goes(r, [req[r] EXCEPT !.at = at, !.seen = record[req[r].on].assignee,
                                 !.overtaken = FALSE])
    BY <1>7 DEF ReadCollector, ReadWho, Step
  <2>2. [req[r] EXCEPT !.at = at, !.seen = record[req[r].on].assignee,
                       !.overtaken = FALSE].at = at
    BY <1>1 DEF Request
  <2>3. QED
    BY <1>2, <2>1, <2>2
<1>8. ASSUME UpdateRefused(r) \/ CreateRefused(r) \/ FollowUpRefused(r) \/ FollowUpFails(r)
      PROVE  FALSE
  BY <1>1, <1>2, <1>8 DEF UpdateRefused, CreateRefused, FollowUpRefused, FollowUpFails, Step
<1>9. ASSUME LookAgain(r) PROVE req'[r].at = "row" /\ req'[r].stage = 1
  <2>1. req'[r] = [req[r] EXCEPT !.at = "row", !.stage = 1, !.again = TRUE]
    BY <1>1, <1>9 DEF LookAgain, Step, Goes
  <2>2. QED
    BY <1>1, <2>1 DEF Request
<1>10. QED
  BY <1>3, <1>4, <1>5, <1>6, <1>7, <1>8, <1>9 DEF Quiet, Ask

\* A lookup that goes on has learnt what Aware says.
LEMMA LookupAware ==
  ASSUME TypeInv, HoldersInv, NEW r \in Requests, Quiet(r)
  PROVE  Aware(r)'
<1>0. /\ req[r] \in Request /\ Aware(r) /\ req \in [Requests -> Request]
      /\ UNCHANGED <<record, rows, doubled>>
  BY QuietSteps DEF HoldersInv, TypeInv, TypeOK, tables
<1>1. \A d, n, f : (RowOf(d, n, f)' <=> RowOf(d, n, f))
                   /\ (ColumnOf(d, n, f)' <=> ColumnOf(d, n, f))
  BY <1>0 DEF RowOf, ColumnOf, Exists, Existing
<1>2. CASE req'[r].at \notin Lookups
  BY <1>2 DEF Aware, Lookups
<1>3. CASE req'[r].at = "row" /\ req'[r].stage = 1
  BY <1>3 DEF Aware
<1>4. ASSUME NEW c \in Existing, NEW b \in BOOLEAN, Match(r, c, b), req[r].at \in Lookups,
             record[c].phone.number = req[r].number
               \/ \E w \in rows : w.owner = c /\ w.phone.number = req[r].number
      PROVE  Aware(r)'
  <2>1. PICK q \in Request :
          /\ Step(r, q)
          /\ \/ q.at = "fix" /\ q.on = c /\ q.number = req[r].number
             \/ q \in Reached(r, c)
    BY <1>4, MatchFits
  <2>2. req'[r] = q
    BY <1>0, <2>1 DEF Step, Goes
  <2>3. CASE q.at = "fix" /\ q.on = c /\ q.number = req[r].number
    <3>1. req[r].number \in Numbers
      BY <1>4 DEF TypeInv, Fits
    <3>2. req[r].number \notin doubled =>
            \A d : \A f \in Forms \ {"digits"} :
              RowOf(d, req[r].number, f) \/ ColumnOf(d, req[r].number, f) => d = c
      BY <1>4, <3>1, MatchHolds
    <3>3. QED
      BY <1>0, <1>1, <2>2, <2>3, <3>2 DEF Aware
  <2>4. CASE q \in Reached(r, c)
    <3>1. q.at \in {"idle", "who", "upsert"}
      BY <1>4, <2>4, ReachedFits
    <3>2. QED
      BY <2>2, <3>1 DEF Aware
  <2>5. QED
    BY <2>1, <2>3, <2>4
<1>5. req[r].stage \in 1..3 /\ (req[r].stage = 2 => Searched[req[r].stage] = "plus")
      /\ (req[r].stage = 3 => Searched[req[r].stage] = "spaced")
  BY <1>0 DEF Request, Searched
<1>6. CASE FindRow(r)
  <2>1. req[r].at = "row" /\ req[r].at \in Lookups
    BY <1>6 DEF FindRow, Lookups
  <2>2. ASSUME NEW w \in rows, Found(r, w.phone),
               Match(r, w.owner, req[r].stage > 1 /\ w.primary)
        PROVE  Aware(r)'
    <3>1. (req[r].stage > 1 /\ w.primary) \in BOOLEAN /\ w.owner \in Existing
      BY DEF TypeInv, TypeOK
    <3>2. \E v \in rows : v.owner = w.owner /\ v.phone.number = req[r].number
      BY <2>2 DEF Found
    <3>3. QED
      BY <1>4, <2>1, <2>2, <3>1, <3>2
  <2>3. ASSUME \A w \in rows : ~Surely(r, w.phone), Step(r, [req[r] EXCEPT !.at = "column"])
        PROVE  Aware(r)'
    <3>1. req'[r] = [req[r] EXCEPT !.at = "column"]
      BY <1>0, <2>3 DEF Step, Goes
    <3>2. /\ req'[r].at = "column" /\ req'[r].number = req[r].number
          /\ req'[r].stage = req[r].stage
      BY <1>0, <3>1 DEF Request
    <3>3. \A d : ~RowOf(d, req[r].number, Searched[req[r].stage])
      BY <2>3 DEF Surely, RowOf
    <3>4. /\ req[r].stage = 2 => \A d : ~RowOf(d, req[r].number, "plus")
          /\ req[r].stage = 3 => \A d : ~RowOf(d, req[r].number, "spaced")
      BY <1>5, <3>3
    <3>5. req[r].stage = 3 =>
            \A d : ~RowOf(d, req[r].number, "plus") /\ ~ColumnOf(d, req[r].number, "plus")
      BY <1>0, <2>1 DEF Aware
    <3>6. req[r].stage >= 2 <=> (req[r].stage = 2 \/ req[r].stage = 3)
      BY <1>5
    <3>7. QED
      BY <1>1, <3>2, <3>4, <3>5, <3>6 DEF Aware
  <2>4. QED
    BY <1>6, <2>2, <2>3 DEF FindRow
<1>7. CASE FindColumn(r)
  <2>1. req[r].at = "column" /\ req[r].at \in Lookups /\ TRUE \in BOOLEAN
    BY <1>7 DEF FindColumn, Lookups
  <2>2. ASSUME NEW c \in Existing, Found(r, record[c].phone), Match(r, c, TRUE)
        PROVE  Aware(r)'
    BY <1>4, <2>1, <2>2 DEF Found
  <2>3. ASSUME \A c \in Existing : ~Surely(r, record[c].phone), Step(r, AfterColumn(r))
        PROVE  Aware(r)'
    <3>1. req'[r] = AfterColumn(r)
      BY <1>0, <2>3 DEF Step, Goes
    <3>2. \A d : ~ColumnOf(d, req[r].number, Searched[req[r].stage])
      BY <2>3 DEF Surely, ColumnOf, Exists
    <3>3. /\ req[r].stage = 2 => \A d : ~ColumnOf(d, req[r].number, "plus")
          /\ req[r].stage = 3 => \A d : ~ColumnOf(d, req[r].number, "spaced")
      BY <1>5, <3>2
    <3>4. CASE req[r].stage < Len(Searched)
      <4>1. req'[r] = [req[r] EXCEPT !.at = "row", !.stage = @ + 1]
        BY <3>1, <3>4 DEF AfterColumn
      <4>2. /\ req'[r].at = "row" /\ req'[r].number = req[r].number
            /\ req'[r].stage = req[r].stage + 1
        BY <1>0, <4>1 DEF Request
      <4>3. req'[r].stage = 3 => req[r].stage = 2
        BY <1>5, <4>2
      <4>4. req[r].stage = 2 =>
              \A d : ~RowOf(d, req[r].number, "plus") /\ ~ColumnOf(d, req[r].number, "plus")
        BY <1>0, <2>1, <3>3 DEF Aware
      <4>5. QED
        BY <1>1, <4>2, <4>3, <4>4 DEF Aware
    <3>5. CASE ~(req[r].stage < Len(Searched)) /\ ~req[r].again
      <4>1. req'[r] = [req[r] EXCEPT !.at = "create"] /\ req[r].stage = 3
        BY <1>5, <3>1, <3>5 DEF AfterColumn, Searched
      <4>2. req'[r].at = "create" /\ req'[r].number = req[r].number
        BY <1>0, <4>1 DEF Request
      <4>3. \A d : \A f \in {"plus", "spaced"} :
              ~RowOf(d, req[r].number, f) /\ ~ColumnOf(d, req[r].number, f)
        BY <1>0, <2>1, <3>3, <4>1 DEF Aware
      <4>4. QED
        BY <1>1, <4>2, <4>3 DEF Aware
    <3>6. CASE ~(req[r].stage < Len(Searched)) /\ req[r].again
      <4>1. req'[r] = Idle
        BY <3>1, <3>6 DEF AfterColumn
      <4>2. QED
        BY <4>1, IdleFits DEF Aware
    <3>7. QED
      BY <3>4, <3>5, <3>6
  <2>4. QED
    BY <1>7, <2>2, <2>3 DEF FindColumn
<1>8. CASE FixRefused(r)
  <2>1. req[r].at \in Lookups /\ FALSE \in BOOLEAN
    BY <1>8 DEF FixRefused, Lookups
  <2>2. ASSUME NEW d \in Existing, record[d].phone = Digits(req[r].number), Match(r, d, FALSE)
        PROVE  Aware(r)'
    <3>1. record[d].phone.number = req[r].number
      BY <2>2 DEF Digits
    <3>2. QED
      BY <1>4, <2>1, <2>2, <3>1
  <2>3. ASSUME Step(r, Idle) PROVE Aware(r)'
    <3>1. req'[r] = Idle
      BY <1>0, <2>3 DEF Step, Goes
    <3>2. QED
      BY <3>1, IdleFits DEF Aware
  <2>4. QED
    BY <1>8, <2>2, <2>3 DEF FixRefused
<1>9. QED
  BY <1>2, <1>3, <1>6, <1>7, <1>8, LookupsStart

LEMMA QuietHolds ==
  ASSUME TypeInv, HoldersInv, NEW r \in Requests, Quiet(r)
  PROVE  HoldersInv'
<1>1. UNCHANGED <<record, rows, doubled>> /\ \A s \in Requests \ {r} : req'[s] = req[s]
  BY QuietSteps DEF TypeInv, TypeOK, tables
<1>2. \A n : Holders(n)' = Holders(n)
  BY <1>1 DEF Holders, Held, RowsOf, Existing
<1>3. Fading
  BY <1>1, DigitsFade DEF Existing
<1>4. ASSUME NEW s \in Requests \ {r} PROVE Aware(s)'
  BY <1>1, <1>3, <1>4, StaysAware DEF HoldersInv
<1>5. OneHolder'
  BY <1>1, <1>2 DEF HoldersInv, OneHolder
<1>6. QED
  BY <1>4, <1>5, LookupAware DEF HoldersInv

\* A number leads to one customer, however many requests and messages of it are
\* handled at once, but for what NumberHasOneHolder names.
THEOREM OneHolderEach == Spec => []NumberHasOneHolder
<1>1. Init => HoldersInv
  <2> SUFFICES ASSUME Init PROVE HoldersInv
    OBVIOUS
  <2>1. Existing = {First} /\ \A r \in Requests : req[r] = Idle
    BY DEF Init, Existing
  <2>2. \A n : Holders(n) \subseteq {First}
    BY <2>1 DEF Holders
  <2>3. QED
    BY <2>1, <2>2, IdleFits DEF HoldersInv, OneHolder, Aware
<1>2. ASSUME TypeInv, HoldersInv, [Next]_vars PROVE HoldersInv'
  <2>1. CASE UNCHANGED vars
    <3>1. UNCHANGED <<record, rows, doubled, req>>
      BY <2>1 DEF vars, tables, history
    <3>2. \A n : Holders(n)' = Holders(n)
      BY <3>1 DEF Holders, Held, RowsOf, Existing
    <3>3. Fading
      BY <3>1, DigitsFade DEF Existing
    <3>4. \A r \in Requests : Aware(r)'
      BY <1>2, <3>1, <3>3, StaysAware DEF HoldersInv
    <3>5. QED
      BY <1>2, <3>1, <3>2, <3>4 DEF HoldersInv, OneHolder
  <2>2. QED
    BY <1>2, <2>1, Steps, QuietHolds, UpdateHolds, CreateHolds, VisitHolds, FixHolds,
       FoundHolds, DeleteHolds
<1>3. ASSUME HoldersInv PROVE NumberHasOneHolder
  <2> SUFFICES ASSUME NEW n \in Numbers \ doubled PROVE Cardinality(Holders(n)) <= 1
    BY DEF NumberHasOneHolder
  <2>1. CASE Holders(n) = {}
    BY <2>1, FS_EmptySet
  <2>2. ASSUME NEW c, c \in Holders(n) PROVE Cardinality(Holders(n)) <= 1
    <3>1. Holders(n) = {c}
      BY <1>3, <2>2 DEF HoldersInv, OneHolder
    <3>2. QED
      <4>1. Cardinality(Holders(n)) = 1
        BY <3>1, FS_Singleton
      <4>2. QED
        BY <4>1
  <2>3. QED
    BY <2>1, <2>2
<1>4. QED
  BY <1>1, <1>2, <1>3, Typed, PTL DEF Spec

(***************************************************************************)
(* The phone column and the rows agree.                                    *)
(***************************************************************************)

MainRow(c) == [phone |-> record[c].phone, owner |-> c, primary |-> TRUE]

RowsMatch(c) ==
  RowsOf(c) # {} =>
    /\ MainRow(c) \in rows
    /\ c \in relabelled \/ \A w \in RowsOf(c) : w.primary => w = MainRow(c)

RowsInv == \A c \in Existing : RowsMatch(c)

\* A customer whose rows and phone column stay as they are.
LEMMA MatchKept ==
  ASSUME NEW c, RowsMatch(c), RowsOf(c)' = RowsOf(c), record'[c].phone = record[c].phone,
         c \in relabelled => c \in relabelled'
  PROVE  RowsMatch(c)'
<1>1. MainRow(c)' = MainRow(c) /\ MainRow(c).owner = c
  BY DEF MainRow
<1>2. \A w : w.owner = c => (w \in rows' <=> w \in RowsOf(c)') /\ (w \in rows <=> w \in RowsOf(c))
  BY DEF RowsOf
<1>3. MainRow(c) \in rows' <=> MainRow(c) \in rows
  BY <1>1, <1>2
<1>4. QED
  BY <1>1, <1>3 DEF RowsMatch

\* A customer whose numbers are written anew.
LEMMA MatchReplaced ==
  ASSUME NEW c, NEW first, NEW rest, rows' = RowsReplaced(c, first, rest),
         record'[c].phone = Digits(first)
  PROVE  RowsMatch(c)' /\ \A d : d # c => RowsOf(d)' = RowsOf(d)
<1>1. MainRow(c)' = Row(first, c, TRUE)
  BY DEF MainRow, Row
<1>2. ASSUME NEW w \in RowsOf(c)' PROVE w = Row(first, c, TRUE) \/ \E n \in rest : w = Row(n, c, FALSE)
  BY <1>2 DEF RowsOf, RowsReplaced
<1>3. ASSUME NEW n, NEW w, w = Row(n, c, FALSE) PROVE ~w.primary
  BY <1>3 DEF Row
<1>4. \A w \in RowsOf(c)' : w.primary => w = MainRow(c)'
  BY <1>1, <1>2, <1>3
<1>5. MainRow(c)' \in rows'
  BY <1>1 DEF RowsReplaced
<1>6. RowsMatch(c)'
  BY <1>4, <1>5 DEF RowsMatch
<1>7. \A d : d # c => RowsOf(d)' = RowsOf(d)
  BY DEF RowsOf, RowsReplaced, Row
<1>8. QED
  BY <1>6, <1>7

LEMMA UpdateMatches ==
  ASSUME TypeInv, RowsInv, NEW r \in Requests, CommitUpdate(r)
  PROVE  RowsInv'
<1> SUFFICES ASSUME NEW c, c = req[r].on, NEW p, p = req[r].plan,
                    NEW first, first = IF p.phone # Same THEN p.phone ELSE req[r].primary
             PROVE  RowsInv'
  OBVIOUS
<1> DEFINE phones == p.phone # Same \/ p.seconds # {Same}
<1>1. /\ c \in Existing /\ Existing' = Existing /\ \A d \in Existing \ {c} : record'[d] = record[d]
      /\ record'[c].phone = IF phones THEN Digits(first) ELSE record[c].phone
  BY UpdatedColumns
<1>2. \A d \in relabelled : d \in relabelled' \/ (phones /\ d = c)
  BY DEF CommitUpdate
<1>3. CASE phones
  <2>1. rows' = RowsReplaced(c, first, Rest(p))
    BY <1>3 DEF CommitUpdate
  <2>2. RowsMatch(c)' /\ \A d \in Existing \ {c} : RowsOf(d)' = RowsOf(d)
    BY <1>1, <1>3, <2>1, MatchReplaced
  <2>3. ASSUME NEW d \in Existing \ {c} PROVE RowsMatch(d)'
    BY <1>1, <1>2, <2>2, <2>3, MatchKept DEF RowsInv
  <2>4. QED
    BY <1>1, <2>2, <2>3 DEF RowsInv
<1>4. CASE ~phones
  <2>1. rows' = rows
    BY <1>4 DEF CommitUpdate
  <2>2. ASSUME NEW d \in Existing PROVE RowsMatch(d)'
    BY <1>1, <1>2, <1>4, <2>1, <2>2, MatchKept DEF RowsInv, RowsOf
  <2>3. QED
    BY <1>1, <2>2 DEF RowsInv
<1>5. QED
  BY <1>3, <1>4

LEMMA CreateMatches ==
  ASSUME TypeInv, RowsInv, NEW r \in Requests, CommitCreate(r)
  PROVE  RowsInv'
<1> SUFFICES ASSUME NEW p, p = req[r].plan, NEW c, c = Fresh PROVE RowsInv'
  OBVIOUS
<1>1. c \notin Existing
  BY FreshFits DEF CommitCreate, TypeInv
<1>2. /\ record' = Stored(c, Created(p)) /\ rows' = RowsReplaced(c, p.phone, Rest(p))
      /\ relabelled' = relabelled
  BY DEF CommitCreate
<1>3. /\ Existing' = Existing \union {c}
      /\ record'[c].phone = Digits(p.phone) /\ \A d \in Existing : record'[d] = record[d]
  BY <1>1, <1>2 DEF Stored, Existing, Created
<1>4. RowsMatch(c)' /\ \A d \in Existing : RowsOf(d)' = RowsOf(d)
  BY <1>1, <1>2, <1>3, MatchReplaced
<1>5. ASSUME NEW d \in Existing PROVE RowsMatch(d)'
  BY <1>2, <1>3, <1>4, <1>5, MatchKept DEF RowsInv
<1>6. QED
  BY <1>3, <1>4, <1>5 DEF RowsInv

LEMMA FoundMatches ==
  ASSUME TypeInv, RowsInv, NEW r \in Requests, CreateFound(r)
  PROVE  RowsInv'
<1> SUFFICES ASSUME NEW n, n = req[r].number, NEW c, c = Fresh PROVE RowsInv'
  OBVIOUS
<1>1. c \notin Existing /\ RowsOf(c) = {}
  BY FreshFits DEF CreateFound, TypeInv
<1>2. rows' = rows \union {Row(n, c, TRUE)} /\ relabelled' = relabelled
  BY DEF CreateFound
<1>3. PICK who \in Collectors(r) : record' = Stored(c, Looked(r, who))
  BY DEF CreateFound
<1>4. /\ Existing' = Existing \union {c}
      /\ record'[c].phone = Digits(n) /\ \A d \in Existing : record'[d] = record[d]
  BY <1>1, <1>3 DEF Stored, Existing, Looked
<1>5. RowsOf(c)' = {Row(n, c, TRUE)} /\ \A d \in Existing : RowsOf(d)' = RowsOf(d)
  BY <1>1, <1>2 DEF RowsOf, Row
<1>6. MainRow(c)' = Row(n, c, TRUE)
  BY <1>4 DEF MainRow, Row
<1>7. RowsMatch(c)'
  BY <1>2, <1>5, <1>6 DEF RowsMatch
<1>8. ASSUME NEW d \in Existing PROVE RowsMatch(d)'
  BY <1>2, <1>4, <1>5, <1>8, MatchKept DEF RowsInv
<1>9. QED
  BY <1>4, <1>7, <1>8 DEF RowsInv

\* A row that changes hands was not the main row of the one who had it, for the
\* column is unique.
LEMMA FixMatches ==
  ASSUME TypeInv, RowsInv, NEW r \in Requests, Fix(r)
  PROVE  RowsInv'
<1> SUFFICES ASSUME NEW c, c = req[r].on, NEW n, n = req[r].number PROVE RowsInv'
  OBVIOUS
<1>1. c \in Existing
  BY DEF TypeInv, Fix, Fits, Exists
<1>2. /\ rows' = {w \in rows : w.phone # Digits(n)} \union {Row(n, c, TRUE)}
      /\ relabelled' = relabelled \union {c}
      /\ \A d \in Existing \ {c} : record[d].phone # Digits(n)
  BY DEF Fix, ColumnTaken
<1>3. /\ Existing' = Existing /\ record'[c].phone = Digits(n)
      /\ \A d \in Existing \ {c} : record'[d] = record[d]
  BY <1>1 DEF Fix, TypeInv, TypeOK, Existing, Record
<1>4. RowsMatch(c)'
  <2>1. MainRow(c)' = Row(n, c, TRUE)
    BY <1>3 DEF MainRow, Row
  <2>2. QED
    BY <1>2, <2>1 DEF RowsMatch
<1>5. ASSUME NEW d \in Existing \ {c} PROVE RowsMatch(d)'
  <2>1. RowsOf(d)' = {w \in RowsOf(d) : w.phone # Digits(n)}
    BY <1>2 DEF RowsOf, Row
  <2>2. MainRow(d)' = MainRow(d) /\ MainRow(d).phone # Digits(n)
    BY <1>2, <1>3 DEF MainRow
  <2>3. QED
    BY <1>2, <2>1, <2>2 DEF RowsInv, RowsMatch
<1>6. QED
  BY <1>3, <1>4, <1>5 DEF RowsInv

LEMMA DeleteMatches ==
  ASSUME RowsInv, NEW c \in Customers, Delete(c)
  PROVE  RowsInv'
<1>1. Existing' = Existing \ {c} /\ (\A d \in Existing' : record'[d] = record[d])
      /\ relabelled' = relabelled
  BY DEF Delete, Existing, history
<1>2. \A d \in Existing' : RowsOf(d)' = RowsOf(d)
  BY <1>1 DEF Delete, RowsOf
<1>3. ASSUME NEW d \in Existing' PROVE RowsMatch(d)'
  BY <1>1, <1>2, <1>3, MatchKept DEF RowsInv
<1>4. QED
  BY <1>3 DEF RowsInv

\* The column of a customer and his rows agree, see RowsAgree.
THEOREM ColumnAndRowsAgree == Spec => []RowsAgree
<1>1. Init => RowsInv
  <2> SUFFICES ASSUME Init PROVE RowsInv
    OBVIOUS
  <2>1. Existing = {First} /\ rows \subseteq {MainRow(First)}
    BY DEF Init, Existing, MainRow
  <2>2. QED
    BY <2>1 DEF RowsInv, RowsMatch, RowsOf
<1>2. ASSUME TypeInv, RowsInv, [Next]_vars PROVE RowsInv'
  <2>1. ASSUME UNCHANGED <<record, rows, relabelled>> PROVE RowsInv'
    BY <1>2, <2>1, MatchKept DEF RowsInv, RowsOf, Existing
  <2>2. CASE UNCHANGED vars
    BY <2>1, <2>2 DEF vars, tables, history
  <2>3. ASSUME NEW r \in Requests,
               Quiet(r) \/ Sync(r) \/ Shut(r) \/ Upsert(r) \/ SetStatus(r)
        PROVE  RowsInv'
    BY <1>2, <2>1, <2>3, QuietSteps, VisitTyped DEF tables
  <2>4. QED
    BY <1>2, <2>2, <2>3, Steps, UpdateMatches, CreateMatches, FixMatches, FoundMatches,
       DeleteMatches
<1>3. ASSUME RowsInv PROVE RowsAgree
  <2> SUFFICES ASSUME NEW c \in Existing, RowsOf(c) # {}
               PROVE  /\ MainRow(c) \in rows
                      /\ c \in relabelled \/ Cardinality({w \in RowsOf(c) : w.primary}) = 1
    BY DEF RowsAgree, MainRow
  <2>1. MainRow(c) \in rows /\ MainRow(c).owner = c /\ MainRow(c).primary
    BY <1>3 DEF RowsInv, RowsMatch, MainRow
  <2>2. ASSUME c \notin relabelled PROVE Cardinality({w \in RowsOf(c) : w.primary}) = 1
    <3>1. {w \in RowsOf(c) : w.primary} = {MainRow(c)}
      BY <1>3, <2>1, <2>2 DEF RowsInv, RowsMatch, RowsOf
    <3>2. QED
      BY <3>1, FS_Singleton
  <2>3. QED
    BY <2>1, <2>2
<1>4. QED
  BY <1>1, <1>2, <1>3, Typed, PTL DEF Spec

(***************************************************************************)
(* The conversation follows the customer. What a request writes of him is    *)
(* what it read unless it was overtaken, and is then raced or skipped; a     *)
(* request that blocked him keeps Closing true until it closes, or is cut.   *)
(***************************************************************************)

\* The two halves of ConversationFollows, for one customer.
Mirror(c) ==
  c \notin raced /\ talk[c].status # "none" => talk[c].assignee = record[c].assignee
Close(c) ==
  c \notin cut \union skipped \union opened /\ Blocked(record[c].status) /\ ~Closing(c) =>
    talk[c].status = "CLOSED"

SettledInv ==
  /\ \A c \in Existing : Mirror(c) /\ Close(c)
  /\ \A c \in Customers \ Existing : talk[c].status = "none"
  /\ \A r \in Requests : Informed(r)

\* A request that has yet to close the conversation of c.
ClosesNext(q, c) ==
  q.on = c /\ (q.at \in {"close", "shut"} \/ (q.at = "sync" /\ Blocked(q.plan.status)))

\* A step of r leaves the other requests closing what they are to close.
LEMMA ClosingKept ==
  ASSUME NEW r \in Requests, NEW q, Turns(r, q), NEW c
  PROVE  /\ Closing(c) => ClosesNext(req[r], c) \/ Closing(c)'
         /\ ClosesNext(q, c) => Closing(c)'
<1>1. \A s \in Requests \ {r} : ClosesNext(req[s], c) => ClosesNext(req'[s], c)
  BY DEF Turns, ClosesNext
<1>2. Closing(c) <=> \E s \in Requests : ClosesNext(req[s], c)
  BY DEF Closing, ClosesNext
<1>3. Closing(c)' <=> \E s \in Requests : ClosesNext(req'[s], c)
  BY DEF Closing, ClosesNext
<1>4. req'[r] = q
  BY DEF Turns
<1>5. QED
  BY <1>1, <1>2, <1>3, <1>4

\* A step of r that writes the record or the conversation of c only.
Touches(r, q, c) ==
  /\ Turns(r, q) /\ (req[r].at \in FollowUps => req[r].on = c)
  /\ c \in Existing' /\ Existing' = Existing \union {c} /\ (c \in Existing \/ c \notin used)
  /\ used \subseteq used' /\ raced \subseteq raced' /\ cut \subseteq cut'
  /\ skipped \subseteq skipped' /\ opened \ {c} \subseteq opened'
  /\ \A d \in Existing \ {c} : record'[d].status = record[d].status
                               /\ record'[d].assignee = record[d].assignee
  /\ \A d \in Customers \ {c} : talk'[d] = talk[d]
  /\ talk[c].status # "none" => talk'[c].status # "none"
  /\ \/ \A s \in Requests \ {r} : req'[s].overtaken \/ req[s].on # c
     \/ /\ c \in Existing
        /\ record'[c].status = record[c].status /\ record'[c].assignee = record[c].assignee

LEMMA SettledByStep ==
  ASSUME TypeInv, SettledInv, NEW r \in Requests, NEW q, NEW c \in Customers,
         Touches(r, q, c), Informed(r)', Mirror(c)', Close(c)'
  PROVE  SettledInv'
<1>1. ASSUME NEW d \in Existing, d # c PROVE Mirror(d)' /\ Close(d)'
  <2>1. /\ record'[d].status = record[d].status /\ record'[d].assignee = record[d].assignee
        /\ talk'[d] = talk[d] /\ d \in Customers
    BY <1>1 DEF Touches, TypeInv, TypeOK
  <2>2. d \in raced => d \in raced'
    BY DEF Touches
  <2>3. d \in cut \union skipped \union opened => d \in (cut \union skipped \union opened)'
    BY <1>1 DEF Touches
  <2>4. Closing(d) => Closing(d)'
    <3>1. ~ClosesNext(req[r], d)
      BY <1>1 DEF Touches, ClosesNext, FollowUps
    <3>2. QED
      BY <3>1, ClosingKept DEF Touches
  <2>5. Mirror(d) /\ Close(d)
    BY DEF SettledInv
  <2>6. Mirror(d)'
    BY <2>1, <2>2, <2>5 DEF Mirror
  <2>7. Close(d)'
    BY <2>1, <2>3, <2>4, <2>5 DEF Close
  <2>8. QED
    BY <2>6, <2>7
<1>2. \A d \in Customers \ Existing' : talk'[d].status = "none"
  BY DEF SettledInv, Touches
<1>3. ASSUME NEW s \in Requests \ {r} PROVE Informed(s)'
  <2>1. Informed(s) /\ req'[s].at = req[s].at /\ req'[s].on = req[s].on
        /\ (req'[s].overtaken \/ req'[s] = req[s])
    BY DEF SettledInv, Touches, Turns
  <2>2. ASSUME req'[s].at = "turn"
        PROVE  req'[s].on \in used' /\ (req'[s].on \in Existing' => talk'[req'[s].on].status # "none")
    <3>1. req[s].on \in used /\ (Exists(req[s].on) => talk[req[s].on].status # "none")
          /\ req[s].on \in Customers
      BY <2>1, <2>2 DEF Informed, TypeInv, Fits
    <3>2. QED
      BY <2>1, <3>1 DEF Touches, Exists
  <2>3. ASSUME req'[s].on \in Existing', ~req'[s].overtaken
        PROVE  /\ req'[s].at = "commit" /\ req'[s].op = "update" =>
                    req'[s].status = record'[req'[s].on].status
               /\ req'[s].at = "sync" =>
                    record'[req'[s].on].assignee = Collector(req'[s].plan)
               /\ req'[s].at \in {"shut", "upsert"} =>
                    req'[s].seen = record'[req'[s].on].assignee
    <3>1. req'[s] = req[s]
      BY <2>1, <2>3
    <3>2. CASE req[s].on # c
      <4>1. /\ req[s].on \in Existing
            /\ record'[req[s].on].status = record[req[s].on].status
            /\ record'[req[s].on].assignee = record[req[s].on].assignee
        BY <2>3, <3>1, <3>2 DEF Touches, Exists
      <4>2. QED
        BY <2>1, <2>3, <3>1, <4>1 DEF Informed, Exists
    <3>3. CASE req[s].on = c
      <4>1. /\ c \in Existing
            /\ record'[c].status = record[c].status /\ record'[c].assignee = record[c].assignee
        BY <2>3, <3>3, <3>1 DEF Touches
      <4>2. QED
        BY <2>1, <2>3, <3>1, <3>3, <4>1 DEF Informed, Exists
    <3>4. QED
      BY <3>2, <3>3
  <2>4. QED
    BY <2>2, <2>3 DEF Informed, Exists
<1>4. \A d \in Existing' : Mirror(d)' /\ Close(d)'
  BY <1>1 DEF Touches
<1>5. \A s \in Requests : Informed(s)'
  BY <1>3
<1>6. QED
  BY <1>2, <1>4, <1>5 DEF SettledInv

LEMMA UpdateSettles ==
  ASSUME TypeInv, SettledInv, NEW r \in Requests, CommitUpdate(r)
  PROVE  SettledInv'
<1> SUFFICES ASSUME NEW c, c = req[r].on, NEW p, p = req[r].plan PROVE SettledInv'
  OBVIOUS
<1> DEFINE moved == p.assignee \notin {Same, record[c].assignee}
<1>1. /\ c \in Customers /\ c \in Existing /\ req[r].at = "commit" /\ req[r].op = "update"
      /\ Mirror(c) /\ Close(c) /\ Informed(r)
  BY DEF TypeInv, TypeOK, CommitUpdate, Exists, SettledInv
<1>2. PICK q \in Request :
        /\ Turns(r, q) /\ (q.at = "idle" \/ (q.at = "close" /\ q.on = c))
        /\ q.at = "idle" <=> ~(p.status \notin {Same, req[r].status} /\ Blocked(p.status))
        /\ \/ \A s \in Requests \ {r} : req'[s].overtaken \/ req[s].on # c
           \/ record'[c].assignee = record[c].assignee /\ record'[c].status = record[c].status
  BY UpdateTurns
<1>3. /\ Existing' = Existing /\ \A d \in Existing \ {c} : record'[d] = record[d]
      /\ record'[c].status = IF p.status = Same THEN record[c].status ELSE p.status
      /\ record'[c].assignee = IF p.assignee = Same THEN record[c].assignee ELSE p.assignee
  BY UpdatedColumns
<1>4. /\ UNCHANGED <<used, raced, cut>>
      /\ skipped' = IF req[r].overtaken /\ p.status = req[r].status /\ Blocked(p.status)
                    THEN skipped \union {c} ELSE skipped
      /\ talk' = IF p.assignee = Same THEN talk ELSE Reassigned(c, p.assignee)
  BY DEF CommitUpdate
<1>5. opened' = IF moved /\ Blocked(record'[c].status) THEN opened \union {c} ELSE opened
  BY <1>3 DEF CommitUpdate
<1>6. /\ \A d \in Customers \ {c} : talk'[d] = talk[d]
      /\ p.assignee = Same => talk'[c] = talk[c]
      /\ p.assignee # Same => talk'[c].assignee = p.assignee /\ talk'[c].status # "none"
      /\ ~moved /\ talk[c].status = "CLOSED" => talk'[c].status = "CLOSED"
  BY <1>1, <1>4 DEF Reassigned, Ensured, TypeInv, TypeOK
<1>7. Touches(r, q, c)
  BY <1>1, <1>2, <1>3, <1>4, <1>5, <1>6 DEF Touches, FollowUps
<1>8. Mirror(c)'
  BY <1>1, <1>3, <1>4, <1>6 DEF Mirror
<1>9. Close(c)'
  <2> SUFFICES ASSUME c \notin (cut \union skipped \union opened)', Blocked(record'[c].status),
                      ~Closing(c)'
               PROVE  talk'[c].status = "CLOSED"
    BY DEF Close
  <2>1. q.at = "idle"
    BY <1>2, ClosingKept DEF ClosesNext
  <2>2. ~moved /\ c \notin cut \union skipped \union opened
    BY <1>4, <1>5
  <2>3. Blocked(record[c].status)
    <3>1. CASE p.status = Same
      BY <1>3, <3>1
    <3>2. CASE p.status # Same
      <4>1. p.status = req[r].status /\ Blocked(p.status)
        BY <1>2, <1>3, <2>1, <3>2
      <4>2. ~req[r].overtaken
        BY <1>4, <4>1
      <4>3. QED
        BY <1>1, <4>1, <4>2 DEF Informed, Exists
    <3>3. QED
      BY <3>1, <3>2
  <2>4. ~Closing(c)
    <3>1. ~ClosesNext(req[r], c)
      BY <1>1 DEF ClosesNext
    <3>2. QED
      BY <1>2, <3>1, ClosingKept
  <2>5. QED
    BY <1>1, <1>6, <2>2, <2>3, <2>4 DEF Close
<1>10. Informed(r)'
  <2>1. req'[r] = q
    BY <1>2 DEF Turns
  <2>2. QED
    BY <1>2, <2>1 DEF Informed
<1>11. QED
  BY <1>1, <1>7, <1>8, <1>9, <1>10, SettledByStep

LEMMA CreateSettles ==
  ASSUME TypeInv, SettledInv, NEW r \in Requests, CommitCreate(r)
  PROVE  SettledInv'
<1> SUFFICES ASSUME NEW p, p = req[r].plan, NEW c, c = Fresh,
                    NEW q, q = [req[r] EXCEPT !.at = "sync", !.on = c]
             PROVE  SettledInv'
  OBVIOUS
<1>1. /\ c \in Customers /\ c \notin used /\ c \notin Existing /\ req[r] \in Request
      /\ req[r].at = "commit" /\ Overtakes(r, q, c) /\ record' = Stored(c, Created(p))
      /\ used' = used \union {c} /\ UNCHANGED <<cut, talk, opened, skipped, raced>>
  BY FreshFits DEF CommitCreate, TypeInv, TypeOK
<1>2. q \in Request /\ q.at = "sync" /\ q.on = c /\ q.plan = p
  BY <1>1 DEF Request, FollowUps
<1>3. /\ Existing' = Existing \union {c} /\ record'[c] = Created(p)
      /\ \A d \in Existing : record'[d] = record[d]
  BY <1>1 DEF Stored, Existing
<1>4. Turns(r, q) /\ \A s \in Requests \ {r} : req'[s].overtaken \/ req[s].on # c
  BY <1>1, <1>2, OvertakesTurns
<1>5. Created(p).assignee = Collector(p) /\ (Blocked(Created(p).status) => Blocked(p.status))
  BY DEF Created, Blocked, Same
<1>6. talk'[c].status = "none"
  BY <1>1 DEF SettledInv
<1>7. Touches(r, q, c)
  BY <1>1, <1>3, <1>4, <1>6 DEF Touches, FollowUps
<1>8. Mirror(c)'
  BY <1>6 DEF Mirror
<1>9. Close(c)'
  <2>1. Blocked(record'[c].status) => Closing(c)'
    BY <1>2, <1>3, <1>4, <1>5, ClosingKept DEF ClosesNext
  <2>2. QED
    BY <2>1 DEF Close
<1>10. Informed(r)'
  <2>1. req'[r] = q
    BY <1>4 DEF Turns
  <2>2. /\ req'[r].at = "sync" /\ req'[r].plan = p /\ req'[r].on = c
        /\ record'[c].assignee = Collector(p)
    BY <1>2, <1>3, <1>5, <2>1
  <2>3. QED
    BY <2>2 DEF Informed
<1>11. QED
  BY <1>1, <1>7, <1>8, <1>9, <1>10, SettledByStep

\* A visit leaves the record alone.
LEMMA VisitSettles ==
  ASSUME TypeInv, SettledInv, NEW r \in Requests,
         Sync(r) \/ Shut(r) \/ Upsert(r) \/ SetStatus(r)
  PROVE  SettledInv'
<1> SUFFICES ASSUME NEW c, c = req[r].on PROVE SettledInv'
  OBVIOUS
<1>1. /\ c \in Customers /\ c \in Existing /\ c \in used /\ Mirror(c) /\ Close(c) /\ Informed(r)
  BY DEF TypeInv, TypeOK, Sync, Shut, Upsert, SetStatus, Exists, SettledInv
<1>2. /\ UNCHANGED <<record, used, skipped, cut>> /\ Existing' = Existing
      /\ c \in opened \ opened' => talk'[c].status = "CLOSED"
      /\ opened \ {c} \subseteq opened' /\ raced \subseteq raced'
  <2>1. UNCHANGED <<record, used, skipped, cut>> /\ Existing' = Existing
    BY VisitTyped DEF Existing
  <2>2. opened \ {c} \subseteq opened' /\ raced \subseteq raced'
    BY DEF Sync, Shut, Upsert, SetStatus, Names
  <2>3. Shut(r) => talk'[c].status = "CLOSED"
    BY <1>1 DEF Shut, TypeInv, TypeOK
  <2>4. ~Shut(r) => opened \subseteq opened'
    BY DEF Sync, Upsert, SetStatus
  <2>5. QED
    BY <2>1, <2>2, <2>3, <2>4
<1>3. PICK q \in Request : /\ Goes(r, q) /\ q.at \in {"idle", "close", "who", "turn"}
                           /\ q.at # "idle" => q.on = c
  BY VisitTyped
<1>4. Turns(r, q)
  BY <1>3, GoesTurns
<1>5. talk[c] \in [status : {"none", "OPEN", "PENDING", "CLOSED"},
                   assignee : Staff \union {Unassigned}, turn : Nat]
      /\ talk \in [Customers -> [status : {"none", "OPEN", "PENDING", "CLOSED"},
                                 assignee : Staff \union {Unassigned}, turn : Nat]]
  BY <1>1 DEF TypeInv, TypeOK
<1>6. ASSUME NEW who, talk' = Ensured(c, who)
      PROVE  /\ talk'[c].assignee = who /\ talk'[c].status # "none"
             /\ talk[c].status = "CLOSED" => talk'[c].status = "CLOSED"
             /\ \A d \in Customers \ {c} : talk'[d] = talk[d]
  BY <1>1, <1>5, <1>6 DEF Ensured
<1>7. \* What each of them does to c.
      /\ talk[c].status # "none" => talk'[c].status # "none"
      /\ q.at = "turn" => talk'[c].status # "none"
      /\ \A d \in Customers \ {c} : talk'[d] = talk[d]
      /\ Mirror(c)'
      /\ Close(c)'
  <2>1. CASE Sync(r)
    <3>1. /\ talk' = Ensured(c, Collector(req[r].plan)) /\ Names(r, c) /\ opened' = opened
          /\ req[r].at = "sync"
      BY <2>1 DEF Sync
    <3>2. Mirror(c)'
      BY <1>1, <1>2, <1>6, <3>1 DEF Mirror, Informed, Names, Exists
    <3>3. Closing(c) => Closing(c)'
      <4>1. CASE Blocked(req[r].plan.status)
        <5>1. Goes(r, [req[r] EXCEPT !.at = "close"])
          BY <2>1, <4>1 DEF Sync
        <5>2. /\ [req[r] EXCEPT !.at = "close"] \in Request
              /\ [req[r] EXCEPT !.at = "close"].at = "close"
              /\ [req[r] EXCEPT !.at = "close"].on = c
          BY DEF TypeInv, TypeOK, Request, FollowUps
        <5>3. Turns(r, [req[r] EXCEPT !.at = "close"])
          BY <5>1, <5>2, GoesTurns
        <5>4. ClosesNext([req[r] EXCEPT !.at = "close"], c)
          BY <5>2 DEF ClosesNext
        <5>5. QED
          BY <5>3, <5>4, ClosingKept
      <4>2. CASE ~Blocked(req[r].plan.status)
        <5>1. ~ClosesNext(req[r], c)
          BY <3>1, <4>2 DEF ClosesNext
        <5>2. QED
          BY <1>4, <5>1, ClosingKept
      <4>3. QED
        BY <4>1, <4>2
    <3>4. Close(c)'
      BY <1>1, <1>2, <1>6, <3>1, <3>3 DEF Close
    <3>5. QED
      BY <1>6, <3>1, <3>2, <3>4
  <2>2. CASE Upsert(r)
    <3>1. /\ talk' = Ensured(c, req[r].seen) /\ Names(r, c) /\ opened' = opened
          /\ req[r].at = "upsert"
      BY <2>2 DEF Upsert
    <3>2. Mirror(c)'
      BY <1>1, <1>2, <1>6, <3>1 DEF Mirror, Informed, Names, Exists
    <3>3. Closing(c) => Closing(c)'
      BY <1>4, <3>1, ClosingKept DEF ClosesNext
    <3>4. Close(c)'
      BY <1>1, <1>2, <1>6, <3>1, <3>3 DEF Close
    <3>5. QED
      BY <1>6, <3>1, <3>2, <3>4
  <2>3. CASE Shut(r)
    <3>1. /\ talk' = [talk EXCEPT ![c].status = "CLOSED", ![c].assignee = req[r].seen]
          /\ Names(r, c) /\ req[r].at = "shut"
      BY <2>3 DEF Shut
    <3>2. talk'[c].status = "CLOSED" /\ talk'[c].assignee = req[r].seen
          /\ \A d \in Customers \ {c} : talk'[d] = talk[d]
      BY <1>1, <1>5, <3>1
    <3>3. Mirror(c)'
      BY <1>1, <1>2, <3>1, <3>2 DEF Mirror, Informed, Names, Exists
    <3>4. Close(c)'
      BY <3>2 DEF Close
    <3>5. QED
      BY <3>2, <3>3, <3>4
  <2>4. CASE SetStatus(r)
    <3> DEFINE active == talk[c].turn = req[r].turn
    <3>1. /\ talk' = IF active THEN [talk EXCEPT ![c].status = req[r].to] ELSE talk
          /\ opened' = IF active /\ req[r].to # "CLOSED" /\ Blocked(record[c].status)
                       THEN opened \union {c} ELSE opened
          /\ raced' = raced /\ req[r].at = "turn"
      BY <2>4 DEF SetStatus
    <3>2. req[r].to \in {"OPEN", "PENDING", "CLOSED"} /\ talk[c].status # "none"
      BY <1>1, <3>1 DEF TypeInv, TypeOK, Request, Informed, Exists
    <3>3. /\ talk'[c].assignee = talk[c].assignee /\ talk'[c].status # "none"
          /\ talk'[c].status = IF active THEN req[r].to ELSE talk[c].status
          /\ \A d \in Customers \ {c} : talk'[d] = talk[d]
      BY <1>1, <1>5, <3>1, <3>2
    <3>4. Mirror(c)'
      BY <1>1, <1>2, <3>1, <3>2, <3>3 DEF Mirror
    <3>5. Closing(c) => Closing(c)'
      BY <1>4, <3>1, ClosingKept DEF ClosesNext
    <3>6. Close(c)'
      BY <1>1, <1>2, <3>1, <3>3, <3>5 DEF Close
    <3>7. QED
      BY <3>3, <3>4, <3>6
  <2>5. QED
    BY <2>1, <2>2, <2>3, <2>4
<1>8. Touches(r, q, c)
  BY <1>1, <1>2, <1>4, <1>7 DEF Touches
<1>9. Informed(r)'
  <2>1. req'[r] = q
    BY <1>4 DEF Turns
  <2>2. QED
    BY <1>1, <1>2, <1>3, <1>7, <2>1 DEF Informed
<1>10. QED
  BY <1>1, <1>7, <1>8, <1>9, SettledByStep

LEMMA FixSettles ==
  ASSUME TypeInv, SettledInv, NEW r \in Requests, Fix(r)
  PROVE  SettledInv'
<1> SUFFICES ASSUME NEW c, c = req[r].on PROVE SettledInv'
  OBVIOUS
<1>1. /\ c \in Customers /\ c \in Existing /\ req[r].at = "fix" /\ Mirror(c) /\ Close(c)
      /\ UNCHANGED <<used, talk, opened, skipped, raced, cut>>
  BY DEF Fix, TypeInv, TypeOK, Exists, SettledInv
<1>2. /\ Existing' = Existing /\ \A d \in Existing \ {c} : record'[d] = record[d]
      /\ record'[c].status = record[c].status /\ record'[c].assignee = record[c].assignee
  BY <1>1 DEF Fix, TypeInv, TypeOK, Existing, Record
<1>3. PICK q \in Request : /\ Goes(r, q) /\ q.at \in {"idle", "who", "upsert"}
                           /\ q.at # "idle" => q.on = c /\ q.seen = record[c].assignee
  BY FixTyped
<1>4. Turns(r, q)
  BY <1>3, GoesTurns
<1>5. Closing(c) => Closing(c)'
  BY <1>1, <1>4, ClosingKept DEF ClosesNext
<1>6. Mirror(c)' /\ Close(c)'
  BY <1>1, <1>2, <1>5 DEF Mirror, Close
<1>7. Touches(r, q, c)
  BY <1>1, <1>2, <1>4 DEF Touches, FollowUps
<1>8. Informed(r)'
  <2>1. req'[r] = q
    BY <1>4 DEF Turns
  <2>2. QED
    BY <1>2, <1>3, <2>1 DEF Informed
<1>9. QED
  BY <1>1, <1>6, <1>7, <1>8, SettledByStep

LEMMA FoundSettles ==
  ASSUME TypeInv, SettledInv, NEW r \in Requests, CreateFound(r)
  PROVE  SettledInv'
<1> SUFFICES ASSUME NEW c, c = Fresh PROVE SettledInv'
  OBVIOUS
<1>1. /\ c \in Customers /\ c \notin used /\ c \notin Existing /\ req[r].at = "create"
      /\ used' = used \union {c} /\ UNCHANGED <<talk, opened, skipped, raced, cut>>
  BY FreshFits DEF CreateFound, TypeInv
<1>2. PICK who \in Staff \union {Unassigned} :
        record' = Stored(c, Looked(r, who)) /\ Overtakes(r, GoesTo(r, c, who), c)
  BY DEF CreateFound, Collectors
<1>3. /\ Existing' = Existing \union {c} /\ record'[c].status = "ACTIVE_DEBT"
      /\ record'[c].assignee = who /\ \A d \in Existing : record'[d] = record[d]
  BY <1>1, <1>2 DEF Stored, Existing, Looked
<1>4. PICK q \in Request :
        /\ q = GoesTo(r, c, who) /\ q.at \in {"who", "upsert"} /\ q.on = c /\ q.seen = who
  BY <1>1, GoesToFits DEF Lookups
<1>5. Turns(r, q) /\ \A s \in Requests \ {r} : req'[s].overtaken \/ req[s].on # c
  BY <1>2, <1>4, OvertakesTurns
<1>6. talk'[c].status = "none"
  BY <1>1 DEF SettledInv
<1>7. Mirror(c)' /\ Close(c)'
  BY <1>3, <1>6 DEF Mirror, Close, Blocked
<1>8. Touches(r, q, c)
  BY <1>1, <1>3, <1>5, <1>6 DEF Touches, FollowUps
<1>9. Informed(r)'
  <2>1. req'[r] = q
    BY <1>5 DEF Turns
  <2>2. QED
    BY <1>3, <1>4, <2>1 DEF Informed
<1>10. QED
  BY <1>1, <1>7, <1>8, <1>9, SettledByStep

LEMMA DeleteSettles ==
  ASSUME TypeInv, SettledInv, NEW c \in Customers, Delete(c)
  PROVE  SettledInv'
<1>1. /\ Existing' = Existing \ {c} /\ (\A d \in Existing' : record'[d] = record[d])
      /\ UNCHANGED <<used, opened, skipped, raced, cut>>
  BY DEF Delete, Existing, history
<1>2. talk'[c].status = "none" /\ \A d \in Customers \ {c} : talk'[d] = talk[d]
  <2>1. talk' = [talk EXCEPT ![c].status = "none"]
    BY DEF Delete
  <2>2. QED
    BY <2>1 DEF TypeInv, TypeOK
<1>3. \A d : Closing(d)' <=> Closing(d)
  BY DeleteTyped DEF Closing
<1>4. ASSUME NEW d \in Existing' PROVE Mirror(d)' /\ Close(d)'
  <2>1. d \in Existing /\ d \in Customers \ {c} /\ Mirror(d) /\ Close(d)
    BY <1>1 DEF SettledInv, TypeInv, TypeOK
  <2>2. record'[d] = record[d] /\ talk'[d] = talk[d]
    BY <1>1, <1>2, <2>1
  <2>3. QED
    BY <1>1, <1>3, <2>1, <2>2 DEF Mirror, Close
<1>5. \A d \in Customers \ Existing' : talk'[d].status = "none"
  BY <1>1, <1>2 DEF SettledInv
<1>6. ASSUME NEW s \in Requests PROVE Informed(s)'
  <2>1. Informed(s) /\ req'[s].at = req[s].at /\ req'[s].on = req[s].on
        /\ (req'[s].overtaken \/ (req'[s] = req[s] /\ req[s].on # c))
    BY DeleteTyped DEF SettledInv
  <2>2. ASSUME req'[s].at = "turn"
        PROVE  req'[s].on \in used' /\ (req'[s].on \in Existing' => talk'[req'[s].on].status # "none")
    <3>1. req[s].on \in used /\ (Exists(req[s].on) => talk[req[s].on].status # "none")
          /\ req[s].on \in Customers
      BY <2>1, <2>2 DEF Informed, TypeInv, Fits
    <3>2. QED
      BY <1>1, <1>2, <2>1, <3>1 DEF Exists
  <2>3. QED
    BY <1>1, <2>1, <2>2 DEF Informed, Exists
<1>7. QED
  BY <1>4, <1>5, <1>6 DEF SettledInv

\* Without writing, a request comes to know only what it reads.
LEMMA QuietInformed ==
  ASSUME TypeInv, NEW r \in Requests, Quiet(r)
  PROVE  Informed(r)'
<1> DEFINE Knows == {"commit", "sync", "shut", "upsert", "turn"}
<1>1. /\ req[r] \in Request /\ req \in [Requests -> Request] /\ Idle.at = "idle"
      /\ record' = record /\ Existing' = Existing
  BY IdleFits, QuietSteps DEF TypeInv, TypeOK, tables, Existing
<1>2. ASSUME NEW q, Goes(r, q) PROVE req'[r] = q
  BY <1>1, <1>2 DEF Goes
<1>3. ASSUME req'[r].at \notin Knows PROVE Informed(r)'
  BY <1>3 DEF Informed
<1>4. ASSUME NEW q, Goes(r, q), q.at \in {"shut", "upsert"},
             q.seen = record[q.on].assignee
      PROVE  Informed(r)'
  BY <1>1, <1>2, <1>4 DEF Informed
<1>5. ASSUME NEW c \in Customers, NEW p \in Plans, AskUpdate(r, c, p) PROVE Informed(r)'
  <2> DEFINE q == [Idle EXCEPT !.at = "commit", !.op = "update", !.on = c,
                     !.plan = p, !.status = record[c].status, !.primary = Primary(c)]
  <2>1. req'[r] = q
    BY <1>1, <1>5 DEF AskUpdate
  <2>2. q.at = "commit" /\ q.on = c /\ q.status = record[c].status
    BY DEF Idle
  <2>3. QED
    BY <1>1, <2>1, <2>2 DEF Informed
<1>6. ASSUME NEW p \in Plans, AskCreate(r, p) PROVE Informed(r)'
  <2> DEFINE q == [Idle EXCEPT !.at = "commit", !.op = "create", !.plan = p]
  <2>1. req'[r] = q
    BY <1>1, <1>6 DEF AskCreate
  <2>2. q.at = "commit" /\ q.op = "create"
    BY DEF Idle
  <2>3. QED
    BY <2>1, <2>2 DEF Informed
<1>7. ASSUME NEW c, NEW op, NEW to, AskConversation(r, c, op, to) PROVE Informed(r)'
  <2> DEFINE q == [Idle EXCEPT !.at = "who", !.op = op, !.on = c, !.rounds = Calls[op],
                               !.to = to]
  <2>1. req'[r] = q
    BY <1>2, <1>7 DEF AskConversation
  <2>2. q.at = "who"
    BY DEF Idle
  <2>3. QED
    BY <1>3, <2>1, <2>2
<1>8. ASSUME NEW n, NEW op, AskLookup(r, n, op) PROVE Informed(r)'
  <2> DEFINE q == [Idle EXCEPT !.at = "row", !.op = op, !.number = n]
  <2>1. req'[r] = q
    BY <1>2, <1>8 DEF AskLookup
  <2>2. q.at = "row"
    BY DEF Idle
  <2>3. QED
    BY <1>3, <2>1, <2>2
<1>9. CASE ReadCollector(r) \/ ReadWho(r)
  <2>1. PICK at \in {"shut", "upsert"} :
          Goes(r, [req[r] EXCEPT !.at = at, !.seen = record[req[r].on].assignee,
                                 !.overtaken = FALSE])
    BY <1>9 DEF ReadCollector, ReadWho, Step
  <2>2. req[r].on \in Existing
    BY <1>9 DEF ReadCollector, ReadWho, Exists
  <2>3. QED
    BY <1>4, <2>1, <2>2, ReadFits
<1>10. ASSUME NEW c \in Existing, NEW b \in BOOLEAN, Match(r, c, b), req[r].at \in Lookups
       PROVE  Informed(r)'
  <2>1. PICK q \in Request : Step(r, q) /\ (q.at = "fix" \/ q \in Reached(r, c))
    BY <1>10, MatchFits
  <2>2. q.at \in {"idle", "fix", "who"} \/ (q.at = "upsert" /\ q.seen = record[q.on].assignee)
    BY <1>10, <2>1, ReachedFits
  <2>3. QED
    BY <1>2, <1>3, <1>4, <2>1, <2>2 DEF Step
<1>11. ASSUME NEW q, Step(r, q), q.at \in Lookups \union {"idle"} PROVE Informed(r)'
  BY <1>2, <1>3, <1>11 DEF Step, Lookups
<1>12. CASE FindRow(r)
  <2>1. req[r].at \in Lookups
    BY <1>12 DEF FindRow, Lookups
  <2>2. \A w \in rows : w.owner \in Existing /\ (req[r].stage > 1 /\ w.primary) \in BOOLEAN
    BY DEF TypeInv, TypeOK
  <2>3. [req[r] EXCEPT !.at = "column"].at \in Lookups
    BY <1>1 DEF Request, Lookups
  <2>4. QED
    BY <1>10, <1>11, <1>12, <2>1, <2>2, <2>3 DEF FindRow
<1>13. CASE FindColumn(r)
  <2>1. req[r].at \in Lookups /\ TRUE \in BOOLEAN
    BY <1>13 DEF FindColumn, Lookups
  <2>2. AfterColumn(r).at \in Lookups \union {"idle"}
    <3>1. /\ [req[r] EXCEPT !.at = "row", !.stage = @ + 1].at = "row"
          /\ [req[r] EXCEPT !.at = "create"].at = "create"
      BY <1>1 DEF Request
    <3>2. QED
      BY <1>1, <3>1 DEF AfterColumn, Lookups
  <2>3. QED
    BY <1>10, <1>11, <1>13, <2>1, <2>2 DEF FindColumn
<1>14. CASE FixRefused(r)
  <2>1. req[r].at \in Lookups /\ FALSE \in BOOLEAN
    BY <1>14 DEF FixRefused, Lookups
  <2>2. QED
    BY <1>1, <1>10, <1>11, <1>14, <2>1 DEF FixRefused
<1>15. CASE LookAgain(r)
  <2>1. [req[r] EXCEPT !.at = "row", !.stage = 1, !.again = TRUE].at \in Lookups
    BY <1>1 DEF Request, Lookups
  <2>2. QED
    BY <1>11, <1>15, <2>1 DEF LookAgain
<1>16. CASE UpdateRefused(r) \/ CreateRefused(r) \/ FollowUpRefused(r)
  BY <1>1, <1>11, <1>16 DEF UpdateRefused, CreateRefused, FollowUpRefused
<1>17. CASE FollowUpFails(r)
  BY <1>1, <1>2, <1>3, <1>17 DEF FollowUpFails
<1>18. QED
  BY <1>5, <1>6, <1>7, <1>8, <1>9, <1>12, <1>13, <1>14, <1>15, <1>16, <1>17 DEF Quiet, Ask

LEMMA QuietSettles ==
  ASSUME TypeInv, SettledInv, NEW r \in Requests, Quiet(r)
  PROVE  SettledInv'
<1>1. /\ UNCHANGED <<record, used, talk, opened, skipped, raced>> /\ Existing' = Existing
      /\ req' \in [Requests -> Request] /\ (\A s \in Requests \ {r} : req'[s] = req[s])
      /\ cut \subseteq cut'
  BY QuietSteps DEF TypeInv, TypeOK, tables, Existing
<1>2. ASSUME NEW d \in Existing, Closing(d), d \notin cut' PROVE Closing(d)'
  <2>1. PICK s \in Requests : ClosesNext(req[s], d)
    BY <1>2 DEF Closing, ClosesNext
  <2>2. CASE s # r
    BY <1>1, <2>1, <2>2 DEF Closing, ClosesNext
  <2>3. CASE s = r
    <3>1. req[r].at \in FollowUps /\ req[r].on = d
      BY <2>1, <2>3 DEF ClosesNext, FollowUps
    <3>2. ~FollowUpFails(r)
      <4>1. ASSUME FollowUpFails(r) PROVE cut' = cut \union {d}
        BY <3>1, <4>1 DEF FollowUpFails
      <4>2. QED
        BY <1>2, <4>1
    <3>3. ReadCollector(r)
      BY <1>2, <3>1, <3>2
         DEF Quiet, Ask, AskUpdate, AskCreate, AskConversation, AskLookup, UpdateRefused,
             CreateRefused, FollowUpRefused, ReadWho, FindRow, FindColumn, FixRefused,
             LookAgain, FollowUps, Exists
    <3>4. req'[r] = [req[r] EXCEPT !.at = "shut", !.seen = record[req[r].on].assignee,
                                   !.overtaken = FALSE]
      BY <3>3 DEF ReadCollector, Step, Goes, TypeInv, TypeOK
    <3>5. req'[r].at = "shut" /\ req'[r].on = d
      BY <1>2, <3>1, <3>4, ReadFits
    <3>6. QED
      BY <3>5 DEF Closing
  <2>4. QED
    BY <2>2, <2>3
<1>3. ASSUME NEW d \in Existing PROVE Mirror(d)' /\ Close(d)'
  <2>1. Mirror(d) /\ Close(d)
    BY DEF SettledInv
  <2>2. QED
    BY <1>1, <1>2, <2>1 DEF Mirror, Close
<1>4. ASSUME NEW s \in Requests \ {r} PROVE Informed(s)'
  BY <1>1, <1>4 DEF SettledInv, Informed, Exists
<1>5. QED
  BY <1>1, <1>3, <1>4, QuietInformed DEF SettledInv

\* A customer's conversation is his collector's, and closed while he must not be
\* contacted and nobody has yet to close it, but for what ConversationFollows names.
THEOREM ConversationIsSettled == Spec => []ConversationFollows
<1>1. Init => SettledInv
  <2> SUFFICES ASSUME Init PROVE SettledInv
    OBVIOUS
  <2>1. /\ Existing = {First} /\ record[First].status = "ACTIVE_DEBT"
        /\ talk[First].status # "none" => talk[First].assignee = record[First].assignee
        /\ \A c \in Customers \ {First} : talk[c].status = "none"
        /\ \A r \in Requests : req[r] = Idle
    BY ConstantsAssumption DEF Init, Existing, ConstantsAssumption
  <2>2. QED
    BY <2>1, IdleFits DEF SettledInv, Mirror, Close, Informed, Blocked
<1>2. ASSUME TypeInv, SettledInv, [Next]_vars PROVE SettledInv'
  <2>1. CASE UNCHANGED vars
    BY <1>2, <2>1
       DEF vars, tables, history, SettledInv, Mirror, Close, Informed, Closing, Exists, Existing
  <2>2. QED
    BY <1>2, <2>1, Steps, QuietSettles, UpdateSettles, CreateSettles, VisitSettles,
       FixSettles, FoundSettles, DeleteSettles
<1>3. ASSUME SettledInv PROVE ConversationFollows
  BY <1>3 DEF SettledInv, Mirror, Close, ConversationFollows
<1>4. QED
  BY <1>1, <1>2, <1>3, Typed, PTL DEF Spec
=============================================================================
