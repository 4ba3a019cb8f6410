--------------------------- MODULE CustomerRecords ---------------------------
(***************************************************************************)
(* The records of the customers: the phone column and the rows of the table *)
(* CustomerPhone, the collection status, the collector in charge and the    *)
(* active conversation. Requests of the staff on a customer or on his       *)
(* conversation, and messages for a phone number (inbound ones and quick    *)
(* sends) run side by side; each reads before its transaction and does more *)
(* after it.                                                               *)
(*                                                                         *)
(* One transaction is one action where it locks what it reads first. Debts  *)
(* and imports are in CustomerImport, archived conversations in Inbox.      *)
(***************************************************************************)
EXTENDS Naturals, Sequences, FiniteSets

CONSTANTS
  Customers,  \* ids of customers
  First,      \* the one who is there at the start, perhaps since older versions
  Kept,       \* his number
  Numbers,    \* telephone numbers
  Requests,   \* slots: as many requests and inbound messages are handled at once
  Staff,      \* employees who can be in charge
  Plans,      \* the bodies of the requests
  Budget      \* how often each event may happen

Same == "same"
Unassigned == "unassigned"
Own == "own"
Nobody == "nobody"

Statuses == {"ACTIVE_DEBT", "PAID", "DO_NOT_CONTACT"}
Blocked(status) == status \in {"PAID", "DO_NOT_CONTACT"}

\* A number is stored as digits, as normalizePhone leaves them. Older rows may
\* hold it with a plus (getPhoneLookupVariants), or separated in some other way,
\* which a search by the last four digits finds, or misses ("hidden"): a separator
\* among these four, or more than fifty records that have them.
Forms == {"digits", "plus", "spaced", "hidden"}
Written == [number : Numbers, form : Forms]
Digits(n) == [number |-> n, form |-> "digits"]

\* A body that leaves a field out holds Same there.
Plan == [phone : Numbers \union {Same}, seconds : (SUBSET Numbers) \union {{Same}},
         status : Statuses \union {Same}, assignee : Staff \union {Unassigned, Same}]

\* A request is sent, or a call fails or a customer is deleted.
Events == {"request", "fault"}

ASSUME ConstantsAssumption ==
  /\ First \in Customers /\ Kept \in Numbers /\ Plans \subseteq Plan
  /\ Budget \in [Events -> Nat]
  /\ {Unassigned, Same} \intersect Staff = {} /\ {Same, Own} \intersect Numbers = {}
  /\ Nobody \notin Customers /\ Plans # {}

Record == [phone : Written, account : Numbers \union {Own}, status : Statuses,
           assignee : Staff \union {Unassigned}]

VARIABLES
  record,   \* Customer: the columns of those who exist
  used,     \* ids that have been given away
  rows,     \* CustomerPhone
  talk,     \* the active conversation of each customer, the turn-th he has had
  req,      \* the requests under way
  doubled,  \* history: numbers that two customers may hold, and why excused
  relabelled,  \* history: customers whose stored number a lookup rewrote
  opened,   \* history: blocked customers whose conversation was opened by a
            \* reassignment, an inbound message or somebody of the staff
  skipped,  \* history: customers blocked by a request that took them for blocked
  raced,    \* history: customers into whose conversation a collector was written
            \* that had been read before the customer was changed
  cut,      \* history: customers of whom a request stopped half way
  left      \* what remains of Budget

tables == <<record, used, rows, talk>>
history == <<doubled, relabelled, opened, skipped, raced, cut>>
vars == <<tables, req, history, left>>

Existing == DOMAIN record
Exists(c) == c \in Existing
RowsOf(c) == {w \in rows : w.owner = c}

\* The numbers of a customer, however they are written.
Held(c) == {record[c].phone.number} \union {w.phone.number : w \in RowsOf(c)}
Holders(n) == {c \in Existing : n \in Held(c)}

Spend(e) == left[e] > 0 /\ left' = [left EXCEPT ![e] = @ - 1]

-----------------------------------------------------------------------------
(* Requests. "on" is the customer of a request; "status", "primary" and "seen" *)
(* are the status, the number and the collector that it read of him; "stage"   *)
(* and "again" say how far a lookup is; "rounds" is how often the conversation *)
(* is still to be ensured, "turn" and "to" are the one found and its status.   *)

Idle == [at |-> "idle", op |-> "none", on |-> Nobody, plan |-> CHOOSE p \in Plans : TRUE,
         number |-> Same, status |-> "ACTIVE_DEBT", primary |-> Same, seen |-> Unassigned,
         stage |-> 1, again |-> FALSE, rounds |-> 0, turn |-> 0, to |-> "OPEN",
         overtaken |-> FALSE]

Goes(r, q) == req' = [req EXCEPT ![r] = q]

\* r goes on as q without writing.
Step(r, q) == Goes(r, q) /\ UNCHANGED <<tables, history, left>>

\* r goes on as q and changes c: requests that have read c are overtaken.
Overtakes(r, q, c) ==
  req' = [s \in Requests |->
            IF s = r THEN q
            ELSE IF req[s].on = c THEN [req[s] EXCEPT !.overtaken = TRUE] ELSE req[s]]

\* r writes the collector it knows to the conversation of c.
Names(r, c) == raced' = IF req[r].overtaken THEN raced \union {c} ELSE raced

\* getPrimaryPhone.
Primary(c) ==
  IF \E w \in RowsOf(c) : w.primary
  THEN (CHOOSE w \in RowsOf(c) : w.primary).phone.number
  ELSE record[c].phone.number

\* The unique columns phone of Customer and phoneNumber of CustomerPhone.
ColumnTaken(c, w) == \E d \in Existing \ {c} : record[d].phone = w
RowTaken(c, w) == \E row \in rows : row.owner # c /\ row.phone = w
Taken(c, first, rest) ==
  ColumnTaken(c, Digits(first)) \/ \E n \in {first} \union rest : RowTaken(c, Digits(n))

Row(n, c, primary) == [phone |-> Digits(n), owner |-> c, primary |-> primary]

RowsAdded(c, first, rest) ==  \* faulty variant: the old rows are not deleted
  rows \union {Row(first, c, TRUE)} \union {Row(n, c, FALSE) : n \in rest \ {first}}

\* replaceCustomerPhones.
RowsReplaced(c, first, rest) ==
  (rows \ RowsOf(c))
    \union {Row(first, c, TRUE)} \union {Row(n, c, FALSE) : n \in rest \ {first}}

\* Numbers given to c by hand although somebody holds them in another form.
Shared(c, numbers) == {n \in numbers : Holders(n) \ {c} # {}}

Fresh == CHOOSE c \in Customers : c \notin used
CanCreate == Customers # used
Stored(c, columns) ==
  [d \in Existing \union {c} |-> IF d = c THEN columns ELSE record[d]]

Collector(p) == IF p.assignee = Same THEN Unassigned ELSE p.assignee
Rest(p) == IF p.seconds = {Same} THEN {} ELSE p.seconds

\* buildCreateData.
Created(p) ==
  [phone |-> Digits(p.phone), account |-> Own, assignee |-> Collector(p),
   status |-> IF p.status = Same THEN "ACTIVE_DEBT" ELSE p.status]

-----------------------------------------------------------------------------
(* createCustomer, updateCustomer, assignCustomer, deleteCustomer.            *)

\* updateCustomer and assignCustomer up to the transaction.
AskUpdate(r, c, p) ==
  /\ req[r].at = "idle" /\ Spend("request") /\ Exists(c)
  /\ req' = [req EXCEPT ![r] = [Idle EXCEPT !.at = "commit", !.op = "update", !.on = c,
               !.plan = p, !.status = record[c].status, !.primary = Primary(c)]]
  /\ UNCHANGED <<tables, history>>

AskCreate(r, p) ==
  /\ req[r].at = "idle" /\ Spend("request") /\ CanCreate /\ p.phone # Same
  /\ req' = [req EXCEPT ![r] = [Idle EXCEPT !.at = "commit", !.op = "create", !.plan = p]]
  /\ UNCHANGED <<tables, history>>

\* ensureConversationForCustomer on the active conversation.
Ensured(c, who) ==
  [talk EXCEPT ![c] =
     [status |-> IF @.status = "none" THEN "OPEN" ELSE @.status, assignee |-> who,
      turn |-> @.turn]]

\* reassignCustomerConversationInTransaction: a new collector gets a new
\* conversation, whatever the status of the customer.
Reassigned(c, who) ==
  IF who = record[c].assignee THEN Ensured(c, who)
  ELSE [talk EXCEPT ![c] = [status |-> "OPEN", assignee |-> who, turn |-> @.turn + 1]]

\* The transaction of an update, under the lock of the customer. A body with
\* second numbers only writes the first number back as it was read.
CommitUpdate(r) ==
  LET q == req[r]
      c == q.on
      p == q.plan
      first == IF p.phone # Same THEN p.phone ELSE q.primary
      phones == p.phone # Same \/ p.seconds # {Same}
      moved == p.assignee \notin {Same, record[c].assignee}
      status == IF p.status = Same THEN record[c].status ELSE p.status
  IN /\ q.at = "commit" /\ q.op = "update" /\ Exists(c)
     /\ phones => ~Taken(c, first, Rest(p))
     /\ record' = [record EXCEPT
          ![c].phone = IF phones THEN Digits(first) ELSE @,
          ![c].status = status,
          ![c].assignee = IF p.assignee = Same THEN @ ELSE p.assignee]
     /\ rows' = IF phones THEN RowsReplaced(c, first, Rest(p)) ELSE rows
     /\ talk' = IF p.assignee = Same THEN talk ELSE Reassigned(c, p.assignee)
     /\ LET next == IF p.status \notin {Same, q.status} /\ Blocked(p.status)
                    THEN [q EXCEPT !.at = "close"] ELSE Idle
        IN IF moved \/ status # record[c].status THEN Overtakes(r, next, c) ELSE Goes(r, next)
     /\ opened' = IF moved /\ Blocked(status) THEN opened \union {c} ELSE opened
     /\ skipped' = IF q.overtaken /\ p.status = q.status /\ Blocked(p.status)
                   THEN skipped \union {c} ELSE skipped
     /\ doubled' = IF phones THEN doubled \union Shared(c, {first} \union Rest(p)) ELSE doubled
     /\ relabelled' = IF phones THEN relabelled \ {c} ELSE relabelled
     /\ UNCHANGED <<used, raced, cut, left>>

UpdateRefused(r) ==
  LET q == req[r]
      first == IF q.plan.phone # Same THEN q.plan.phone ELSE q.primary
  IN /\ q.at = "commit" /\ q.op = "update"
     /\ \/ ~Exists(q.on)
        \/ /\ q.plan.phone # Same \/ q.plan.seconds # {Same}
           /\ Taken(q.on, first, Rest(q.plan))
     /\ Step(r, Idle)

CommitCreate(r) ==
  LET p == req[r].plan
      c == Fresh
  IN /\ req[r].at = "commit" /\ req[r].op = "create" /\ CanCreate
     /\ ~Taken(c, p.phone, Rest(p))
     /\ record' = Stored(c, Created(p))
     /\ used' = used \union {c}
     /\ rows' = RowsReplaced(c, p.phone, Rest(p))
     /\ Overtakes(r, [req[r] EXCEPT !.at = "sync", !.on = c], c)
     /\ doubled' = doubled \union Shared(c, {p.phone} \union Rest(p))
     /\ UNCHANGED <<talk, relabelled, opened, skipped, raced, cut, left>>

CreateRefused(r) ==
  /\ req[r].at = "commit" /\ req[r].op = "create"
  /\ Taken(Nobody, req[r].plan.phone, Rest(req[r].plan)) \/ ~CanCreate
  /\ Step(r, Idle)

\* syncConversationAssignment, with the collector of the request.
Sync(r) ==
  LET q == req[r]
  IN /\ q.at = "sync" /\ Exists(q.on)
     /\ talk' = Ensured(q.on, Collector(q.plan))
     /\ Goes(r, IF Blocked(q.plan.status) THEN [q EXCEPT !.at = "close"] ELSE Idle)
     /\ Names(r, q.on)
     /\ UNCHANGED <<record, used, rows, doubled, relabelled, opened, skipped, cut, left>>

\* applyCollectionStatusSideEffects reads the collector and then closes the
\* conversation in his name, whatever was written in between.
ReadCollector(r) ==
  /\ req[r].at = "close" /\ Exists(req[r].on)
  /\ Step(r, [req[r] EXCEPT !.at = "shut", !.seen = record[req[r].on].assignee,
                            !.overtaken = FALSE])

ShutSilently(r) ==  \* faulty variant: only the message about the status is stored
  LET c == req[r].on
  IN /\ req[r].at = "shut" /\ Exists(c)
     /\ talk' = Ensured(c, req[r].seen)
     /\ Goes(r, Idle) /\ Names(r, c)
     /\ opened' = opened \ {c}
     /\ UNCHANGED <<record, used, rows, doubled, relabelled, skipped, cut, left>>

Shut(r) ==
  LET c == req[r].on
  IN /\ req[r].at = "shut" /\ Exists(c)
     /\ talk' = [talk EXCEPT ![c].status = "CLOSED", ![c].assignee = req[r].seen]
     /\ Goes(r, Idle) /\ Names(r, c)
     /\ opened' = opened \ {c}
     /\ UNCHANGED <<record, used, rows, doubled, relabelled, skipped, cut, left>>

FollowUps == {"sync", "close", "shut"}
Visits == {"who", "upsert", "turn"}

\* The customer is gone when the request comes back to it.
FollowUpRefused(r) ==
  req[r].at \in FollowUps \union Visits /\ ~Exists(req[r].on) /\ Step(r, Idle)

\* A call after the transaction fails: the caller gets an error, and what was
\* committed stays.
FollowUpFails(r) ==
  /\ req[r].at \in FollowUps \union Visits /\ Spend("fault")
  /\ Goes(r, Idle)
  /\ cut' = IF req[r].at \in FollowUps THEN cut \union {req[r].on} ELSE cut
  /\ UNCHANGED <<tables, doubled, relabelled, opened, skipped, raced>>

Delete(c) ==
  /\ Exists(c) /\ Spend("fault")
  /\ record' = [d \in Existing \ {c} |-> record[d]]
  /\ rows' = rows \ RowsOf(c)
  /\ talk' = [talk EXCEPT ![c].status = "none"]
  /\ req' = [s \in Requests |->
               IF req[s].on = c THEN [req[s] EXCEPT !.overtaken = TRUE] ELSE req[s]]
  /\ UNCHANGED <<used, history>>

-----------------------------------------------------------------------------
(* Requests and messages that go to the conversation of a customer: each call   *)
(* of ensureConversationForCustomer reads the collector, then writes him to the *)
(* active conversation, and creates it if there is none.                       *)

\* How often: by findOrCreateQuickSendCustomer's caller, createOutboundRecord and
\* touchConversationForMessage for a message, once for a change of the status.
Calls == [inbound |-> 2, quick |-> 3, send |-> 2, status |-> 1]

\* A message of the staff (sendManualReply), or a request on the conversation
\* (updateConversationStatus): one that does not change its status, as a read does
\* not, ends as one whose user may not see the conversation.
AskConversation(r, c, op, to) ==
  /\ req[r].at = "idle" /\ Spend("request") /\ Exists(c)
  /\ op = "send" => ~Blocked(record[c].status)
  /\ Goes(r, [Idle EXCEPT !.at = "who", !.op = op, !.on = c, !.rounds = Calls[op], !.to = to])
  /\ UNCHANGED <<tables, history>>

ReadWho(r) ==
  /\ req[r].at = "who" /\ Exists(req[r].on)
  /\ Step(r, [req[r] EXCEPT !.at = "upsert", !.seen = record[req[r].on].assignee,
                            !.overtaken = FALSE])

\* Where a request goes on that has ensured its conversation.
AfterUpsert(r) ==
  LET q == req[r]
      found == [q EXCEPT !.at = "turn", !.turn = talk[q.on].turn]
  IN CASE q.rounds > 1 -> {[q EXCEPT !.at = "who", !.rounds = @ - 1]}
       [] q.rounds <= 1 /\ q.op = "inbound" -> {found}
       [] q.rounds <= 1 /\ q.op = "status" -> {found, Idle}
       [] OTHER -> {Idle}

Upsert(r) ==
  LET c == req[r].on
  IN /\ req[r].at = "upsert" /\ Exists(c)
     /\ talk' = Ensured(c, req[r].seen)
     /\ \E next \in AfterUpsert(r) : Goes(r, next)
     /\ Names(r, c)
     /\ UNCHANGED <<record, used, rows, doubled, relabelled, opened, skipped, cut, left>>

\* touchConversationForMessage of an inbound message, and updateConversationStatus:
\* the status is written to the conversation that was found, which may have been
\* archived meanwhile; an inbound message opens it, blocked customer or not.
SetStatus(r) ==
  LET q == req[r]
      c == q.on
      active == talk[c].turn = q.turn
  IN /\ q.at = "turn" /\ Exists(c)
     /\ talk' = IF active THEN [talk EXCEPT ![c].status = q.to] ELSE talk
     /\ opened' = IF active /\ q.to # "CLOSED" /\ Blocked(record[c].status)
                  THEN opened \union {c} ELSE opened
     /\ Goes(r, Idle)
     /\ UNCHANGED <<record, used, rows, doubled, relabelled, skipped, raced, cut, left>>

-----------------------------------------------------------------------------
(* findCustomerByPhone: the rows and the column are searched for the digits,   *)
(* for the number with a plus and for its last four digits; a match that is    *)
(* not the customer's stored number is rewritten.                              *)

AskLookup(r, n, op) ==
  /\ req[r].at = "idle" /\ Spend("request")
  /\ Goes(r, [Idle EXCEPT !.at = "row", !.op = op, !.number = n])
  /\ UNCHANGED <<tables, history>>

\* What a stage finds for certain; the last one looks at the numbers themselves
\* and may find any form.
Searched == <<"digits", "plus", "spaced">>
Found(r, w) ==
  w.number = req[r].number /\ (w.form = Searched[req[r].stage] \/ req[r].stage = 3)
Surely(r, w) == w = [number |-> req[r].number, form |-> Searched[req[r].stage]]

\* The request has its customer, whom it read with his collector, and goes to his
\* conversation. A quick send is refused if he must not be contacted, or is
\* nobody whom its sender may see.
GoesTo(r, c, who) ==
  [Idle EXCEPT !.at = IF req[r].op = "quick" THEN "upsert" ELSE "who", !.op = req[r].op,
               !.on = c, !.seen = who, !.rounds = Calls[req[r].op]]
Reached(r, c) ==
  (IF req[r].op = "quick" THEN {Idle} ELSE {})
    \union (IF req[r].op = "quick" /\ Blocked(record[c].status) THEN {}
            ELSE {GoesTo(r, c, record[c].assignee)})

Match(r, c, rewrite) ==
  IF rewrite /\ record[c].phone # Digits(req[r].number)
  THEN Step(r, [req[r] EXCEPT !.at = "fix", !.on = c])
  ELSE \E next \in Reached(r, c) : Step(r, next)

FindRow(r) ==
  /\ req[r].at = "row"
  /\ \/ \E w \in rows : Found(r, w.phone) /\ Match(r, w.owner, req[r].stage > 1 /\ w.primary)
     \/ /\ \A w \in rows : ~Surely(r, w.phone)
        /\ Step(r, [req[r] EXCEPT !.at = "column"])

AfterColumnOnce(r) ==  \* faulty variant: only the digits are looked for
  IF req[r].again THEN Idle ELSE [req[r] EXCEPT !.at = "create"]

\* Where a lookup that found nothing goes on: to the next form, to the creation
\* of the customer, or, after a creation that was refused, to an error.
AfterColumn(r) ==
  IF req[r].stage < Len(Searched)
  THEN [req[r] EXCEPT !.at = "row", !.stage = @ + 1]
  ELSE IF req[r].again THEN Idle
  ELSE [req[r] EXCEPT !.at = "create"]

FindColumn(r) ==
  /\ req[r].at = "column"
  /\ \/ \E c \in Existing : Found(r, record[c].phone) /\ Match(r, c, TRUE)
     \/ /\ \A c \in Existing : ~Surely(r, record[c].phone)
        /\ Step(r, AfterColumn(r))

\* normalizeStoredCustomerPhone. The row of the number may belong to somebody
\* else by now and changes hands; the old primary row stays primary.
Fix(r) ==
  LET c == req[r].on
      n == req[r].number
  IN /\ req[r].at = "fix" /\ Exists(c) /\ ~ColumnTaken(c, Digits(n))
     /\ record' = [record EXCEPT ![c].phone = Digits(n)]
     /\ rows' = {w \in rows : w.phone # Digits(n)} \union {Row(n, c, TRUE)}
     /\ relabelled' = relabelled \union {c}
     /\ \E next \in Reached(r, c) : Goes(r, next)
     /\ UNCHANGED <<used, talk, doubled, opened, skipped, raced, cut, left>>

FixRefused(r) ==
  /\ req[r].at = "fix"
  /\ \/ ~Exists(req[r].on) /\ Step(r, Idle)
     \/ /\ Exists(req[r].on)
        /\ \E d \in Existing \ {req[r].on} :
             record[d].phone = Digits(req[r].number) /\ Match(r, d, FALSE)

\* findOrCreateInboundCustomer gives the account number WA-<number>, which must
\* be unique too; createQuickSendCustomer adds a random suffix.
AccountTaken(r) ==
  req[r].op = "inbound" /\ \E c \in Existing : record[c].account = req[r].number

\* resolveQuickSendAssignment: nobody (an administrator names nobody), the sender
\* or somebody he may assign; a sender who writes first is assigned to nobody.
Collectors(r) ==
  IF req[r].op = "quick" THEN Staff \union {Unassigned} ELSE {Unassigned}

Looked(r, who) ==
  [phone |-> Digits(req[r].number), status |-> "ACTIVE_DEBT", assignee |-> who,
   account |-> IF req[r].op = "inbound" THEN req[r].number ELSE Own]

\* A customer who holds n in a form that the search may miss.
Hidden(n) ==
  \/ \E w \in rows : w.phone = [number |-> n, form |-> "hidden"]
  \/ \E c \in Existing : record[c].phone = [number |-> n, form |-> "hidden"]

CreateFound(r) ==
  LET c == Fresh
      n == req[r].number
  IN /\ req[r].at = "create" /\ CanCreate /\ ~AccountTaken(r) /\ ~Taken(c, n, {})
     /\ \E who \in Collectors(r) : record' = Stored(c, Looked(r, who))
                                 /\ Overtakes(r, GoesTo(r, c, who), c)
     /\ used' = used \union {c}
     /\ rows' = rows \union {Row(n, c, TRUE)}
     /\ doubled' = IF Hidden(n) THEN doubled \union {n} ELSE doubled
     /\ UNCHANGED <<talk, relabelled, opened, skipped, raced, cut, left>>

\* The creation lost a race, or seems to have: the lookup runs once more.
LookAgain(r) ==
  /\ req[r].at = "create" /\ (AccountTaken(r) \/ Taken(Nobody, req[r].number, {}))
  /\ Step(r, [req[r] EXCEPT !.at = "row", !.stage = 1, !.again = TRUE])

-----------------------------------------------------------------------------
\* A record of an older version may hold its number in any form, and no row.
Init ==
  \E form \in Forms, who \in Staff, status \in {"none", "OPEN"} :
    LET w == [number |-> Kept, form |-> form] IN
    /\ record = [c \in {First} |->
         [phone |-> w, account |-> Own, status |-> "ACTIVE_DEBT", assignee |-> who]]
    /\ used = {First}
    /\ rows \in {{}, {[phone |-> w, owner |-> First, primary |-> TRUE]}}
    /\ talk = [c \in Customers |->
         IF c = First /\ status = "OPEN" THEN [status |-> "OPEN", assignee |-> who, turn |-> 0]
         ELSE [status |-> "none", assignee |-> Unassigned, turn |-> 0]]
    /\ req = [r \in Requests |-> Idle]
    /\ doubled = {} /\ relabelled = {} /\ opened = {} /\ skipped = {} /\ raced = {} /\ cut = {}
    /\ left = Budget

Ask(r) ==
  \/ \E p \in Plans : AskCreate(r, p) \/ \E c \in Customers : AskUpdate(r, c, p)
  \/ \E c \in Customers, to \in {"OPEN", "PENDING", "CLOSED"} : AskConversation(r, c, "status", to)
  \/ \E c \in Customers : AskConversation(r, c, "send", "OPEN")
  \/ \E n \in Numbers, op \in {"inbound", "quick"} : AskLookup(r, n, op)

Next ==
  \/ \E r \in Requests :
       \/ Ask(r)
       \/ CommitUpdate(r) \/ UpdateRefused(r) \/ CommitCreate(r) \/ CreateRefused(r)
       \/ Sync(r) \/ ReadCollector(r) \/ Shut(r) \/ FollowUpRefused(r) \/ FollowUpFails(r)
       \/ ReadWho(r) \/ Upsert(r) \/ SetStatus(r)
       \/ FindRow(r) \/ FindColumn(r) \/ Fix(r) \/ FixRefused(r)
       \/ CreateFound(r) \/ LookAgain(r)
  \/ \E c \in Customers : Delete(c)

Spec == Init /\ [][Next]_vars

-----------------------------------------------------------------------------
Request ==
  [at : {"idle", "commit", "row", "column", "fix", "create"}
          \union FollowUps \union Visits,
   op : {"none", "create", "update", "inbound", "quick", "send", "status"},
   on : Customers \union {Nobody}, plan : Plans, number : Numbers \union {Same},
   status : Statuses, primary : Numbers \union {Same}, seen : Staff \union {Unassigned},
   stage : 1..3, again : BOOLEAN, rounds : Nat, turn : Nat,
   to : {"OPEN", "PENDING", "CLOSED"}, overtaken : BOOLEAN]

\* Beyond the types: a row belongs to a customer who exists, and each number is
\* written once per table.
TypeOK ==
  /\ used \subseteq Customers /\ Existing \subseteq used
  /\ record \in [Existing -> Record]
  /\ rows \subseteq [phone : Written, owner : Existing, primary : BOOLEAN]
  /\ \A v, w \in rows : v.phone = w.phone => v = w
  /\ \A c, d \in Existing : record[c].phone = record[d].phone => c = d
  /\ talk \in [Customers -> [status : {"none", "OPEN", "PENDING", "CLOSED"},
                            assignee : Staff \union {Unassigned}, turn : Nat]]
  /\ req \in [Requests -> Request]
  /\ doubled \subseteq Numbers
  /\ relabelled \union opened \union skipped \union raced \union cut \subseteq Customers
  /\ left \in [Events -> Nat]

\* A number leads to one customer: inbound messages and quick sends of the same
\* number that are handled at once never make two, and none is made for a number
\* that is stored in an older form, unless the search by its last digits may miss
\* that form, or the staff gave a customer a number that another one holds in
\* another form.
NumberHasOneHolder == \A n \in Numbers \ doubled : Cardinality(Holders(n)) <= 1

\* The two places a number is kept in agree: a customer who has rows has one for
\* his phone column, it is primary, and it is his only primary one unless a
\* lookup has rewritten an older form.
RowsAgree ==
  \A c \in Existing : RowsOf(c) # {} =>
    /\ [phone |-> record[c].phone, owner |-> c, primary |-> TRUE] \in rows
    /\ c \in relabelled \/ Cardinality({w \in RowsOf(c) : w.primary}) = 1

\* A request has blocked c and has yet to close the conversation.
Closing(c) ==
  \E r \in Requests :
    /\ req[r].on = c
    /\ \/ req[r].at \in {"close", "shut"}
       \/ req[r].at = "sync" /\ Blocked(req[r].plan.status)

\* A customer's conversation is in the name of his collector, unless a request
\* wrote the collector it had read before the customer was changed (an inbound
\* message does, see AssignmentMirrored of Inbox). It is closed while he must not
\* be contacted, once the request that blocked him is through, unless that
\* request failed on the way or took him for blocked, or the conversation was
\* opened since: by a reassignment, an inbound message or the staff.
ConversationFollows ==
  /\ \A c \in Existing \ raced :
       talk[c].status # "none" => talk[c].assignee = record[c].assignee
  /\ \A c \in Existing \ (cut \union skipped \union opened) :
       Blocked(record[c].status) /\ ~Closing(c) => talk[c].status = "CLOSED"

\* README: inbound messages create or update customers by their number. A message
\* of a number that nobody holds cannot be kept when the customer once created for
\* it (account number WA-<number>) has been given another number.
SenderIsFound ==
  \A r \in Requests :
    req[r].at = "create" /\ Holders(req[r].number) = {} => ~AccountTaken(r)
=============================================================================
