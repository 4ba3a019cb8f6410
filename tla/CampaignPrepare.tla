--------------------------- MODULE CampaignPrepare ---------------------------
(***************************************************************************)
(* Preparing a WhatsApp campaign: the request that creates it under an      *)
(* idempotency key and queues one preparation job, the worker that writes a *)
(* recipient row for each selected debt chunk by chunk and then publishes   *)
(* the campaign as SCHEDULED, and the cancellations, progress requests and  *)
(* opt-outs that run beside it. CampaignSend begins where this module ends. *)
(*                                                                         *)
(* Every step is one database or queue call; a thread keeps what it read in *)
(* `loc` and may act on it after others have changed it.                    *)
(***************************************************************************)
EXTENDS Integers, FiniteSets

CONSTANTS
  Debts,        \* the selected debts, numbered in the order they are evaluated
  CustomerOf,   \* the customer of a debt
  Chunks,       \* how many chunks the selected customers fill
  ChunkOf,      \* the chunk of a customer
  Unfit,        \* customers whom another eligibility rule excludes
  Workers,      \* job slots of the preparation worker
  Callers,      \* API requests
  MaxAttempts,  \* CAMPAIGN_PREPARE_QUEUE_ATTEMPTS
  Budget        \* how often each event outside the program may happen

Threads == Workers \union Callers
Customers == {CustomerOf[d] : d \in Debts}
NoThread == "none"

\* The bounded events: requests to create the campaign, commands on it, changes
\* of customers (opt-outs, archived debts), failing calls, killed workers,
\* killed API processes, and jobs that stall although their worker is alive.
Events == {"request", "command", "change", "fault", "crash", "apiCrash",
           "stall"}

ASSUME ConstantsAssumption ==
  /\ Debts \subseteq Nat /\ IsFiniteSet(Debts)
  /\ DOMAIN CustomerOf = Debts
  /\ Chunks \in Nat
  /\ ChunkOf \in [Customers -> 1..Chunks]
  /\ Unfit \subseteq Customers
  /\ NoThread \notin Threads /\ Workers \intersect Callers = {}
  /\ MaxAttempts \in Nat \ {0}
  /\ Budget \in [Events -> Nat]

VARIABLES
  status,    \* Campaign.status, "none" before the campaign is created
  eligible,  \* Campaign.eligibleCount
  row,       \* CampaignRecipient.status, "none" before the row is written
  active,    \* debts with isActive
  optedOut,  \* customers with whatsappOptOutAt set
  job,       \* the BullMQ job of the campaign's deterministic id
  owner,     \* the worker slot that holds the job's BullMQ lock
  tries,     \* attempts of the job that ended in an error
  stalled,   \* BullMQ has already found the job stalled once
  pc, loc,   \* per thread: next step, values read
  left       \* what remains of Budget

campaign == <<status, eligible>>
customers == <<active, optedOut>>
queue == <<job, owner, tries, stalled>>
vars == <<campaign, row, customers, queue, pc, loc, left>>

Unprepared == {"QUEUED", "PREPARING"}
Prepared == {"SCHEDULED", "COMPLETED"}
Ended == {"COMPLETED", "FAILED", "CANCELLED"}
CampaignStatus == Unprepared \union Prepared \union Ended \union {"none"}
RowStatus == {"none", "PENDING", "SKIPPED", "CANCELLED"}
JobState == {"none", "waiting", "active", "done", "failed"}

PrepareSteps == {"fetch", "upsert", "publish"}
WorkerSteps == PrepareSteps \union {"read", "begin", "giveUp", "finish"}
CallerSteps == {"create", "enqueue", "markFailed", "cancelTx", "group",
                "status", "store"}
Steps == {"idle"} \union WorkerSteps \union CallerSteps

\* What a thread remembers between two calls: the next chunk, the active debts
\* and the opted-out customers of the chunk it fetched, the PENDING rows it
\* counted, and for a refresh whether no row was open and the status it read.
Locals == [chunk : Nat, debts : SUBSET Debts, out : SUBSET Customers,
           count : Nat, complete : BOOLEAN, seen : CampaignStatus]

Blank == [chunk |-> 1, debts |-> {}, out |-> {}, count |-> 0,
          complete |-> FALSE, seen |-> "none"]

Go(t, step) == pc' = [pc EXCEPT ![t] = step]
Keep(t, l) == loc' = [loc EXCEPT ![t] = l]
Spend(e) == left[e] > 0 /\ left' = [left EXCEPT ![e] = @ - 1]

Pending == {d \in Debts : row[d] = "PENDING"}

-----------------------------------------------------------------------------
(* sendBulkTemplate. *)

\* No campaign has the idempotency key yet. A later request with the key
\* answers with the campaign, or with 503 when it was refused, and changes
\* nothing.
AskCampaign(t) ==
  /\ t \in Callers /\ pc[t] = "idle" /\ status = "none"
  /\ Spend("request")
  /\ Go(t, "create")
  /\ UNCHANGED <<campaign, row, customers, queue, loc>>

\* The unique key makes the second of two racing requests fail with P2002; it
\* answers like a later one.
CreateCampaign(t) ==
  /\ pc[t] = "create"
  /\ \/ /\ status = "none"
        /\ status' = "QUEUED"
        /\ Go(t, "enqueue")
     \/ /\ status # "none"
        /\ Go(t, "idle") /\ UNCHANGED status
  /\ UNCHANGED <<eligible, row, customers, queue, loc, left>>

\* BullMQ ignores add() for a job id it still knows.
AddJob == job' = IF job = "none" THEN "waiting" ELSE job

Enqueue(t) ==
  /\ pc[t] = "enqueue"
  /\ AddJob
  /\ Go(t, "idle")
  /\ UNCHANGED <<campaign, row, customers, owner, tries, stalled, loc, left>>

\* add() throws, before or after Redis has stored the job.
EnqueueFails(t) ==
  /\ pc[t] = "enqueue" /\ Spend("fault")
  /\ AddJob \/ UNCHANGED job
  /\ Go(t, "markFailed")
  /\ UNCHANGED <<campaign, row, customers, owner, tries, stalled, loc>>

\* The campaign is FAILED whatever its status is by now; the caller gets 503.
MarkEnqueueFailed(t) ==
  /\ pc[t] = "markFailed"
  /\ status' = "FAILED"
  /\ Go(t, "idle")
  /\ UNCHANGED <<eligible, row, customers, queue, loc, left>>

Create(t) ==
  \/ CreateCampaign(t) \/ Enqueue(t) \/ EnqueueFails(t)
  \/ MarkEnqueueFailed(t)

-----------------------------------------------------------------------------
(* BullMQ: the preparation job. *)

TakeJob(t) ==
  /\ t \in Workers /\ pc[t] = "idle" /\ job = "waiting"
  /\ job' = "active" /\ owner' = t
  /\ Go(t, "read")
  /\ UNCHANGED <<campaign, row, customers, tries, stalled, loc, left>>

\* The slot gives the job up: the job moves only if the slot still holds it.
LeaveJob(t, state) ==
  /\ IF owner = t THEN job' = state /\ owner' = NoThread
     ELSE UNCHANGED <<job, owner>>
  /\ Go(t, "idle") /\ Keep(t, Blank)

Finish(t) ==
  /\ pc[t] = "finish"
  /\ LeaveJob(t, "done")
  /\ UNCHANGED <<campaign, row, customers, tries, stalled, left>>

\* A call outside the try block fails: the handler throws and BullMQ runs the
\* job again while it has attempts left.
Throws(t) ==
  /\ pc[t] \in {"read", "begin", "giveUp"} /\ Spend("fault")
  /\ LeaveJob(t, IF tries + 1 < MaxAttempts THEN "waiting" ELSE "failed")
  /\ tries' = IF owner = t THEN tries + 1 ELSE tries
  /\ UNCHANGED <<campaign, row, customers, stalled>>

\* A killed process: what the thread knew is gone. A job it ran stays active.
\* For a request that marks the campaign FAILED this is also the outcome of an
\* error in that update, which is only logged.
Crash(t) ==
  /\ pc[t] # "idle"
  /\ Spend(IF t \in Workers THEN "crash" ELSE "apiCrash")
  /\ Go(t, "idle") /\ Keep(t, Blank)
  /\ UNCHANGED <<campaign, row, customers, queue>>

\* An active job whose lock was not renewed goes back to waiting once, and
\* fails the second time (maxStalledCount is 1). Its holder may be alive.
JobStalls ==
  /\ job = "active"
  /\ IF pc[owner] # "idle" THEN Spend("stall") ELSE UNCHANGED left
  /\ job' = IF stalled THEN "failed" ELSE "waiting"
  /\ owner' = NoThread /\ stalled' = TRUE
  /\ UNCHANGED <<campaign, row, customers, tries, pc, loc>>

-----------------------------------------------------------------------------
(* processCampaignPreparation. *)

ReadCampaign(t) ==
  /\ pc[t] = "read"
  /\ Go(t, IF status \in Unprepared THEN "begin" ELSE "finish")
  /\ UNCHANGED <<campaign, row, customers, queue, loc, left>>

\* PREPARING is written whatever the status is by now. The template is loaded
\* with the first chunk.
BeginPreparation(t) ==
  /\ pc[t] = "begin"
  /\ status' = "PREPARING"
  /\ Go(t, "fetch") /\ Keep(t, Blank)
  /\ UNCHANGED <<eligible, row, customers, queue, left>>

MoreChunksButLast(n) == n < Chunks  \* faulty variant: stops a chunk early
MoreChunks(n) == n <= Chunks

\* The next chunk of customers, with their debts and their opt-outs as of now.
FetchChunk(t) ==
  /\ pc[t] = "fetch"
  /\ LET n == loc[t].chunk
         chunk == {c \in Customers : ChunkOf[c] = n}
     IN /\ MoreChunks(n)
        /\ Keep(t, [loc[t] EXCEPT
             !.debts = {d \in active : CustomerOf[d] \in chunk},
             !.out = chunk \intersect optedOut])
  /\ Go(t, "upsert")
  /\ UNCHANGED <<campaign, row, customers, queue, left>>

EligibleDuplicates(d, l) == CustomerOf[d] \notin l.out \union Unfit  \* faulty variant

\* evaluateCampaignEligibility for a debt of the fetched chunk: the customer is
\* fit, had not opted out, and no earlier debt of the run is the customer's.
IsEligible(d, l) ==
  /\ CustomerOf[d] \notin l.out \union Unfit
  /\ ~\E e \in l.debts : e < d /\ CustomerOf[e] = CustomerOf[d]

EligibleOf(l) == {d \in l.debts : IsEligible(d, l)}

\* prepareCampaignCustomerBatch: one transaction writes the rows of the chunk,
\* over rows that exist already, and adds to the count of the campaign.
UpsertChunk(t) ==
  /\ pc[t] = "upsert"
  /\ row' = [d \in Debts |->
       IF d \in EligibleOf(loc[t]) THEN "PENDING"
       ELSE IF d \in loc[t].debts THEN "SKIPPED" ELSE row[d]]
  /\ eligible' = eligible + Cardinality(EligibleOf(loc[t]))
  /\ Keep(t, [loc[t] EXCEPT !.chunk = @ + 1])
  /\ Go(t, "fetch")
  /\ UNCHANGED <<status, customers, queue, left>>

CountRows(t) ==
  /\ pc[t] = "fetch" /\ ~MoreChunks(loc[t].chunk)
  /\ Keep(t, [loc[t] EXCEPT !.count = Cardinality(Pending)])
  /\ Go(t, "publish")
  /\ UNCHANGED <<campaign, row, customers, queue, left>>

PublishKeepingCount(t) ==  \* faulty variant: the increments are not replaced
  /\ pc[t] = "publish"
  /\ status' = IF loc[t].count > 0 THEN "SCHEDULED" ELSE "FAILED"
  /\ Go(t, "finish")
  /\ UNCHANGED <<eligible, row, customers, queue, loc, left>>

\* The final status is written whatever the status is by now.
Publish(t) ==
  /\ pc[t] = "publish"
  /\ status' = IF loc[t].count > 0 THEN "SCHEDULED" ELSE "FAILED"
  /\ eligible' = loc[t].count
  /\ Go(t, "finish")
  /\ UNCHANGED <<row, customers, queue, loc, left>>

\* Anything in the try block fails: a call, the template, a lost customer.
PreparationFails(t) ==
  /\ pc[t] \in PrepareSteps /\ Spend("fault")
  /\ Go(t, "giveUp")
  /\ UNCHANGED <<campaign, row, customers, queue, loc>>

GiveUpKeepingStatus(t) ==  \* faulty variant: the failure is only logged
  /\ pc[t] = "giveUp"
  /\ Go(t, "finish")
  /\ UNCHANGED <<campaign, row, customers, queue, loc, left>>

GiveUp(t) ==
  /\ pc[t] = "giveUp"
  /\ status' = "FAILED"
  /\ Go(t, "finish")
  /\ UNCHANGED <<eligible, row, customers, queue, loc, left>>

Prepare(t) ==
  \/ ReadCampaign(t) \/ BeginPreparation(t)
  \/ FetchChunk(t) \/ UpsertChunk(t) \/ CountRows(t) \/ Publish(t)
  \/ PreparationFails(t) \/ GiveUp(t) \/ Finish(t)

-----------------------------------------------------------------------------
(* Cancellation, progress and what customers and administrators change. *)

AskCancel(t) ==
  /\ t \in Callers /\ pc[t] = "idle"
  /\ status \notin Ended \union {"none"} /\ Spend("command")
  /\ Go(t, "cancelTx")
  /\ UNCHANGED <<campaign, row, customers, queue, loc>>

CancelTx(t) ==
  /\ pc[t] = "cancelTx"
  /\ status' = "CANCELLED"
  /\ row' = [d \in Debts |-> IF d \in Pending THEN "CANCELLED" ELSE row[d]]
  /\ Go(t, "group")
  /\ UNCHANGED <<eligible, customers, queue, loc, left>>

AskProgress(t) ==
  /\ t \in Callers /\ pc[t] = "idle" /\ status # "none" /\ Spend("command")
  /\ Go(t, "group")
  /\ UNCHANGED <<campaign, row, customers, queue, loc>>

\* refreshCampaignRecipientCounts, after a cancellation and for each progress
\* request: the rows, then the campaign, then the write of what was read.
GroupRows(t) ==
  /\ pc[t] = "group"
  /\ Keep(t, [Blank EXCEPT !.complete = Pending = {}])
  /\ Go(t, "status")
  /\ UNCHANGED <<campaign, row, customers, queue, left>>

ReadStatus(t) ==
  /\ pc[t] = "status"
  /\ Keep(t, [loc[t] EXCEPT !.seen = status])
  /\ Go(t, "store")
  /\ UNCHANGED <<campaign, row, customers, queue, left>>

StoreStatus(t) ==
  /\ pc[t] = "store"
  /\ status' = IF loc[t].complete /\ loc[t].seen = "SCHEDULED"
               THEN "COMPLETED" ELSE loc[t].seen
  /\ Go(t, "idle") /\ Keep(t, Blank)
  /\ UNCHANGED <<eligible, row, customers, queue, left>>

Carry(t) ==
  \/ CancelTx(t) \/ GroupRows(t) \/ ReadStatus(t) \/ StoreStatus(t)

\* applyInboundOptOut: one transaction.
OptOut(c) ==
  /\ Spend("change")
  /\ optedOut' = optedOut \union {c}
  /\ row' = [d \in Debts |->
       IF CustomerOf[d] = c /\ row[d] = "PENDING" THEN "CANCELLED" ELSE row[d]]
  /\ UNCHANGED <<campaign, active, queue, pc, loc>>

\* archiveDebt.
ArchiveDebt(d) ==
  /\ d \in active /\ Spend("change")
  /\ active' = active \ {d}
  /\ UNCHANGED <<campaign, row, optedOut, queue, pc, loc>>

-----------------------------------------------------------------------------
Init ==
  /\ status = "none" /\ eligible = 0
  /\ row = [d \in Debts |-> "none"]
  /\ active = Debts /\ optedOut = {}
  /\ job = "none" /\ owner = NoThread /\ tries = 0 /\ stalled = FALSE
  /\ pc = [t \in Threads |-> "idle"]
  /\ loc = [t \in Threads |-> Blank]
  /\ left = Budget

Step(t) == Create(t) \/ Prepare(t) \/ Carry(t)

Next ==
  \/ \E t \in Threads : Step(t) \/ TakeJob(t) \/ Throws(t) \/ Crash(t)
  \/ \E t \in Threads : AskCampaign(t) \/ AskCancel(t) \/ AskProgress(t)
  \/ \E c \in Customers : OptOut(c)
  \/ \E d \in Debts : ArchiveDebt(d)
  \/ JobStalls

Spec == Init /\ [][Next]_vars

\* The processes keep running: a thread takes its next step, and BullMQ hands a
\* waiting job to an idle slot and recovers one whose worker is dead.
Fairness ==
  /\ \A t \in Threads : WF_vars(Step(t)) /\ WF_vars(TakeJob(t))
  /\ WF_vars(JobStalls)

FairSpec == Spec /\ Fairness

-----------------------------------------------------------------------------
TypeOK ==
  /\ status \in CampaignStatus /\ eligible \in Nat
  /\ row \in [Debts -> RowStatus]
  /\ active \subseteq Debts /\ optedOut \subseteq Customers
  /\ job \in JobState /\ owner \in Workers \union {NoThread}
  /\ job = "active" => owner \in Workers
  /\ tries \in Nat /\ stalled \in BOOLEAN
  /\ pc \in [Threads -> Steps]
  /\ loc \in [Threads -> Locals]
  /\ left \in [Events -> Nat]

\* A campaign that may be sent is prepared in full: whatever run published it,
\* after whatever crashes, retries and cancellations, every selected debt that
\* is still active has a row; none was silently discarded.
PreparedInFull ==
  status \in Prepared => \A d \in active : row[d] # "none"

\* While no selected debt was archived, a customer with several is sent one
\* message, also when the preparation runs again over the rows of a run that
\* was killed, retried or is still alive.
OneMessagePerCustomer ==
  active = Debts =>
    \A d, e \in Pending : CustomerOf[d] = CustomerOf[e] => d = e

\* Once no run is under way, a campaign nobody opted out of reports as many
\* eligible recipients as it has rows to send, although each run adds to the
\* count again.
EligibleCounted ==
  /\ status = "SCHEDULED" /\ optedOut = {}
  /\ \A t \in Workers : pc[t] \in {"idle", "finish"}
  /\ left["command"] = Budget["command"]
  => eligible = Cardinality(Pending)

\* A created campaign is eventually prepared or failed, although a worker may
\* die and a call may fail under it, as long as no administrator cancels it and
\* nobody asks for its progress.
PreparationEnds ==
  status \in Unprepared ~>
    (status \notin Unprepared \/ left["command"] < Budget["command"])

\* A cancelled campaign is not taken up again.
CancelIsFinal == [][status = "CANCELLED" => status' = "CANCELLED"]_status

\* No row of a customer who opted out waits to be sent.
OptOutCancels == \A d \in Pending : CustomerOf[d] \notin optedOut
=============================================================================
