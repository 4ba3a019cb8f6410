---------------------------- MODULE CampaignSend ----------------------------
(***************************************************************************)
(* Sending a prepared WhatsApp campaign: the dispatcher that leases batches *)
(* of recipient rows to the BullMQ queue, the send worker that claims a row *)
(* and calls the provider, the refresh that derives the campaign status     *)
(* from its rows, and the administrator commands, phone safety updates,     *)
(* opt-outs and delivery receipts that run beside them.                     *)
(*                                                                         *)
(* Every step is one database, Redis or provider call; a thread keeps what *)
(* it read in `loc` and may act on it after others have changed it.        *)
(***************************************************************************)
EXTENDS Integers, FiniteSets

CONSTANTS
  Campaigns,    \* campaign ids, numbered in the order of createdAt
  Recipients,   \* campaign recipient rows, numbered in the order of createdAt
  CampaignOf,   \* the campaign of a row
  PhoneOf,      \* the WhatsApp phone number of a campaign
  CustomerOf,   \* the customer of a row
  Workers,      \* job slots of the campaign send worker
  Callers,      \* API requests, receipt handlers and dispatch interval ticks
  BatchSize,    \* rows leased by one dispatch
  MaxAttempts,  \* CAMPAIGN_SEND_ATTEMPTS
  MinSample, FailureRate, ConsecutiveFailures,  \* automatic pause thresholds
  Rejections,   \* the error categories the provider may answer with
  Budget        \* how often each event outside the program may happen

Threads == Workers \union Callers
Phones == {PhoneOf[c] : c \in Campaigns}
Customers == {CustomerOf[r] : r \in Recipients}
NoRow == 0
NoCampaign == 0
NoThread == "none"

\* The bounded events: administrator commands, opt-outs, receipts, failing
\* database or queue calls, killed threads, stalled jobs, dispatch locks that
\* expire under their holder, and provider answers that never arrive.
Events == {"command", "optOut", "receipt", "fault", "crash", "stall",
           "expiry", "lostAnswer"}

ErrorCategories == {"RETRYABLE", "PERMANENT_RECIPIENT", "PERMANENT_TEMPLATE",
                    "PERMANENT_ACCOUNT"}

ASSUME ConstantsAssumption ==
  /\ Campaigns \subseteq Nat \ {0} /\ IsFiniteSet(Campaigns)
  /\ Recipients \subseteq Nat \ {0} /\ IsFiniteSet(Recipients)
  /\ CampaignOf \in [Recipients -> Campaigns]
  /\ DOMAIN PhoneOf = Campaigns
  /\ DOMAIN CustomerOf = Recipients
  /\ NoThread \notin Threads /\ Workers \intersect Callers = {}
  /\ BatchSize \in Nat \ {0}
  /\ MaxAttempts \in Nat \ {0}
  /\ MinSample \in Nat /\ FailureRate \in Nat /\ ConsecutiveFailures \in Nat
  /\ Rejections \subseteq ErrorCategories
  /\ Budget \in [Events -> Nat]

VARIABLES
  campaign,   \* Campaign.status
  startedAt,  \* Campaign.startedAt as a rank, 0 for null
  phoneOk,    \* campaigns enabled on the phone and its account unrestricted
  row,        \* CampaignRecipient.status
  attempts,   \* CampaignRecipient.attemptCount
  recorded,   \* CampaignRecipient.whatsappMessageId and messageId are set
  retried,    \* rows whose nextAttemptAt is set
  job,        \* the BullMQ job of the row's deterministic id
  owner,      \* the worker slot that holds the job's BullMQ lock
  stalled,    \* jobs BullMQ has already found stalled once
  lock,       \* holder of the campaign's Redis dispatch lock
  optedOut,   \* customers with whatsappOptOutAt set
  pc, rec, loc,    \* per thread: next step, row of its job, values read
  accepted,   \* history: sends of the row that the provider accepted
  lost,       \* history: accepted sends whose answer or commit was lost
  revived,    \* history: stopped campaigns a dispatch wrote RUNNING over
  left        \* what remains of Budget

database == <<campaign, startedAt, phoneOk, row, attempts, recorded, retried,
              optedOut>>
otherThanRow == <<campaign, startedAt, phoneOk, attempts, recorded, retried,
                  optedOut>>
otherThanCampaign == <<startedAt, phoneOk, row, attempts, recorded, retried,
                       optedOut>>
queue == <<job, owner, stalled>>
history == <<accepted, lost, revived>>
vars == <<database, queue, lock, pc, rec, loc, history, left>>

Active == {"SCHEDULED", "RUNNING"}
CampaignStatus == Active \union {"PAUSED", "COMPLETED", "CANCELLED"}
Open == {"PENDING", "QUEUED", "PROCESSING"}
Concluded == {"SENT", "DELIVERED", "FAILED", "CANCELLED"}
JobState == {"none", "delayed", "waiting", "active", "done"}

WorkerSteps == {"read", "cancelRow", "restoreRow", "claim", "recheck", "drop",
                "send", "commit", "requeue", "redelay", "fail", "pausePhone"}
SafetySteps == {"evaluate", "pauseRead", "pauseWrite"}
RefreshSteps == {"group", "status", "store"}
LeaseSteps == {"fetch", "rival", "count", "pick", "enqueue", "mark", "promote",
               "unlock", "del"}
CommandSteps == {"startWrite", "userPause", "resumeRows", "resumeWrite",
                 "cancelTx", "purge", "pauseAll"}
Steps == {"idle", "list", "next", "finish"} \union WorkerSteps
         \union SafetySteps \union RefreshSteps \union LeaseSteps
         \union CommandSteps

\* What a thread remembers between two calls: the campaign it works on, the
\* status and startedAt it read, the attempt number, whether every row was
\* concluded, the batch and the campaigns it has yet to handle, and the
\* category of the outcome it is recording.
Locals == [camp : Campaigns \union {NoCampaign},
           seen : CampaignStatus \union {"none"},
           start : Nat, att : Nat, complete : BOOLEAN,
           batch : SUBSET Recipients, todo : SUBSET Campaigns,
           cat : ErrorCategories \union {"none", "SENT"}]

Blank == [camp |-> NoCampaign, seen |-> "none", start |-> 0, att |-> 0,
          complete |-> FALSE, batch |-> {}, todo |-> {}, cat |-> "none"]

RowsOf(c) == {r \in Recipients : CampaignOf[r] = c}
InFlight(c) == {r \in RowsOf(c) : row[r] \in {"QUEUED", "PROCESSING"}}
FailedRows(c) == {r \in RowsOf(c) : row[r] = "FAILED"}

Oldest(S) == CHOOSE r \in S : \A q \in S : r <= q
FirstOf(S, n) == {r \in S : Cardinality({q \in S : q < r}) < n}

\* The possible values of `new Date()`, never before a recorded start.
Now == {n \in 1..Cardinality(Campaigns) : \A c \in Campaigns : startedAt[c] <= n}

Go(t, step) == pc' = [pc EXCEPT ![t] = step]
Keep(t, l) == loc' = [loc EXCEPT ![t] = l]
Spend(e) == left[e] > 0 /\ left' = [left EXCEPT ![e] = @ - 1]

-----------------------------------------------------------------------------
(* The dispatcher. *)

\* dispatchActiveCampaigns reads the active campaigns, oldest start first and
\* nulls last, and takes the first of each phone.
Before(c, d) ==
  LET rank(x) == IF startedAt[x] = 0 THEN Cardinality(Campaigns) + 1
                 ELSE startedAt[x]
  IN rank(c) < rank(d) \/ (rank(c) = rank(d) /\ c < d)

ActiveCampaigns == {c \in Campaigns : campaign[c] \in Active}

List(t) ==
  /\ pc[t] = "list"
  /\ Keep(t, [Blank EXCEPT !.todo =
        {c \in ActiveCampaigns :
           \A d \in ActiveCampaigns \ {c} :
              PhoneOf[d] = PhoneOf[c] => Before(c, d)}])
  /\ Go(t, "next")
  /\ UNCHANGED <<database, queue, lock, rec, history, left>>

AcquireLockWithoutNX(t) ==  \* faulty variant: SET without NX
  /\ pc[t] = "next"
  /\ \E c \in loc[t].todo :
       /\ lock' = [lock EXCEPT ![c] = t]
       /\ Keep(t, [loc[t] EXCEPT !.todo = @ \ {c}, !.camp = c])
  /\ Go(t, "fetch")
  /\ UNCHANGED <<database, queue, rec, history, left>>

\* withDispatchLock: SET NX PX; a campaign locked by another is skipped.
AcquireLock(t) ==
  /\ pc[t] = "next"
  /\ \E c \in loc[t].todo :
       /\ lock[c] = NoThread
       /\ lock' = [lock EXCEPT ![c] = t]
       /\ Keep(t, [loc[t] EXCEPT !.todo = @ \ {c}, !.camp = c])
  /\ Go(t, "fetch")
  /\ UNCHANGED <<database, queue, rec, history, left>>

SkipLocked(t) ==
  /\ pc[t] = "next"
  /\ \E c \in loc[t].todo :
       /\ lock[c] # NoThread
       /\ Keep(t, [loc[t] EXCEPT !.todo = @ \ {c}])
  /\ UNCHANGED <<database, queue, lock, pc, rec, history, left>>

NoMoreCampaigns(t) ==
  /\ pc[t] = "next" /\ loc[t].todo = {}
  /\ Go(t, "finish")
  /\ UNCHANGED <<database, queue, lock, rec, loc, history, left>>

FetchCampaign(t) ==
  /\ pc[t] = "fetch"
  /\ LET c == loc[t].camp
     IN \/ /\ campaign[c] \in Active
           /\ Keep(t, [loc[t] EXCEPT !.start = startedAt[c]])
           /\ Go(t, "rival")
        \/ /\ campaign[c] \notin Active
           /\ Go(t, "unlock") /\ UNCHANGED loc
  /\ UNCHANGED <<database, queue, lock, rec, history, left>>

\* Another RUNNING campaign of the phone that did not start later wins.
Competitor(c, start) ==
  \E d \in Campaigns \ {c} :
    /\ PhoneOf[d] = PhoneOf[c] /\ campaign[d] = "RUNNING"
    /\ startedAt[d] # 0 /\ (start = 0 \/ startedAt[d] <= start)

CheckCompetitor(t) ==
  /\ pc[t] = "rival"
  /\ Go(t, IF Competitor(loc[t].camp, loc[t].start) THEN "unlock" ELSE "count")
  /\ UNCHANGED <<database, queue, lock, rec, loc, history, left>>

CountQueuedOnly(t) ==  \* faulty variant: PROCESSING rows are not counted
  /\ pc[t] = "count"
  /\ Go(t, IF \A r \in RowsOf(loc[t].camp) : row[r] # "QUEUED"
           THEN "pick" ELSE "unlock")
  /\ UNCHANGED <<database, queue, lock, rec, loc, history, left>>

CountInFlight(t) ==
  /\ pc[t] = "count"
  /\ Go(t, IF InFlight(loc[t].camp) = {} THEN "pick" ELSE "unlock")
  /\ UNCHANGED <<database, queue, lock, rec, loc, history, left>>

\* The oldest PENDING rows whose nextAttemptAt, when set, has passed.
PickBatch(t) ==
  /\ pc[t] = "pick"
  /\ LET pending == {r \in RowsOf(loc[t].camp) : row[r] = "PENDING"}
     IN \E due \in SUBSET (pending \intersect retried) :
          LET batch == FirstOf((pending \ retried) \union due, BatchSize)
          IN /\ Keep(t, [loc[t] EXCEPT !.batch = batch])
             /\ Go(t, IF batch = {} THEN "unlock" ELSE "enqueue")
  /\ UNCHANGED <<database, queue, lock, rec, history, left>>

\* BullMQ ignores add() for a job id it still knows in any state.
Enqueue(t) ==
  /\ pc[t] = "enqueue"
  /\ LET r == Oldest(loc[t].batch)
     IN job' = [job EXCEPT ![r] = IF @ = "none" THEN "delayed" ELSE @]
  /\ Go(t, "mark")
  /\ UNCHANGED <<database, owner, stalled, lock, rec, loc, history, left>>

NextOfBatch(t) ==
  LET rest == loc[t].batch \ {Oldest(loc[t].batch)}
  IN /\ Keep(t, [loc[t] EXCEPT !.batch = rest])
     /\ Go(t, IF rest = {} THEN "promote" ELSE "enqueue")

MarkAnyRow(t) ==  \* faulty variant: the update is not limited to PENDING
  /\ pc[t] = "mark"
  /\ row' = [row EXCEPT ![Oldest(loc[t].batch)] = "QUEUED"]
  /\ NextOfBatch(t)
  /\ UNCHANGED <<otherThanRow, queue, lock, rec, history, left>>

MarkQueued(t) ==
  /\ pc[t] = "mark"
  /\ LET r == Oldest(loc[t].batch)
     IN row' = [row EXCEPT ![r] = IF @ = "PENDING" THEN "QUEUED" ELSE @]
  /\ NextOfBatch(t)
  /\ UNCHANGED <<otherThanRow, queue, lock, rec, history, left>>

\* add() or the update throws: logged, and the loop goes on.
QueueingFails(t) ==
  /\ pc[t] \in {"enqueue", "mark"}
  /\ Spend("fault")
  /\ NextOfBatch(t)
  /\ UNCHANGED <<database, queue, lock, rec, history>>

\* The dispatch ends by writing RUNNING, whatever the status is by now.
Promote(t) ==
  /\ pc[t] = "promote"
  /\ LET c == loc[t].camp
     IN /\ campaign' = [campaign EXCEPT ![c] = "RUNNING"]
        /\ \E n \in (IF loc[t].start = 0 THEN Now ELSE {loc[t].start}) :
             startedAt' = [startedAt EXCEPT ![c] = n]
        /\ revived' = IF campaign[c] \in Active THEN revived ELSE revived \union {c}
  /\ Go(t, "unlock")
  /\ UNCHANGED <<phoneOk, row, attempts, recorded, retried, optedOut, queue,
                 lock, rec, loc, accepted, lost, left>>

\* The lock is released by a GET of the token and a DEL when it still matches.
CompareToken(t) ==
  /\ pc[t] = "unlock"
  /\ Go(t, IF lock[loc[t].camp] = t THEN "del" ELSE "next")
  /\ UNCHANGED <<database, queue, lock, rec, loc, history, left>>

DeleteLock(t) ==
  /\ pc[t] = "del"
  /\ lock' = [lock EXCEPT ![loc[t].camp] = NoThread]
  /\ Go(t, "next")
  /\ UNCHANGED <<database, queue, rec, loc, history, left>>

Dispatch(t) ==
  \/ List(t) \/ AcquireLock(t) \/ SkipLocked(t) \/ NoMoreCampaigns(t)
  \/ FetchCampaign(t)
  \/ CheckCompetitor(t) \/ CountInFlight(t) \/ PickBatch(t) \/ Enqueue(t)
  \/ MarkQueued(t) \/ QueueingFails(t) \/ Promote(t) \/ CompareToken(t)
  \/ DeleteLock(t)

Leases(t, c) == pc[t] \in LeaseSteps /\ loc[t].camp = c

\* PX: at once when the holder died, otherwise because the holder is slow.
LockExpires(c) ==
  /\ lock[c] # NoThread
  /\ \/ ~Leases(lock[c], c) /\ UNCHANGED left
     \/ Leases(lock[c], c) /\ Spend("expiry")
  /\ lock' = [lock EXCEPT ![c] = NoThread]
  /\ UNCHANGED <<database, queue, pc, rec, loc, history>>

-----------------------------------------------------------------------------
(* BullMQ: delivery of jobs to worker slots. *)

\* The delay of a job elapses, at any moment: the first batch of a campaign has
\* none, and its job may run before the dispatch that added it marks the row.
JobDue(r) ==
  /\ job[r] = "delayed"
  /\ job' = [job EXCEPT ![r] = "waiting"]
  /\ UNCHANGED <<database, owner, stalled, lock, pc, rec, loc, history, left>>

TakeJob(t, r) ==
  /\ t \in Workers /\ pc[t] = "idle" /\ job[r] = "waiting"
  /\ job' = [job EXCEPT ![r] = "active"]
  /\ owner' = [owner EXCEPT ![r] = t]
  /\ rec' = [rec EXCEPT ![t] = r]
  /\ Keep(t, [Blank EXCEPT !.camp = CampaignOf[r]])
  /\ Go(t, "read")
  /\ UNCHANGED <<database, stalled, lock, history, left>>

\* An active job whose lock was not renewed goes back to waiting once, and
\* fails the second time (maxStalledCount is 1). Its holder may be alive.
JobStalls(r) ==
  /\ job[r] = "active"
  /\ IF rec[owner[r]] = r THEN Spend("stall") ELSE UNCHANGED left
  /\ job' = [job EXCEPT ![r] = IF r \in stalled THEN "done" ELSE "waiting"]
  /\ owner' = [owner EXCEPT ![r] = NoThread]
  /\ stalled' = stalled \union {r}
  /\ UNCHANGED <<database, lock, pc, rec, loc, history>>

\* The slot gives its job up: the job moves only if the slot still holds it.
LeaveJob(t, state) ==
  LET r == rec[t]
  IN /\ IF r \in Recipients /\ owner[r] = t
        THEN /\ job' = [job EXCEPT ![r] = state]
             /\ owner' = [owner EXCEPT ![r] = NoThread]
        ELSE UNCHANGED <<job, owner>>
     /\ rec' = [rec EXCEPT ![t] = NoRow]
     /\ Keep(t, Blank)
     /\ Go(t, "idle")

\* A worker that ran its job to the end dispatches (see List) and then
\* completes it; an API request or an interval tick just ends.
Finish(t) ==
  /\ pc[t] = "finish"
  /\ LeaveJob(t, "done")
  /\ UNCHANGED <<database, stalled, lock, history, left>>

-----------------------------------------------------------------------------
(* processCampaignRecipient. *)

ReadRow(t) ==
  /\ pc[t] = "read"
  /\ LET r == rec[t]
         status == campaign[CampaignOf[r]]
     IN \/ /\ row[r] \in Concluded
           /\ Go(t, "list") /\ UNCHANGED loc
        \/ /\ row[r] \in Open /\ status \in Active
           /\ Keep(t, [loc[t] EXCEPT !.att = attempts[r] + 1])
           /\ Go(t, "claim")
        \/ /\ row[r] \in Open /\ status \notin Active
           /\ Go(t, IF status = "CANCELLED" THEN "cancelRow" ELSE "restoreRow")
           /\ UNCHANGED loc
  /\ UNCHANGED <<database, queue, lock, rec, history, left>>

\* The campaign was read CANCELLED: the row is cancelled whatever it is now.
CancelRow(t) ==
  /\ pc[t] = "cancelRow"
  /\ row' = [row EXCEPT ![rec[t]] = "CANCELLED"]
  /\ Go(t, "list")
  /\ UNCHANGED <<otherThanRow, queue, lock, rec, loc, history, left>>

\* The campaign was read inactive: a row that is still QUEUED is given back.
RestoreRow(t) ==
  /\ pc[t] = "restoreRow"
  /\ row' = [row EXCEPT ![rec[t]] = IF @ = "QUEUED" THEN "PENDING" ELSE @]
  /\ Go(t, "list")
  /\ UNCHANGED <<otherThanRow, queue, lock, rec, loc, history, left>>

ClaimableAgain(r) == row[r] \in {"QUEUED", "PROCESSING"} /\ ~recorded[r]  \* faulty variant
ClaimableUnrecorded(r) == row[r] = "QUEUED"  \* faulty variant: no null check

\* The compare-and-set that makes one run of the job the sender of the row.
Claimable(r) == row[r] = "QUEUED" /\ ~recorded[r]

Claim(t) ==
  /\ pc[t] = "claim"
  /\ LET r == rec[t]
     IN \/ /\ Claimable(r)
           /\ row' = [row EXCEPT ![r] = "PROCESSING"]
           /\ attempts' = [attempts EXCEPT ![r] = @ + 1]
           /\ Go(t, "recheck")
        \/ /\ ~Claimable(r)
           /\ Go(t, "list")
           /\ UNCHANGED <<row, attempts>>
  /\ UNCHANGED <<campaign, startedAt, phoneOk, recorded, retried, optedOut,
                 queue, lock, rec, loc, history, left>>

Recheck(t) ==
  /\ pc[t] = "recheck"
  /\ LET status == campaign[CampaignOf[rec[t]]]
     IN /\ Go(t, IF status = "RUNNING" THEN "send" ELSE "drop")
        /\ Keep(t, [loc[t] EXCEPT !.seen = status])
  /\ UNCHANGED <<database, queue, lock, rec, history, left>>

\* The claim is given up; SCHEDULED counts as not running here.
Drop(t) ==
  /\ pc[t] = "drop"
  /\ row' = [row EXCEPT ![rec[t]] =
               IF loc[t].seen = "CANCELLED" THEN "CANCELLED" ELSE "PENDING"]
  /\ Go(t, "list")
  /\ UNCHANGED <<otherThanRow, queue, lock, rec, loc, history, left>>

\* The catch block: classify, then retry or fail by the attempt number that
\* was computed from the row as it was first read.
Handle(t, category) ==
  /\ Keep(t, [loc[t] EXCEPT !.cat = category])
  /\ Go(t, IF category = "RETRYABLE" /\ loc[t].att < MaxAttempts
           THEN "requeue" ELSE "fail")

SendAccepted(t) ==
  /\ pc[t] = "send"
  /\ accepted' = [accepted EXCEPT ![rec[t]] = @ + 1]
  /\ Go(t, "commit")
  /\ UNCHANGED <<database, queue, lock, rec, loc, lost, revived, left>>

SendRejected(t) ==
  /\ pc[t] = "send"
  /\ \E category \in Rejections : Handle(t, category)
  /\ UNCHANGED <<database, queue, lock, rec, history, left>>

\* The provider accepts but the request times out: an error without an HTTP
\* status, which classifyCampaignError calls RETRYABLE.
AnswerLost(t) ==
  /\ pc[t] = "send"
  /\ Spend("lostAnswer")
  /\ accepted' = [accepted EXCEPT ![rec[t]] = @ + 1]
  /\ lost' = [lost EXCEPT ![rec[t]] = @ + 1]
  /\ Handle(t, "RETRYABLE")
  /\ UNCHANGED <<database, queue, lock, rec, revived>>

\* One transaction: message, recipient and customer.
Commit(t) ==
  /\ pc[t] = "commit"
  /\ row' = [row EXCEPT ![rec[t]] = "SENT"]
  /\ recorded' = [recorded EXCEPT ![rec[t]] = TRUE]
  /\ Keep(t, [loc[t] EXCEPT !.cat = "SENT"])
  /\ Go(t, "group")
  /\ UNCHANGED <<campaign, startedAt, phoneOk, attempts, retried, optedOut,
                 queue, lock, rec, history, left>>

\* The transaction throws inside the try block, so the send is "retryable".
CommitFails(t) ==
  /\ pc[t] = "commit"
  /\ Spend("fault")
  /\ lost' = [lost EXCEPT ![rec[t]] = @ + 1]
  /\ Handle(t, "RETRYABLE")
  /\ UNCHANGED <<database, queue, lock, rec, accepted, revived>>

\* The refresh after a committed send is inside the same try block.
RefreshFails(t) ==
  /\ pc[t] \in RefreshSteps /\ t \in Workers /\ loc[t].cat = "SENT"
  /\ Spend("fault")
  /\ Handle(t, "RETRYABLE")
  /\ UNCHANGED <<database, queue, lock, rec, history>>

Requeue(t) ==
  /\ pc[t] = "requeue"
  /\ row' = [row EXCEPT ![rec[t]] = "QUEUED"]
  /\ retried' = retried \union {rec[t]}
  /\ Go(t, "redelay")
  /\ UNCHANGED <<campaign, startedAt, phoneOk, attempts, recorded, optedOut,
                 queue, lock, rec, loc, history, left>>

\* job.moveToDelayed and DelayedError: the job ends without a dispatch.
Redelay(t) ==
  /\ pc[t] = "redelay"
  /\ LeaveJob(t, "delayed")
  /\ UNCHANGED <<database, stalled, lock, history, left>>

FailUnlessExhausted(t) ==  \* faulty variant: the last attempt leaves its row as it is
  /\ pc[t] = "fail"
  /\ row' = IF loc[t].cat = "RETRYABLE" THEN row ELSE [row EXCEPT ![rec[t]] = "FAILED"]
  /\ Go(t, CASE loc[t].cat = "PERMANENT_ACCOUNT" -> "pausePhone"
             [] loc[t].cat = "PERMANENT_TEMPLATE" -> "pauseRead"
             [] OTHER -> "evaluate")
  /\ UNCHANGED <<otherThanRow, queue, lock, rec, loc, history, left>>

Fail(t) ==
  /\ pc[t] = "fail"
  /\ row' = [row EXCEPT ![rec[t]] = "FAILED"]
  /\ Go(t, CASE loc[t].cat = "PERMANENT_ACCOUNT" -> "pausePhone"
             [] loc[t].cat = "PERMANENT_TEMPLATE" -> "pauseRead"
             [] OTHER -> "evaluate")
  /\ UNCHANGED <<otherThanRow, queue, lock, rec, loc, history, left>>

\* pausePhoneCampaigns: one transaction over the phone and its campaigns.
PausePhone(t) ==
  /\ pc[t] = "pausePhone"
  /\ LET p == PhoneOf[loc[t].camp]
     IN /\ campaign' = [c \in Campaigns |->
             IF PhoneOf[c] = p /\ campaign[c] \in Active THEN "PAUSED"
             ELSE campaign[c]]
        /\ phoneOk' = [phoneOk EXCEPT ![p] = FALSE]
  /\ Go(t, "group")
  /\ UNCHANGED <<startedAt, row, attempts, recorded, retried, optedOut, queue,
                 lock, rec, loc, history, left>>

Send(t) ==
  \/ ReadRow(t) \/ CancelRow(t) \/ RestoreRow(t) \/ Claim(t) \/ Recheck(t)
  \/ Drop(t) \/ SendAccepted(t) \/ SendRejected(t) \/ AnswerLost(t)
  \/ Commit(t) \/ CommitFails(t) \/ RefreshFails(t) \/ Requeue(t)
  \/ Redelay(t) \/ Fail(t) \/ PausePhone(t) \/ Finish(t)

-----------------------------------------------------------------------------
(* evaluateAutoPause, the automatic pauseCampaign, and the refresh. *)

FailureRateTrips(c) ==
  LET sampled == Cardinality({r \in RowsOf(c) : row[r] \in Concluded})
      failed == Cardinality(FailedRows(c))
  IN sampled > 0 /\ sampled >= MinSample /\ failed * 100 >= FailureRate * sampled

\* Which rows are the most recent is not modelled: enough failed rows may be.
MayBeConsecutive(c) == Cardinality(FailedRows(c)) >= ConsecutiveFailures

EvaluateAutoPause(t) ==
  /\ pc[t] = "evaluate"
  /\ LET c == loc[t].camp
     IN \/ /\ campaign[c] = "RUNNING"
           /\ FailureRateTrips(c) \/ MayBeConsecutive(c)
           /\ Go(t, "pauseRead")
        \/ /\ campaign[c] # "RUNNING" \/ ~FailureRateTrips(c)
           /\ Go(t, "group")
  /\ UNCHANGED <<database, queue, lock, rec, loc, history, left>>

PauseRead(t) ==
  /\ pc[t] = "pauseRead"
  /\ Go(t, IF campaign[loc[t].camp] \in Active THEN "pauseWrite" ELSE "group")
  /\ UNCHANGED <<database, queue, lock, rec, loc, history, left>>

PauseWrite(t) ==
  /\ pc[t] = "pauseWrite"
  /\ campaign' = [campaign EXCEPT ![loc[t].camp] = "PAUSED"]
  /\ Go(t, "group")
  /\ UNCHANGED <<otherThanCampaign, queue, lock, rec, loc, history, left>>

GroupRowsButFailed(t) ==  \* faulty variant: a FAILED row counts as open
  /\ pc[t] = "group"
  /\ Keep(t, [loc[t] EXCEPT !.complete =
        \A r \in RowsOf(loc[t].camp) : row[r] \notin Open \union {"FAILED"}])
  /\ Go(t, "status")
  /\ UNCHANGED <<database, queue, lock, rec, history, left>>

\* refreshCampaignRecipientCounts: the rows, then the campaign, then the write.
GroupRows(t) ==
  /\ pc[t] = "group"
  /\ Keep(t, [loc[t] EXCEPT !.complete =
        \A r \in RowsOf(loc[t].camp) : row[r] \notin Open])
  /\ Go(t, "status")
  /\ UNCHANGED <<database, queue, lock, rec, history, left>>

ReadStatus(t) ==
  /\ pc[t] = "status"
  /\ Keep(t, [loc[t] EXCEPT !.seen = campaign[loc[t].camp]])
  /\ Go(t, "store")
  /\ UNCHANGED <<database, queue, lock, rec, history, left>>

\* The status that was read is written back even when it did not change.
StoreStatus(t) ==
  /\ pc[t] = "store"
  /\ campaign' = [campaign EXCEPT ![loc[t].camp] =
        IF loc[t].complete /\ loc[t].seen \in Active THEN "COMPLETED"
        ELSE loc[t].seen]
  /\ Go(t, IF t \in Workers THEN "list" ELSE "finish")
  /\ UNCHANGED <<otherThanCampaign, queue, lock, rec, loc, history, left>>

Refresh(t) ==
  \/ EvaluateAutoPause(t) \/ PauseRead(t) \/ PauseWrite(t)
  \/ GroupRows(t) \/ ReadStatus(t) \/ StoreStatus(t)

-----------------------------------------------------------------------------
(* API requests, delivery receipts and the dispatch interval. *)

\* assertStartable, with an approved template and rates within the limits.
Startable(c) ==
  /\ RowsOf(c) # {} /\ phoneOk[PhoneOf[c]]
  /\ ~\E d \in ActiveCampaigns \ {c} : PhoneOf[d] = PhoneOf[c]

\* A caller begins work on campaign c; the request was read and validated.
Begin(t, c, step) ==
  /\ t \in Callers /\ pc[t] = "idle"
  /\ Keep(t, [Blank EXCEPT !.camp = c, !.start = startedAt[c]])
  /\ Go(t, step)
  /\ UNCHANGED <<database, queue, lock, rec, history>>

Tick(t) ==
  /\ t \in Callers /\ pc[t] = "idle"
  /\ Go(t, "list")
  /\ UNCHANGED <<database, queue, lock, rec, loc, history, left>>

AskStart(t, c) ==
  /\ campaign[c] = "SCHEDULED" /\ Startable(c)
  /\ Spend("command") /\ Begin(t, c, "startWrite")

\* startCampaign and resumeCampaign go on to dispatchCampaign(id).
StartWrite(t) ==
  /\ pc[t] = "startWrite"
  /\ LET c == loc[t].camp
     IN /\ campaign' = [campaign EXCEPT ![c] = "RUNNING"]
        /\ \E n \in (IF loc[t].start = 0 THEN Now ELSE {loc[t].start}) :
             startedAt' = [startedAt EXCEPT ![c] = n]
        /\ Keep(t, [Blank EXCEPT !.todo = {c}])
  /\ Go(t, "next")
  /\ UNCHANGED <<phoneOk, row, attempts, recorded, retried, optedOut, queue,
                 lock, rec, history, left>>

AskPause(t, c) ==
  /\ campaign[c] \in Active
  /\ Spend("command") /\ Begin(t, c, "userPause")

UserPause(t) ==
  /\ pc[t] = "userPause"
  /\ campaign' = [campaign EXCEPT ![loc[t].camp] = "PAUSED"]
  /\ Go(t, "finish")
  /\ UNCHANGED <<otherThanCampaign, queue, lock, rec, loc, history, left>>

AskResume(t, c) ==
  /\ campaign[c] = "PAUSED" /\ Startable(c)
  /\ Spend("command") /\ Begin(t, c, "resumeRows")

ResumeRows(t) ==
  /\ pc[t] = "resumeRows"
  /\ row' = [r \in Recipients |->
       IF CampaignOf[r] = loc[t].camp /\ row[r] = "QUEUED" THEN "PENDING"
       ELSE row[r]]
  /\ Go(t, "resumeWrite")
  /\ UNCHANGED <<otherThanRow, queue, lock, rec, loc, history, left>>

ResumeWrite(t) ==
  /\ pc[t] = "resumeWrite"
  /\ campaign' = [campaign EXCEPT ![loc[t].camp] = "RUNNING"]
  /\ Keep(t, [Blank EXCEPT !.todo = {loc[t].camp}])
  /\ Go(t, "next")
  /\ UNCHANGED <<otherThanCampaign, queue, lock, rec, history, left>>

AskCancel(t, c) ==
  /\ campaign[c] \notin {"COMPLETED", "CANCELLED"}
  /\ Spend("command") /\ Begin(t, c, "cancelTx")

\* Campaign and waiting rows in one transaction.
CancelTx(t) ==
  /\ pc[t] = "cancelTx"
  /\ campaign' = [campaign EXCEPT ![loc[t].camp] = "CANCELLED"]
  /\ row' = [r \in Recipients |->
       IF CampaignOf[r] = loc[t].camp /\ row[r] \in {"PENDING", "QUEUED"}
       THEN "CANCELLED" ELSE row[r]]
  /\ Go(t, "purge")
  /\ UNCHANGED <<startedAt, phoneOk, attempts, recorded, retried, optedOut,
                 queue, lock, rec, loc, history, left>>

\* Delayed and waiting jobs of the campaign are removed; then the refresh.
Purge(t) ==
  /\ pc[t] = "purge"
  /\ job' = [r \in Recipients |->
       IF CampaignOf[r] = loc[t].camp /\ job[r] \in {"delayed", "waiting"}
       THEN "none" ELSE job[r]]
  /\ Go(t, "group")
  /\ UNCHANGED <<database, owner, stalled, lock, rec, loc, history, left>>

\* GET progress refreshes the counts.
AskProgress(t, c) ==
  Spend("command") /\ Begin(t, c, "group")

\* updateCampaignSafety: the phone row, then, when it is unusable, its
\* campaigns in a second statement.
DisablePhone(t, c) ==
  /\ t \in Callers /\ pc[t] = "idle" /\ Spend("command")
  /\ phoneOk' = [phoneOk EXCEPT ![PhoneOf[c]] = FALSE]
  /\ Keep(t, [Blank EXCEPT !.camp = c])
  /\ Go(t, "pauseAll")
  /\ UNCHANGED <<campaign, startedAt, row, attempts, recorded, retried,
                 optedOut, queue, lock, rec, history>>

PauseAll(t) ==
  /\ pc[t] = "pauseAll"
  /\ campaign' = [c \in Campaigns |->
       IF PhoneOf[c] = PhoneOf[loc[t].camp] /\ campaign[c] \in Active
       THEN "PAUSED" ELSE campaign[c]]
  /\ Go(t, "finish")
  /\ UNCHANGED <<otherThanCampaign, queue, lock, rec, loc, history, left>>

EnablePhone(p) ==
  /\ ~phoneOk[p] /\ Spend("command")
  /\ phoneOk' = [phoneOk EXCEPT ![p] = TRUE]
  /\ UNCHANGED <<campaign, startedAt, row, attempts, recorded, retried,
                 optedOut, queue, lock, pc, rec, loc, history>>

\* applyInboundOptOut and the manual opt-out: one transaction.
OptOut(customer) ==
  /\ Spend("optOut")
  /\ optedOut' = optedOut \union {customer}
  /\ row' = [r \in Recipients |->
       IF CustomerOf[r] = customer /\ row[r] \in {"PENDING", "QUEUED"}
       THEN "CANCELLED" ELSE row[r]]
  /\ UNCHANGED <<campaign, startedAt, phoneOk, attempts, recorded, retried,
                 queue, lock, pc, rec, loc, history>>

\* processStatus for a message of a campaign: the row, the automatic pause
\* when it failed, the refresh.
Receipt(t, r) ==
  /\ t \in Callers /\ pc[t] = "idle" /\ recorded[r] /\ Spend("receipt")
  /\ \E status \in {"SENT", "DELIVERED", "FAILED"} :
       /\ row' = [row EXCEPT ![r] = status]
       /\ Go(t, IF status = "FAILED" THEN "evaluate" ELSE "group")
  /\ Keep(t, [Blank EXCEPT !.camp = CampaignOf[r]])
  /\ UNCHANGED <<otherThanRow, queue, lock, rec, history>>

Ask(t, c) ==
  \/ AskStart(t, c) \/ AskPause(t, c) \/ AskResume(t, c) \/ AskCancel(t, c)
  \/ AskProgress(t, c) \/ DisablePhone(t, c)

Carry(t) ==
  \/ StartWrite(t) \/ UserPause(t) \/ ResumeRows(t) \/ ResumeWrite(t)
  \/ CancelTx(t) \/ Purge(t) \/ PauseAll(t)

\* A killed process: what the thread knew is gone, its job stays active and
\* its dispatch lock stays set.
Crash(t) ==
  /\ pc[t] # "idle" /\ Spend("crash")
  /\ Go(t, "idle") /\ Keep(t, Blank)
  /\ rec' = [rec EXCEPT ![t] = NoRow]
  /\ UNCHANGED <<database, queue, lock, history>>

\* A database or Redis call fails and nothing catches the error: the handler
\* throws. BullMQ retries the job of a worker after a delay, or gives it up; a
\* claimed row stays PROCESSING. A dispatch still releases its lock.
Throws(t) ==
  /\ pc[t] \notin {"idle", "finish", "send", "commit", "enqueue", "mark"}
  /\ ~(pc[t] \in RefreshSteps /\ loc[t].cat = "SENT")
  /\ Spend("fault")
  /\ \E state \in {"delayed", "done"} : LeaveJob(t, state)
  /\ lock' = [c \in Campaigns |->
       IF /\ lock[c] = t /\ loc[t].camp = c
          /\ pc[t] \in {"fetch", "rival", "count", "pick", "promote"}
       THEN NoThread ELSE lock[c]]
  /\ UNCHANGED <<database, stalled, history>>

-----------------------------------------------------------------------------
Init ==
  /\ campaign = [c \in Campaigns |-> "SCHEDULED"]
  /\ startedAt = [c \in Campaigns |-> 0]
  /\ phoneOk = [p \in Phones |-> TRUE]
  /\ row = [r \in Recipients |-> "PENDING"]
  /\ attempts = [r \in Recipients |-> 0]
  /\ recorded = [r \in Recipients |-> FALSE]
  /\ retried = {} /\ optedOut = {}
  /\ job = [r \in Recipients |-> "none"]
  /\ owner = [r \in Recipients |-> NoThread]
  /\ stalled = {}
  /\ lock = [c \in Campaigns |-> NoThread]
  /\ pc = [t \in Threads |-> "idle"]
  /\ rec = [t \in Threads |-> NoRow]
  /\ loc = [t \in Threads |-> Blank]
  /\ accepted = [r \in Recipients |-> 0]
  /\ lost = [r \in Recipients |-> 0]
  /\ revived = {}
  /\ left = Budget

Step(t) == Dispatch(t) \/ Send(t) \/ Refresh(t) \/ Carry(t)

Next ==
  \/ \E t \in Threads : Step(t) \/ Tick(t) \/ Crash(t) \/ Throws(t)
  \/ \E t \in Threads, c \in Campaigns : Ask(t, c)
  \/ \E t \in Threads, r \in Recipients : TakeJob(t, r) \/ Receipt(t, r)
  \/ \E r \in Recipients : JobDue(r) \/ JobStalls(r)
  \/ \E c \in Campaigns : LockExpires(c)
  \/ \E p \in Phones : EnablePhone(p)
  \/ \E customer \in Customers : OptOut(customer)

Spec == Init /\ [][Next]_vars

\* The processes keep running: a thread takes its next step, an idle caller's
\* interval fires, BullMQ promotes due jobs, hands them to idle slots and
\* recovers stalled ones, and Redis expires the locks of dead holders.
Fairness ==
  /\ \A t \in Threads : WF_vars(Step(t)) /\ WF_vars(Tick(t))
  /\ \A t \in Workers : WF_vars(\E r \in Recipients : TakeJob(t, r))
  /\ \A r \in Recipients : WF_vars(JobDue(r)) /\ WF_vars(JobStalls(r))
  /\ \A c \in Campaigns : WF_vars(LockExpires(c))

FairSpec == Spec /\ Fairness

-----------------------------------------------------------------------------
TypeOK ==
  /\ campaign \in [Campaigns -> CampaignStatus]
  /\ startedAt \in [Campaigns -> Nat]
  /\ phoneOk \in [Phones -> BOOLEAN]
  /\ row \in [Recipients -> Open \union Concluded]
  /\ attempts \in [Recipients -> Nat]
  /\ recorded \in [Recipients -> BOOLEAN]
  /\ retried \subseteq Recipients
  /\ optedOut \subseteq Customers
  /\ job \in [Recipients -> JobState]
  /\ owner \in [Recipients -> Threads \union {NoThread}]
  /\ stalled \subseteq Recipients
  /\ lock \in [Campaigns -> Threads \union {NoThread}]
  /\ pc \in [Threads -> Steps]
  /\ rec \in [Threads -> Recipients \union {NoRow}]
  /\ loc \in [Threads -> Locals]
  /\ accepted \in [Recipients -> Nat]
  /\ lost \in [Recipients -> Nat]
  /\ revived \subseteq Campaigns
  /\ left \in [Events -> Nat]

\* Thread t is the sender of row r: it won the claim and has not yet written
\* the row's next status. Once the result is recorded nobody holds the row.
Holds(t, r) ==
  /\ rec[t] = r /\ ~recorded[r]
  /\ pc[t] \in {"recheck", "drop", "send", "commit", "requeue", "fail"}

\* Two runs of one job, or two jobs of one row, never both get past the claim,
\* and the row of a sender stays PROCESSING (or is CANCELLED under it), so no
\* dispatch, resume or opt-out can hand it to another run.
ClaimExclusive ==
  \A r \in Recipients, t \in Threads : Holds(t, r) =>
    /\ row[r] \in {"PROCESSING", "CANCELLED"}
    /\ \A u \in Threads \ {t} : ~Holds(u, r)

\* A row is accepted by the provider again only after the program lost the
\* outcome of an accepted send: no interleaving, crash, stalled job, pause,
\* resume or receipt sends a row twice.
NoBlindResend == \A r \in Recipients : accepted[r] <= 1 + lost[r]

\* At most one batch of a campaign is queued or processing, although any
\* worker, interval tick or request may dispatch at any time.
BatchBound == \A c \in Campaigns : Cardinality(InFlight(c)) <= BatchSize

\* One thread at a time is between acquiring and releasing a dispatch lock.
OneDispatcher ==
  \A c \in Campaigns, t, u \in Threads : Leases(t, c) /\ Leases(u, c) => t = u

\* A cancelled row that no sender holds is never brought back, whether a
\* cancellation or an opt-out cancelled it, while jobs, retries and dispatches
\* that knew it as PENDING or QUEUED are still on their way.
CancelledStays ==
  [][\A r \in Recipients :
       /\ row[r] = "CANCELLED" /\ ~recorded[r]
       /\ \A t \in Threads : ~Holds(t, r)
       => row'[r] = "CANCELLED"]_vars

\* A send that was recorded is the last one of its row. A call that fails after
\* the commit puts the row back in the queue, a resume gives it back, and jobs
\* and dispatches that knew it earlier are still on their way: the provider is
\* not asked for it again.
SentIsFinal ==
  [][\A r \in Recipients : recorded[r] => accepted'[r] = accepted[r]]_vars

\* One campaign of a phone number runs at a time.
OneRunningPerPhone ==
  \A c, d \in Campaigns :
    /\ PhoneOf[c] = PhoneOf[d]
    /\ campaign[c] = "RUNNING" /\ campaign[d] = "RUNNING"
    => c = d

\* A campaign that was paused, cancelled or completed runs again only when it
\* is resumed.
StaysStopped ==
  [][\A c \in Campaigns :
       campaign[c] \notin Active /\ campaign'[c] = "RUNNING"
       => \E t \in Threads : pc[t] = "resumeWrite" /\ loc[t].camp = c]_campaign

\* The provider accepts at most one message per recipient row.
NeverResent == \A r \in Recipients : accepted[r] <= 1

\* No row of a customer who opted out waits to be sent.
OptOutCancels ==
  \A r \in Recipients :
    CustomerOf[r] \in optedOut => row[r] \notin {"PENDING", "QUEUED"}

\* A row whose job ran while it was not QUEUED: BullMQ knows the id of the spent
\* job and ignores every add() of it.
Stranded(r) == row[r] = "QUEUED" /\ job[r] = "done"

Ended(c) ==
  /\ campaign[c] \in {"COMPLETED", "PAUSED", "CANCELLED"}
  /\ campaign[c] = "COMPLETED" => \A r \in RowsOf(c) : row[r] \in Concluded

\* An active campaign that nothing ends any more: a spent job id keeps a row of
\* it QUEUED, or the dispatch of its last batch wrote RUNNING when every row had
\* been handled and the campaign was COMPLETED or PAUSED.
Stuck(c) ==
  /\ campaign[c] \in Active
  /\ \/ \E r \in RowsOf(c) : Stranded(r)
     \/ c \in revived /\ \A r \in RowsOf(c) : row[r] \in Concluded

\* Every campaign ends, or is paused, with each of its rows sent or given up:
\* the database is the source of truth. Only a stuck campaign, which holds its
\* phone number, keeps itself and those behind it from the end.
CampaignsEnd ==
  <>[](\A c \in Campaigns :
         Ended(c) \/ \E d \in Campaigns : PhoneOf[d] = PhoneOf[c] /\ Stuck(d))

\* A row handed to the queue is eventually taken from it: by its job, by a
\* cancellation, or given back.
QueuedRowMoves ==
  \A r \in Recipients : row[r] = "QUEUED" ~> row[r] # "QUEUED"

\* A claimed row is always given a result: a send under way is eventually
\* committed, retried, dropped or failed while its process runs.
ClaimResolves ==
  \A r \in Recipients : row[r] = "PROCESSING" ~> row[r] # "PROCESSING"
=============================================================================
