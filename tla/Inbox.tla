-------------------------------- MODULE Inbox --------------------------------
(***************************************************************************)
(* Inbound WhatsApp messages and the inbox of one customer: the webhook     *)
(* request that stores an audit row and queues a job, the webhook worker    *)
(* that stores the message, counts it in the customer's active conversation,*)
(* applies an opt-out and announces it, and the requests of the staff that  *)
(* open, read, close and reassign the conversation meanwhile.               *)
(*                                                                         *)
(* Every step is one database statement, transaction or queue call; a       *)
(* thread keeps what it read in `loc` and may act on it after others have   *)
(* changed it.                                                             *)
(***************************************************************************)
EXTENDS Integers, Sequences, FiniteSets

CONSTANTS
  Deliveries,   \* webhook requests of the provider; a redelivery is another one
  MessageOf,    \* the inbound message that a delivery carries
  OptOutTexts,  \* messages whose text is an opt-out phrase
  Staff,        \* employees the customer can be assigned to
  Workers,      \* job slots of the webhook worker
  Agents,       \* API requests of the staff
  MaxAttempts,  \* WEBHOOK_QUEUE_ATTEMPTS
  Budget        \* how often each event outside the program may happen

Threads == Workers \union Agents
Messages == {MessageOf[d] : d \in Deliveries}
NoThread == "none"
Nobody == "nobody"
NoDelivery == "none"

\* The bounded events: requests of the staff, and failures (a failing call, a
\* killed worker, a job that stalls although its worker is alive).
Events == {"request", "failure"}

ASSUME ConstantsAssumption ==
  /\ DOMAIN MessageOf = Deliveries
  /\ OptOutTexts \subseteq Messages
  /\ NoThread \notin Threads /\ Workers \intersect Agents = {}
  /\ Nobody \notin Staff /\ NoDelivery \notin Deliveries
  /\ MaxAttempts \in Nat \ {0}
  /\ Budget \in [Events -> Nat]

VARIABLES
  event,     \* WebhookEvent.status, "none" before the row is stored
  arriving,  \* deliveries whose request has yet to queue its job
  job,       \* per delivery: the BullMQ job webhook-event-<id>
  owner,     \* the worker slot that holds the job's BullMQ lock
  tries,     \* attempts of the job that ended in an error
  stalled,   \* jobs that BullMQ has found stalled once
  known,     \* the customer has a row
  assignee,  \* Customer.assignedToId
  optedOut,  \* Customer.whatsappOptOutAt is set
  convs,     \* the customer's Conversation rows in the order of creation
  active,    \* index of the one whose activeKey is set, 0 if there is none
  home,      \* per message: the conversation it was stored in, 0 if not stored
  counted, announced,  \* per message, history: how often
  cut,       \* history: stored messages whose run ended before it was done
  pc, loc,   \* per thread: next step, values read
  left       \* what remains of Budget

audit == <<event, arriving>>
queue == <<job, owner, tries, stalled>>
customer == <<known, assignee, optedOut>>
inbox == <<convs, active>>
history == <<counted, announced, cut>>
vars == <<audit, queue, customer, inbox, home, history, pc, loc, left>>

Final == {"PROCESSED", "IGNORED"}
EventStatus == {"none", "RECEIVED", "FAILED"} \union Final
ConversationStatus == {"OPEN", "PENDING", "CLOSED", "ARCHIVED"}
Assignees == Staff \union {Nobody}
Conversation == [status : ConversationStatus, assignee : Assignees, unread : Nat]

\* The steps of processInboundMessage before and after the message is stored.
Lookup == {"duplicate", "customer", "assignee", "upsert", "store"}
AfterStore == {"count", "optOut", "announce"}
WorkerSteps == Lookup \union AfterStore
                 \union {"event", "close", "markFailed", "giveUp", "finish"}
AgentSteps == {"assignee", "upsert", "clear", "setStatus"}
Steps == {"idle"} \union WorkerSteps \union AgentSteps

\* What a thread remembers between two calls: the delivery of its job, whether
\* this run stored the message, the assignee it read, the conversation it got,
\* the step that follows the upsert, the final status of the event, and
\* whether its error may be retried.
Locals == [delivery : Deliveries \union {NoDelivery}, mine : BOOLEAN,
           seen : Assignees, conv : Nat, then : Steps, verdict : Final,
           retryable : BOOLEAN]

Blank == [delivery |-> NoDelivery, mine |-> FALSE, seen |-> Nobody, conv |-> 0,
          then |-> "idle", verdict |-> "IGNORED", retryable |-> FALSE]

Go(t, step) == pc' = [pc EXCEPT ![t] = step]
Keep(t, l) == loc' = [loc EXCEPT ![t] = l]
Spend(e) == left[e] > 0 /\ left' = [left EXCEPT ![e] = @ - 1]

MessageAt(w) == MessageOf[loc[w].delivery]
Unstored(m) == home[m] = 0

\* The run of a stored message ends before the message was counted, its
\* opt-out applied and its arrival announced.
CutShort(w) ==
  cut' = IF loc[w].mine /\ pc[w] \in AfterStore \union {"assignee", "upsert"}
         THEN cut \union {MessageAt(w)} ELSE cut

\* The BullMQ jobs webhook-event-<id>, one per stored event.
Queue == INSTANCE JobQueue
           WITH Jobs <- Deliveries, Slots <- Workers, NoSlot <- NoThread

-----------------------------------------------------------------------------
(* receiveWebhook. *)

Receive(d) ==
  /\ event[d] = "none"
  /\ event' = [event EXCEPT ![d] = "RECEIVED"]
  /\ arriving' = arriving \union {d}
  /\ UNCHANGED <<queue, customer, inbox, home, history, pc, loc, left>>

EnqueueEvent(d) ==
  /\ d \in arriving
  /\ arriving' = arriving \ {d}
  /\ Queue!Add(d)
  /\ UNCHANGED <<event, customer, inbox, home, history, pc, loc, left>>

\* add() throws, before or after Redis has stored the job, or the process is
\* killed: the audit row stays and the provider may deliver again.
EnqueueFails(d) ==
  /\ d \in arriving /\ Spend("failure")
  /\ arriving' = arriving \ {d}
  /\ Queue!Add(d) \/ UNCHANGED queue
  /\ UNCHANGED <<event, customer, inbox, home, history, pc, loc>>

-----------------------------------------------------------------------------
(* The webhook worker and its jobs. *)

TakeJob(w, d) ==
  /\ w \in Workers /\ pc[w] = "idle" /\ Queue!Take(w, d)
  /\ Go(w, "event") /\ Keep(w, [Blank EXCEPT !.delivery = d])
  /\ UNCHANGED <<audit, customer, inbox, home, history, left>>

Leave(w) == Go(w, "idle") /\ Keep(w, Blank)
Retry(w) == Queue!Fail(w, loc[w].delivery) /\ Leave(w)
Complete(w) == Queue!Complete(w, loc[w].delivery) /\ Leave(w)

\* A killed process: what its threads knew is gone, their jobs stay active.
Crash(w) ==
  /\ w \in Workers /\ pc[w] # "idle" /\ Spend("failure")
  /\ CutShort(w)
  /\ Leave(w)
  /\ UNCHANGED <<audit, queue, customer, inbox, home, counted, announced>>

\* The job of a dead worker, or of a live one that did not renew its lock.
JobStalls(d) ==
  /\ Queue!Stall(d)
  /\ IF loc[owner[d]].delivery = d THEN Spend("failure") ELSE UNCHANGED left
  /\ UNCHANGED <<audit, customer, inbox, home, history, pc, loc>>

-----------------------------------------------------------------------------
(* processQueuedWebhookEvent and dispatchWebhook. *)

ReadEvent(w) ==
  /\ pc[w] = "event"
  /\ Go(w, IF event[loc[w].delivery] \in Final THEN "finish" ELSE "duplicate")
  /\ UNCHANGED <<audit, queue, customer, inbox, home, history, loc, left>>

\* The read of the event is outside the try block: BullMQ gets the error.
ReadEventFails(w) ==
  /\ pc[w] = "event" /\ Spend("failure")
  /\ Retry(w)
  /\ UNCHANGED <<audit, customer, inbox, home, history>>

HandlerFailsIgnored(w) ==  \* faulty variant: an error leaves the result "ignored"
  /\ w \in Workers /\ pc[w] \in Lookup \union AfterStore \union {"close"}
  /\ Spend("failure")
  /\ CutShort(w)
  /\ Go(w, "close")
  /\ UNCHANGED <<audit, queue, customer, inbox, home, counted, announced, loc>>

\* A call of a handler, or the write of the final status, fails with an error
\* that isRetryableWebhookError accepts or not.
HandlerFails(w) ==
  /\ w \in Workers /\ pc[w] \in Lookup \union AfterStore \union {"close"}
  /\ Spend("failure")
  /\ CutShort(w)
  /\ \E r \in BOOLEAN : Keep(w, [loc[w] EXCEPT !.retryable = r])
  /\ Go(w, "markFailed")
  /\ UNCHANGED <<audit, queue, customer, inbox, home, counted, announced>>

MarkFailed(w) ==
  /\ pc[w] = "markFailed"
  /\ event' = [event EXCEPT ![loc[w].delivery] = "FAILED"]
  /\ Go(w, "giveUp")
  /\ UNCHANGED <<arriving, queue, customer, inbox, home, history, loc, left>>

\* The database is still out of reach: the error of this write replaces the one
\* it was to record.
MarkFailedFails(w) ==
  /\ pc[w] = "markFailed"
  /\ \E r \in BOOLEAN : Keep(w, [loc[w] EXCEPT !.retryable = r])
  /\ Go(w, "giveUp")
  /\ UNCHANGED <<audit, queue, customer, inbox, home, history, left>>

\* shouldRetryWebhookError: a retryable error is thrown to BullMQ while the job
\* has attempts left; any other ends the job as completed.
GiveUp(w) ==
  /\ pc[w] = "giveUp"
  /\ IF loc[w].retryable /\ ~Queue!LastAttempt(loc[w].delivery) THEN Retry(w)
     ELSE Complete(w)
  /\ UNCHANGED <<audit, customer, inbox, home, history, left>>

CloseEvent(w) ==
  /\ pc[w] = "close"
  /\ event' = [event EXCEPT ![loc[w].delivery] = loc[w].verdict]
  /\ Go(w, "finish")
  /\ UNCHANGED <<arriving, queue, customer, inbox, home, history, loc, left>>

Finish(w) ==
  /\ pc[w] = "finish"
  /\ Complete(w)
  /\ UNCHANGED <<audit, customer, inbox, home, history, left>>

-----------------------------------------------------------------------------
(* ensureConversationForCustomer, called by the worker and by every request   *)
(* on a conversation: the customer's assignee is read and then written to     *)
(* the active conversation, which is created if there is none.                *)

ReadAssignee(t) ==
  /\ pc[t] = "assignee"
  /\ Keep(t, [loc[t] EXCEPT !.seen = assignee])
  /\ Go(t, "upsert")
  /\ UNCHANGED <<audit, queue, customer, inbox, home, history, left>>

UpsertConversation(t) ==
  /\ pc[t] = "upsert"
  /\ IF active # 0
     THEN convs' = [convs EXCEPT ![active].assignee = loc[t].seen] /\ UNCHANGED active
     ELSE /\ convs' = Append(convs, [status |-> "OPEN", unread |-> 0,
                                     assignee |-> loc[t].seen])
          /\ active' = Len(convs) + 1
  /\ Keep(t, IF loc[t].then = "idle" THEN Blank ELSE [loc[t] EXCEPT !.conv = active'])
  /\ Go(t, loc[t].then)
  /\ UNCHANGED <<audit, queue, customer, home, history, left>>

-----------------------------------------------------------------------------
(* processInboundMessage. *)

FindDuplicate(w) ==
  /\ pc[w] = "duplicate"
  /\ Go(w, IF Unstored(MessageAt(w)) THEN "customer" ELSE "close")
  /\ UNCHANGED <<audit, queue, customer, inbox, home, history, loc, left>>

\* findOrCreateInboundCustomer: the phone number is unique, so a creation that
\* lost the race is answered by the winner's row.
ResolveCustomer(w) ==
  /\ pc[w] = "customer"
  /\ known' = TRUE
  /\ Go(w, "assignee") /\ Keep(w, [loc[w] EXCEPT !.then = "store"])
  /\ UNCHANGED <<audit, queue, assignee, optedOut, inbox, home, history, left>>

StoreAnyway(w) ==  \* faulty variant: the provider's id is not unique
  /\ pc[w] = "store"
  /\ home' = [home EXCEPT ![MessageAt(w)] = loc[w].conv]
  /\ Keep(w, [loc[w] EXCEPT !.mine = TRUE, !.then = "count", !.verdict = "PROCESSED"])
  /\ Go(w, "assignee")
  /\ UNCHANGED <<audit, queue, customer, inbox, history, left>>

\* The provider's message id is unique: a run that lost the race reports a
\* duplicate.
StoreMessage(w) ==
  /\ pc[w] = "store"
  /\ IF Unstored(MessageAt(w))
     THEN /\ home' = [home EXCEPT ![MessageAt(w)] = loc[w].conv]
          /\ Keep(w, [loc[w] EXCEPT !.mine = TRUE, !.then = "count",
                                    !.verdict = "PROCESSED"])
          /\ Go(w, "assignee")
     ELSE Go(w, "close") /\ UNCHANGED <<home, loc>>
  /\ UNCHANGED <<audit, queue, customer, inbox, history, left>>

CountSilently(w) ==  \* faulty variant: only an opt-out is announced
  /\ pc[w] = "count"
  /\ convs' = [convs EXCEPT ![loc[w].conv].status = "OPEN",
                            ![loc[w].conv].unread = @ + 1]
  /\ counted' = [counted EXCEPT ![MessageAt(w)] = @ + 1]
  /\ Go(w, "close")
  /\ UNCHANGED <<audit, queue, customer, active, home, announced, cut, loc, left>>

\* touchConversationForMessage, after its ensureConversationForCustomer.
CountMessage(w) ==
  /\ pc[w] = "count"
  /\ convs' = [convs EXCEPT ![loc[w].conv].status = "OPEN",
                            ![loc[w].conv].unread = @ + 1]
  /\ counted' = [counted EXCEPT ![MessageAt(w)] = @ + 1]
  /\ Go(w, IF MessageAt(w) \in OptOutTexts THEN "optOut" ELSE "announce")
  /\ UNCHANGED <<audit, queue, customer, active, home, announced, cut, loc, left>>

\* applyInboundOptOut: one transaction. CampaignSend and CampaignPrepare model
\* what it does to recipient rows.
ApplyOptOut(w) ==
  /\ pc[w] = "optOut"
  /\ optedOut' = TRUE
  /\ Go(w, "announce")
  /\ UNCHANGED <<audit, queue, known, assignee, inbox, home, history, loc, left>>

Announce(w) ==
  /\ pc[w] = "announce"
  /\ announced' = [announced EXCEPT ![MessageAt(w)] = @ + 1]
  /\ Go(w, "close")
  /\ UNCHANGED <<audit, queue, customer, inbox, home, counted, cut, loc, left>>

Work(w) ==
  \/ ReadEvent(w) \/ MarkFailed(w) \/ GiveUp(w) \/ CloseEvent(w) \/ Finish(w)
  \/ FindDuplicate(w) \/ ResolveCustomer(w)
  \/ StoreMessage(w) \/ CountMessage(w) \/ ApplyOptOut(w) \/ Announce(w)

-----------------------------------------------------------------------------
(* Requests of the staff. *)

\* getConversationForUser: every request on a customer's conversation first
\* ensures that it exists; a request without access is refused after that.
AskConversation(a, then) ==
  /\ a \in Agents /\ pc[a] = "idle" /\ known /\ Spend("request")
  /\ Go(a, "assignee") /\ Keep(a, [Blank EXCEPT !.then = then])
  /\ UNCHANGED <<audit, queue, customer, inbox, home, history>>

\* listConversationMessages only reads after that, and updateConversationPriority
\* sets a field that the model leaves out.
OpenConversation(a) == AskConversation(a, "idle")
AskRead(a) == AskConversation(a, "clear")
AskStatus(a) == AskConversation(a, "setStatus")

\* markConversationRead.
ClearUnread(a) ==
  /\ pc[a] = "clear"
  /\ convs' = [convs EXCEPT ![loc[a].conv].unread = 0]
  /\ Go(a, "idle") /\ Keep(a, Blank)
  /\ UNCHANGED <<audit, queue, customer, active, home, history, left>>

\* updateConversationStatus refuses ARCHIVED.
SetStatus(a) ==
  /\ pc[a] = "setStatus"
  /\ \E s \in ConversationStatus \ {"ARCHIVED"} :
       convs' = [convs EXCEPT ![loc[a].conv].status = s]
  /\ Go(a, "idle") /\ Keep(a, Blank)
  /\ UNCHANGED <<audit, queue, customer, active, home, history, left>>

\* applyCollectionStatusSideEffects, when the customer has paid or must not be
\* contacted: one transaction closes the active conversation.
CloseConversation ==
  /\ known /\ Spend("request")
  /\ IF active # 0
     THEN /\ convs' = [convs EXCEPT ![active] =
                         [status |-> "CLOSED", unread |-> 0, assignee |-> assignee]]
          /\ UNCHANGED active
     ELSE /\ convs' = Append(convs, [status |-> "CLOSED", unread |-> 0,
                                     assignee |-> assignee])
          /\ active' = Len(convs) + 1
  /\ UNCHANGED <<audit, queue, customer, home, history, pc, loc>>

Archived(c) == [c EXCEPT !.status = "ARCHIVED", !.unread = 0]

\* reassignCustomerConversationInTransaction, the customer's row locked: the
\* active conversation is archived and the new assignee gets a fresh one. A
\* reassignment to the same employee only ensures the conversation.
Reassign(e) ==
  /\ known /\ Spend("request")
  /\ LET fresh == [status |-> "OPEN", unread |-> 0, assignee |-> e]
         kept == IF active = 0 THEN convs
                 ELSE [convs EXCEPT ![active] = Archived(@)]
     IN IF e = assignee /\ active # 0
        THEN convs' = [convs EXCEPT ![active].assignee = e] /\ UNCHANGED active
        ELSE convs' = Append(kept, fresh) /\ active' = Len(convs) + 1
  /\ assignee' = e
  /\ UNCHANGED <<audit, queue, known, optedOut, home, history, pc, loc>>

Ensure(t) == ReadAssignee(t) \/ UpsertConversation(t)
Serve(a) == ClearUnread(a) \/ SetStatus(a)

-----------------------------------------------------------------------------
Init ==
  /\ event = [d \in Deliveries |-> "none"] /\ arriving = {}
  /\ Queue!Init
  /\ known = FALSE /\ assignee = Nobody /\ optedOut = FALSE
  /\ convs = <<>> /\ active = 0
  /\ home = [m \in Messages |-> 0]
  /\ counted = [m \in Messages |-> 0] /\ announced = [m \in Messages |-> 0]
  /\ cut = {}
  /\ pc = [t \in Threads |-> "idle"]
  /\ loc = [t \in Threads |-> Blank]
  /\ left = Budget

Next ==
  \/ \E d \in Deliveries :
       \/ Receive(d) \/ EnqueueEvent(d) \/ EnqueueFails(d) \/ JobStalls(d)
       \/ \E w \in Workers : TakeJob(w, d)
  \/ \E w \in Workers : Work(w) \/ ReadEventFails(w) \/ HandlerFails(w)
                          \/ MarkFailedFails(w) \/ Crash(w)
  \/ \E t \in Threads : Ensure(t)
  \/ \E a \in Agents :
       Serve(a) \/ OpenConversation(a) \/ AskRead(a) \/ AskStatus(a)
  \/ CloseConversation
  \/ \E e \in Assignees : Reassign(e)

Spec == Init /\ [][Next]_vars

\* The processes keep running: a request queues its job, a thread takes its
\* next step, and BullMQ hands a waiting job to an idle slot and recovers one
\* whose worker is dead. No fairness of the provider, of requests or of errors.
Fairness ==
  /\ \A d \in Deliveries :
       /\ WF_vars(EnqueueEvent(d)) /\ WF_vars(JobStalls(d))
       /\ WF_vars(\E w \in Workers : TakeJob(w, d))
  /\ \A w \in Workers : WF_vars(Work(w))
  /\ \A t \in Threads : WF_vars(Ensure(t))
  /\ \A a \in Agents : WF_vars(Serve(a))

FairSpec == Spec /\ Fairness

-----------------------------------------------------------------------------
TypeOK ==
  /\ event \in [Deliveries -> EventStatus] /\ arriving \subseteq Deliveries
  /\ Queue!TypeOK
  /\ known \in BOOLEAN /\ assignee \in Assignees /\ optedOut \in BOOLEAN
  /\ convs \in Seq(Conversation) /\ active \in 0..Len(convs)
  /\ home \in [Messages -> 0..Len(convs)]
  /\ counted \in [Messages -> Nat] /\ announced \in [Messages -> Nat]
  /\ cut \subseteq Messages
  /\ pc \in [Threads -> Steps] /\ loc \in [Threads -> Locals]
  /\ left \in [Events -> Nat]

\* However often the provider delivers a message, and however its deliveries
\* and the runs of one delivery interleave, fail and are repeated, the message
\* is stored, counted as unread and announced at most once, in this order.
Promise == INSTANCE InboundOnce WITH stored <- {m \in Messages : ~Unstored(m)}
ImplementsInboundOnce == Promise!Spec

AtWork(m) == \E w \in Workers :
  loc[w].delivery # NoDelivery /\ MessageAt(w) = m /\ pc[w] \notin {"idle", "finish"}

\* No message is given up as handled, whatever failed on the way: an event that
\* will never be processed again has its message in the database, and once
\* nobody works on it, a stored message was counted, announced and obeyed,
\* unless the very run that stored it was cut short.
HandledInFull ==
  /\ \A d \in Deliveries : event[d] \in Final => ~Unstored(MessageOf[d])
  /\ \A m \in Messages \ cut :
       ~Unstored(m) /\ ~AtWork(m) =>
         counted[m] = 1 /\ announced[m] = 1 /\ (m \in OptOutTexts => optedOut)

\* A queued delivery settles: its message is announced, or its event is FAILED
\* or its job used up, or a run was cut short.
DeliverySettles ==
  \A d \in Deliveries :
    job[d] = "waiting" ~> \/ announced[MessageOf[d]] = 1 \/ MessageOf[d] \in cut
                          \/ job[d] \in {"done", "failed"} /\ event[d] \notin Final

Quiet == \A t \in Threads : pc[t] = "idle"

\* The active conversation is assigned to the employee of the customer.
AssignmentMirrored ==
  Quiet /\ active # 0 => convs[active].assignee = assignee

\* Whoever sent an opt-out phrase that was stored is opted out once its
\* delivery is closed.
OptOutRecorded ==
  \A d \in Deliveries :
    event[d] \in Final /\ MessageOf[d] \in OptOutTexts /\ Quiet => optedOut
=============================================================================
