------------------------------ MODULE Outbound ------------------------------
(***************************************************************************)
(* Messages that staff send to one customer: the API request that checks    *)
(* the contact block, stores a QUEUED message and queues its job (a reply,  *)
(* a media message, a quick send) or sends a template at once, the outbound *)
(* worker with its retries, and the receipts of the provider.              *)
(*                                                                         *)
(* A request makes at most one message, so requests name messages and jobs. *)
(* Every step is one database statement, queue call or provider call.      *)
(***************************************************************************)
EXTENDS Integers, FiniteSets

CONSTANTS
  Requests,     \* API requests of the staff, one message each
  Kindings,     \* what the requests may send: functions to Kinds
  Workers,      \* job slots of the outbound worker
  MaxAttempts,  \* WHATSAPP_QUEUE_ATTEMPTS
  Budget        \* how often each event outside the program may happen

Kinds == {"reply", "voice", "quick", "template"}
NoWorker == "none"
NoRequest == "none"

\* The bounded events: failing calls, killed processes and stalled live jobs;
\* changes of the contact block; receipts of the provider.
Events == {"failure", "block", "receipt"}

ASSUME ConstantsAssumption ==
  /\ Kindings \subseteq [Requests -> Kinds]
  /\ NoWorker \notin Workers /\ NoRequest \notin Requests
  /\ IsFiniteSet(Workers) /\ MaxAttempts \in Nat \ {0}
  /\ Budget \in [Events -> Nat]

VARIABLES
  kind,       \* per request: what it sends
  known,      \* the customer has a row
  blocked,    \* the customer must not be contacted
  status,     \* per message: Message.status, "none" before it is stored
  sentId,     \* per message: which of its sends whatsappMessageId names, 0: none
  job, owner, tries, stalled,  \* the jobs message-<id>, see JobQueue
  at,         \* per request: its next step
  pc, loc,    \* per worker: its next step, what it knows
  receipts,   \* receipts whose message was found but not yet updated
  accepted,   \* per message, history: sends the provider has accepted
  why,        \* per message, history: reasons to send again or to doubt FAILED
  barred,     \* history: messages not in flight when the block was set
  left        \* what remains of Budget

customer == <<kind, known, blocked>>
row == <<status, sentId>>
queue == <<job, owner, tries, stalled>>
worker == <<pc, loc>>
history == <<accepted, why, barred>>
vars == <<customer, row, queue, at, worker, receipts, history, left>>

Sent == {"SENT", "DELIVERED", "READ"}
Status == {"none", "QUEUED", "FAILED"} \union Sent

\* mapStatus: a status of the provider that the table lacks becomes QUEUED.
ReceiptStatus == {"SENT", "DELIVERED", "READ", "FAILED", "QUEUED"}

RequestSteps == {"new", "record", "enqueue", "refuse", "post", "recordSent", "done"}
SendSteps == {"convert", "upload", "post"}
WorkerSteps == {"idle", "load", "store", "error", "markFailed", "finish"}
                 \union SendSteps

\* What a run knows: its message, the send it has made, and whether the error
\* it has caught may be retried.
Locals == [request : Requests \union {NoRequest}, sent : Nat, retryable : BOOLEAN]
Blank == [request |-> NoRequest, sent |-> 0, retryable |-> FALSE]

\* Reasons: the outcome of a send was not stored; two runs of a job overlap; a
\* receipt of unknown status; a receipt of failure; a job added without answer.
Reasons == {"lost", "overlap", "unknown", "refused", "unanswered"}

Spend(e) == left[e] > 0 /\ left' = [left EXCEPT ![e] = @ - 1]
Goto(r, step) == at' = [at EXCEPT ![r] = step]
Go(w, step) == pc' = [pc EXCEPT ![w] = step]
Knows(w, l) == loc' = [loc EXCEPT ![w] = l]
Because(r, reason) == why' = [why EXCEPT ![r][reason] = @ + 1]

Accept(r) == accepted' = [accepted EXCEPT ![r] = @ + 1]

Queue == INSTANCE JobQueue
           WITH Jobs <- Requests, Slots <- Workers, NoSlot <- NoWorker

-----------------------------------------------------------------------------
(* The API request. *)

\* Whoever is blocked is not written to.
Ask(r, next) ==
  /\ at[r] = "new"
  /\ Goto(r, IF blocked THEN "done" ELSE next)
  /\ UNCHANGED <<kind, blocked, row, queue, worker, receipts, history, left>>

AskReply(r) == kind[r] = "reply" /\ known /\ Ask(r, "record") /\ UNCHANGED known

\* sendManualMedia; the recording is saved before the row is created.
AskVoice(r) == kind[r] = "voice" /\ known /\ Ask(r, "record") /\ UNCHANGED known

\* quickSend finds or creates the customer.
AskQuick(r) == kind[r] = "quick" /\ Ask(r, "record") /\ known' = TRUE

AskTemplate(r) == kind[r] = "template" /\ known /\ Ask(r, "post") /\ UNCHANGED known

\* createOutboundRecord: the row, then the conversation, the employee's activity
\* and the announcement, which Inbox models for inbound messages; a call that
\* fails among them leaves the row as a failure before the enqueue does.
CreateRecord(r) ==
  /\ at[r] = "record"
  /\ status' = [status EXCEPT ![r] = "QUEUED"]
  /\ Goto(r, "enqueue")
  /\ UNCHANGED <<customer, sentId, queue, worker, receipts, history, left>>

Enqueue(r) ==
  /\ at[r] = "enqueue"
  /\ Queue!Add(r)
  /\ Goto(r, "done")
  /\ UNCHANGED <<customer, row, worker, receipts, history, left>>

\* add() throws, before or after Redis has stored the job.
EnqueueFails(r) ==
  /\ at[r] = "enqueue" /\ Spend("failure")
  /\ \/ Queue!Add(r) /\ Because(r, "unanswered")
     \/ UNCHANGED <<queue, why>>
  /\ Goto(r, "refuse")
  /\ UNCHANGED <<customer, row, worker, receipts, accepted, barred>>

\* markOutboundEnqueueFailed, whatever has become of the message meanwhile.
MarkEnqueueFailed(r) ==
  /\ at[r] = "refuse"
  /\ status' = [status EXCEPT ![r] = "FAILED"]
  /\ Goto(r, "done")
  /\ UNCHANGED <<customer, sentId, queue, worker, receipts, history, left>>

\* sendTemplateMessage of the template service: sent first, stored after.
PostTemplate(r) ==
  /\ at[r] = "post"
  /\ Accept(r) /\ Goto(r, "recordSent")
  /\ UNCHANGED <<customer, row, queue, worker, receipts, why, barred, left>>

RecordSentTemplate(r) ==
  /\ at[r] = "recordSent"
  /\ status' = [status EXCEPT ![r] = "SENT"]
  /\ sentId' = [sentId EXCEPT ![r] = accepted[r]]
  /\ Goto(r, "done")
  /\ UNCHANGED <<customer, queue, worker, receipts, history, left>>

\* A failing call, or a killed process, ends the request where it is; the
\* provider may have accepted a template whose answer does not arrive.
RequestFails(r) ==
  /\ at[r] \notin {"new", "done"} /\ Spend("failure")
  /\ Goto(r, "done")
  /\ \/ at[r] = "post" /\ Accept(r)
     \/ UNCHANGED accepted
  /\ UNCHANGED <<customer, row, queue, worker, receipts, why, barred>>

Serve(r) ==
  \/ CreateRecord(r) \/ Enqueue(r) \/ MarkEnqueueFailed(r)
  \/ PostTemplate(r) \/ RecordSentTemplate(r)

-----------------------------------------------------------------------------
(* The outbound worker. *)

TakeJob(w, r) ==
  /\ pc[w] = "idle" /\ Queue!Take(w, r)
  /\ Go(w, "load") /\ Knows(w, [Blank EXCEPT !.request = r])
  /\ UNCHANGED <<customer, row, at, receipts, history, left>>

Leave(w) == Go(w, "idle") /\ Knows(w, Blank)

\* A run that ends between the acceptance of its send and the store of it.
ForgetSend(w) ==
  IF loc[w].sent > 0 /\ pc[w] = "store" THEN Because(loc[w].request, "lost")
  ELSE UNCHANGED why

LoadAnyway(w) ==  \* faulty variant: the status of the message is not checked
  LET r == loc[w].request
  IN /\ pc[w] = "load"
     /\ Go(w, IF blocked THEN "error" ELSE IF kind[r] = "voice" THEN "convert" ELSE "post")
     /\ UNCHANGED <<customer, row, queue, at, loc, receipts, history, left>>

LoadUnblocked(w) ==  \* faulty variant: only the request checks the block
  LET r == loc[w].request
  IN /\ pc[w] = "load"
     /\ Go(w, IF status[r] # "QUEUED" THEN "finish"
              ELSE IF kind[r] = "voice" THEN "convert" ELSE "post")
     /\ UNCHANGED <<customer, row, queue, at, loc, receipts, history, left>>

\* getOutboundMessage, and the contact block of the customer that it loads.
Load(w) ==
  LET r == loc[w].request
  IN /\ pc[w] = "load"
     /\ Go(w, IF status[r] # "QUEUED" THEN "finish"
              ELSE IF blocked THEN "error"
              ELSE IF kind[r] = "voice" THEN "convert" ELSE "post")
     /\ UNCHANGED <<customer, row, queue, at, loc, receipts, history, left>>

\* normalizeOutboundAudio and uploadMedia; each attempt repeats them, as the
\* identifier of the upload is stored with SENT only.
Convert(w) ==
  /\ pc[w] = "convert" /\ Go(w, "upload")
  /\ UNCHANGED <<customer, row, queue, at, loc, receipts, history, left>>

Upload(w) ==
  /\ pc[w] = "upload" /\ Go(w, "post")
  /\ UNCHANGED <<customer, row, queue, at, loc, receipts, history, left>>

Post(w) ==
  LET r == loc[w].request
  IN /\ pc[w] = "post"
     /\ Accept(r)
     /\ Knows(w, [loc[w] EXCEPT !.sent = accepted[r] + 1])
     /\ Go(w, "store")
     /\ UNCHANGED <<customer, row, queue, at, receipts, why, barred, left>>

\* A call fails for good (a status of 4xx, an unsupported recording) or not; an
\* answer that does not arrive has no status and is retried.
CallFails(w) ==
  LET r == loc[w].request
  IN /\ pc[w] \in SendSteps /\ Spend("failure")
     /\ \/ /\ \E again \in BOOLEAN : Knows(w, [loc[w] EXCEPT !.retryable = again])
           /\ UNCHANGED <<accepted, why>>
        \/ /\ pc[w] = "post" /\ Accept(r) /\ Because(r, "lost")
           /\ Knows(w, [loc[w] EXCEPT !.retryable = TRUE])
     /\ Go(w, "error")
     /\ UNCHANGED <<customer, row, queue, at, receipts, barred>>

StoreWithoutStatus(w) ==  \* faulty variant: the identifier is stored, not the status
  LET r == loc[w].request
  IN /\ pc[w] = "store"
     /\ sentId' = [sentId EXCEPT ![r] = loc[w].sent]
     /\ Go(w, "finish")
     /\ UNCHANGED <<customer, status, queue, at, loc, receipts, history, left>>

\* updateQueuedMessage with SENT and the identifier of this run's send.
StoreSent(w) ==
  LET r == loc[w].request
  IN /\ pc[w] = "store"
     /\ status' = [status EXCEPT ![r] = "SENT"]
     /\ sentId' = [sentId EXCEPT ![r] = loc[w].sent]
     /\ Go(w, "finish")
     /\ UNCHANGED <<customer, queue, at, loc, receipts, history, left>>

\* The store is inside the try block: its error is retried like that of a send.
StoreFails(w) ==
  /\ pc[w] = "store" /\ Spend("failure")
  /\ ForgetSend(w)
  /\ Go(w, "error") /\ Knows(w, [loc[w] EXCEPT !.retryable = TRUE])
  /\ UNCHANGED <<customer, row, queue, at, receipts, accepted, barred>>

\* shouldRetryOutboundError.
HandleError(w) ==
  /\ pc[w] = "error"
  /\ IF loc[w].retryable /\ ~Queue!LastAttempt(loc[w].request)
     THEN Queue!Fail(w, loc[w].request) /\ Leave(w)
     ELSE Go(w, "markFailed") /\ UNCHANGED <<queue, loc>>
  /\ UNCHANGED <<customer, row, at, receipts, history, left>>

\* updateQueuedMessage with FAILED, whatever the message is now.
MarkFailed(w) ==
  /\ pc[w] = "markFailed"
  /\ status' = [status EXCEPT ![loc[w].request] = "FAILED"]
  /\ Go(w, "finish")
  /\ UNCHANGED <<customer, sentId, queue, at, loc, receipts, history, left>>

\* The first read and the last write are outside the try block.
JobFails(w) ==
  /\ pc[w] \in {"load", "markFailed"} /\ Spend("failure")
  /\ Queue!Fail(w, loc[w].request) /\ Leave(w)
  /\ UNCHANGED <<customer, row, at, receipts, history>>

Finish(w) ==
  /\ pc[w] = "finish"
  /\ Queue!Complete(w, loc[w].request) /\ Leave(w)
  /\ UNCHANGED <<customer, row, at, receipts, history, left>>

Crash(w) ==
  /\ pc[w] # "idle" /\ Spend("failure")
  /\ ForgetSend(w) /\ Leave(w)
  /\ UNCHANGED <<customer, row, queue, at, receipts, accepted, barred>>

\* The job of a dead worker, or of a live one that did not renew its lock.
JobStalls(r) ==
  /\ Queue!Stall(r)
  /\ IF loc[owner[r]].request = r THEN Spend("failure") /\ Because(r, "overlap")
     ELSE UNCHANGED <<left, why>>
  /\ UNCHANGED <<customer, row, at, worker, receipts, accepted, barred>>

Run(w) ==
  \/ Load(w) \/ Convert(w) \/ Upload(w) \/ Post(w) \/ StoreSent(w)
  \/ HandleError(w) \/ MarkFailed(w) \/ Finish(w)

-----------------------------------------------------------------------------
(* The customer and the provider. *)

InFlight(r) ==
  \/ at[r] = "post"
  \/ \E w \in Workers : loc[w].request = r /\ pc[w] \in SendSteps

SetBlocked ==
  /\ known /\ Spend("block")
  /\ blocked' = ~blocked
  /\ barred' = IF blocked THEN {} ELSE {r \in Requests : ~InFlight(r)}
  /\ UNCHANGED <<kind, known, row, queue, at, worker, receipts, accepted, why>>

\* processStatus finds the message by the identifier of the send; a receipt of
\* a send that no message names is dropped.
FindReceipt(r, s) ==
  /\ sentId[r] > 0 /\ Spend("receipt")
  /\ receipts' = receipts \union {<<r, s>>}
  /\ UNCHANGED <<customer, row, queue, at, worker, history>>

\* The update is by the id of the row and knows no order of statuses.
StoreReceipt(r, s) ==
  /\ <<r, s>> \in receipts
  /\ receipts' = receipts \ {<<r, s>>}
  /\ status' = [status EXCEPT ![r] = s]
  /\ CASE s = "QUEUED" -> Because(r, "unknown")
       [] s = "FAILED" -> Because(r, "refused")
       [] OTHER -> UNCHANGED why
  /\ UNCHANGED <<customer, sentId, queue, at, worker, accepted, barred, left>>

-----------------------------------------------------------------------------
Init ==
  /\ kind \in Kindings /\ known \in BOOLEAN /\ blocked = FALSE
  /\ status = [r \in Requests |-> "none"] /\ sentId = [r \in Requests |-> 0]
  /\ Queue!Init
  /\ at = [r \in Requests |-> "new"]
  /\ pc = [w \in Workers |-> "idle"] /\ loc = [w \in Workers |-> Blank]
  /\ receipts = {}
  /\ accepted = [r \in Requests |-> 0]
  /\ why = [r \in Requests |-> [reason \in Reasons |-> 0]]
  /\ barred = {}
  /\ left = Budget

Next ==
  \/ \E r \in Requests :
       \/ AskReply(r) \/ AskVoice(r) \/ AskQuick(r) \/ AskTemplate(r)
       \/ Serve(r) \/ EnqueueFails(r) \/ RequestFails(r) \/ JobStalls(r)
       \/ \E w \in Workers : TakeJob(w, r)
       \/ \E s \in ReceiptStatus : FindReceipt(r, s) \/ StoreReceipt(r, s)
  \/ \E w \in Workers :
       Run(w) \/ CallFails(w) \/ StoreFails(w) \/ JobFails(w) \/ Crash(w)
  \/ SetBlocked

Spec == Init /\ [][Next]_vars

\* The processes keep running, and BullMQ hands out and recovers jobs. No
\* fairness of requests, errors, the provider or the contact block.
Fairness ==
  /\ \A r \in Requests :
       /\ WF_vars(Serve(r)) /\ WF_vars(JobStalls(r))
       /\ WF_vars(\E w \in Workers : TakeJob(w, r))
  /\ \A w \in Workers : WF_vars(Run(w))

FairSpec == Spec /\ Fairness

-----------------------------------------------------------------------------
TypeOK ==
  /\ kind \in Kindings /\ known \in BOOLEAN /\ blocked \in BOOLEAN
  /\ status \in [Requests -> Status] /\ sentId \in [Requests -> Nat]
  /\ Queue!TypeOK
  /\ at \in [Requests -> RequestSteps]
  /\ pc \in [Workers -> WorkerSteps] /\ loc \in [Workers -> Locals]
  /\ receipts \subseteq Requests \X ReceiptStatus
  /\ accepted \in [Requests -> Nat] /\ why \in [Requests -> [Reasons -> Nat]]
  /\ barred \subseteq Requests
  /\ left \in [Events -> Nat]

\* A message is sent again only as often as the outcome of a send was not
\* stored, its job was run twice at once, or an unknown receipt made it QUEUED.
RepeatsAccounted ==
  \A r \in Requests :
    accepted[r] <= 1 + why[r]["lost"] + why[r]["overlap"] + why[r]["unknown"]

\* A message shown as FAILED did not reach the provider, unless a receipt says
\* it failed there, an outcome was lost, runs overlapped, or its job was added
\* although the queue reported an error.
FailedWasNotSent ==
  \A r \in Requests :
    status[r] = "FAILED" /\ accepted[r] > 0 => \E reason \in Reasons : why[r][reason] > 0

\* docs/ARCHITECTURE.md: a queued message "will fail before reaching WhatsApp
\* if the related customer becomes contact-blocked after queueing", also one
\* whose request was checked before, and on every retry; a message in the hands
\* of the sender is not stopped.
BlockStopsQueued ==
  [][\A r \in Requests :
       accepted'[r] > accepted[r] /\ blocked => r \notin barred]_vars

\* A queued message is decided: sent or FAILED, unless BullMQ gives its job up
\* (it stalled twice, or every attempt failed to write the outcome) or a receipt
\* of unknown status makes it QUEUED again.
QueuedIsDecided ==
  \A r \in Requests :
    job[r] = "waiting" ~>
      status[r] # "QUEUED" \/ job[r] = "failed" \/ why[r]["unknown"] > 0
=============================================================================
