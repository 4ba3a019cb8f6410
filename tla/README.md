# Verification of Taradi, a WhatsApp CRM for debt collection

Taradi is a Node.js API (Express, Prisma on PostgreSQL, Socket.IO) with four
BullMQ workers on Redis and a React frontend. It receives WhatsApp webhooks, keeps
customers and conversations, sends direct messages, and prepares and sends template
campaigns. This directory holds TLA+ models of the parts of it where several
processes, callbacks or requests act on the same state, the TLC configurations that
check them on small instances, and proofs that the TLA+ proof system checks.

Paths below are relative to the repository; `PROJECT.json` maps every definition to
its lines, and lists under `hazards` what is hard to test here, each at the line
where it bites, with the properties that cover it.

## Inventory

| Component | State | Operations | Talks to |
| --- | --- | --- | --- |
| Campaign sending (`campaign-send`, `campaign-dispatcher`, `campaign-control` services, send worker) | `Campaign.status`, `startedAt`; `CampaignRecipient.status`, `attemptCount`, message ids; jobs of `whatsapp-campaign-send`; Redis dispatch lock | dispatch a batch, send a row, retry, fail, automatic pause, refresh of the counts; start, pause, resume, cancel, progress | preparation writes its rows; receipts and opt-outs change them; safety settings pause it |
| Campaign preparation (`message.service`, prepare worker, eligibility) | `Campaign` from `QUEUED` to `SCHEDULED`/`FAILED`, recipient rows, prepare job | create with an idempotency key, enqueue, prepare chunk by chunk | campaign sending, opt-outs, progress reads |
| Direct outbound messages (`outbound.service`, `message.service`, outbound worker) | `Message.status`, outbound job | create, enqueue or mark failed, convert, upload, send, retry | conversations, receipts, contact block |
| Webhook ingest (`webhook.controller`, `webhooks/dispatcher`, `webhookProcessor`, webhook worker) | `WebhookEvent.status`, webhook job | audit, enqueue, dispatch, retry | receipts, inbound messages |
| Delivery receipts (`webhook.service` `processStatus`) | `Message.status`, recipient status | apply a status | campaign sending, outbound messages |
| Conversations (`conversation.service`, `employee.service`) | `Conversation` status, assignee, unread count | ensure, touch, assign, archive, read, close | inbound messages, customers, realtime events |
| Customers and debts (`customer.service`, `customerDebt.service`) | `Customer`, `CustomerPhone`, debts | create, update, reassign, delete, find by number | conversations, imports |
| Imports (`customerImport.service`, `userImport.service`, `employee.service`) | a summary in memory; customers, debts, accounts | one row after the other, or one transaction | staff, customers |
| Staff, authentication and permissions (`auth`, `permission`, `employee` services and middleware) | `User` role, supervisor, active flag, code; `RolePermission` and its cache | authenticate, check, create, update, activate, deactivate, seed and choose permissions | every request |
| Opt-out (`customer-communication-preferences.service`) | customer opt-in and opt-out, recipient rows | inbound and manual opt-out, opt-in | campaign sending and preparation |
| Campaign safety settings (`settings.controller`, `campaign-settings.service`) | limits, phone state | change limits, switch a phone off | campaign sending |
| Message templates (`modules/templates`) | templates and mappings in the database, the running sync in memory | sync, default mapping, save a mapping, send | provider, preparation |
| Presence (`presence.service`, `socket.js`) | sockets and timers per user in memory | connect, disconnect, grace timer, logout | realtime events |
| Realtime bus (`realtime/eventBus.js`) | Redis channel, claim keys | publish, deliver, deduplicate | every service that notifies |
| Rate limiting (`rateLimit.middleware`) | counters in Redis and in memory | count, refuse, fall back | every request |
| Media and audio (`media.service`, `audioNormalization.service`) | files, `Message.mediaUrl` | download, upload, fetch a missing file, stream | inbound and outbound messages |
| Provider client (`whatsapp.service`) | none | send, upload, list templates, classify errors | campaign sending, outbound, templates |
| Frontend | React Query caches, sockets, forms | campaign page, inbox, composer, media bubbles, presence | the API and the bus |
| Database schema | types, unique constraints, defaults | | all |

`PROJECT.json` says for each whether it is modelled, partly modelled or not, and what
is left out.

What is hard in it:

- *No transaction spans two steps.* Nearly every operation reads, decides and writes
  in separate statements, and many writes are unconditional: a refresh writes back
  the status it read, a dispatch ends by writing `RUNNING`, a conversation gets the
  assignee that was read before.
- *Delivery by BullMQ.* A job is known by a deterministic id and an `add` of a known
  id does nothing; a stalled job is delivered again while its first run may be alive;
  a completed job stays known.
- *The provider call* may be accepted although no answer arrives, or although the
  transaction that records it fails. The provider delivers webhooks again.
- *Several dispatchers.* The worker after each job, an interval and every start or
  resume request dispatch, behind a Redis lock that may expire under them.
- *Several API instances* receive each realtime event and claim it in Redis.
- *Guards are read once.* A request authenticates and is judged by what it read; an
  import goes on with that for thousands of rows.
- *The browser* has timers, aborted requests, a paused mutation queue and a socket
  whose events cross the answers of requests.

## Modules

| Module | What it is |
| --- | --- |
| `CampaignSend` | the campaign sender: dispatcher, send worker, refresh, commands, receipts, opt-outs, queue, lock |
| `CampaignPrepare` | the creation of a campaign and its preparation: request, job, chunks, publication, cancellation and progress beside it |
| `JobQueue` | the life cycle of a BullMQ job (external); instantiated by `Inbox` and `Outbound` |
| `Inbox` | an inbound message from the webhook request to its announcement, beside the requests of the staff on its conversation |
| `InboundOnce` | what `docs/ARCHITECTURE.md` promises of an inbound message; `Inbox` implements it |
| `Outbound` | direct messages: request, row, queue, worker, contact block, receipts |
| `CustomerRecords` | customers, their numbers in two tables, their status and the conversation that follows it |
| `StaffRegister` | accounts, supervisors, activation, the permission table; employee and account imports |
| `CustomerImport` | the import of customers, row by row |
| `Backoffice` | the composition of `StaffRegister` and `CustomerImport`, which share the accounts |
| `Presence` | sockets, grace timers, offline announcements, and the list of a browser that follows them |
| `Templates` | the sync of the templates, their mappings and the sends that use them |
| `Services` | `Presence` and `Templates` as two scenes of one specification |
| `CampaignPage` | the page on which a campaign is composed, previewed and asked for |
| `Letters` | how a mapping and a customer become the parameters of a letter, in preview and preparation |
| `Media` | files of messages: download, upload, later download, range requests, the bubble that shows them |
| `Composer` | the composer of the inbox page with its drafts, mutations and voice notes |
| `LiveInbox` | the realtime bus and the caches of a browser |
| `RateLimit` | one key of the limiter in Redis and in the memory of each process |
| `Desk` | the last six as scenes of one specification |
| `MC...` | the instances of the above for TLC |
| `CampaignSendProofs`, `CampaignPrepareProofs`, `InboxProofs`, `OutboundProofs`, `CustomerRecordsProofs`, `BackofficeProofs`, `ServicesProofs`, `DeskProofs` | the proofs, see below |

A *scene* is one component alone: the scenes of `Services` and of `Desk` have no state
in common, the scene is chosen by the initial state, and the states of the others
stand still in theirs. Each scene is checked in full, and their states add up where
the product of independent components would multiply them and show nothing more. A
property of a scene is stated for it and looked at where it plays.

The models meet at data: `CampaignPrepare` ends with the status `SCHEDULED` and rows
that are `PENDING`, and `CampaignSend` starts from them. `Inbox` stores a message in
several steps, which `LiveInbox` takes as one. An opt-out is a transaction on the
customer (`Inbox`) and on the recipient rows (`CampaignSend`, `CampaignPrepare`).

In all modules an action is one database statement or transaction, one Redis command,
one queue call or one provider call, and everything between two awaits belongs to one
action; in the modules of the browser it is one callback with the effects it triggers.
Events from outside the program (requests, failing calls, crashes, stalls, lost
answers, expiring locks) are bounded by the constant `Budget`; the proofs hold for
every budget. Variables named as history in their declaration are read by properties
only. Definitions commented as a *faulty variant* are no part of a specification: each
is the code with a plausible mistake, and shows that a property would notice it.

### CampaignSend

A *thread* is a job slot of the send worker (`Workers`) or anything else that runs
program code: an API request, a receipt handler, a tick of the dispatch interval
(`Callers`). Each has a program counter `pc`, the row of its job `rec`, and `loc`, the
values it read and still acts on. `Step(t)` is the program code of a thread; the other
disjuncts of `Next` are requests arriving, BullMQ, Redis expiry, crashes and uncaught
errors.

| Part of the code | Actions |
| --- | --- |
| `dispatchActiveCampaigns` | `List`, `NoMoreCampaigns` |
| `withDispatchLock` | `AcquireLock`, `SkipLocked`, `CompareToken`, `DeleteLock`, `LockExpires` |
| `dispatchCampaign` | `FetchCampaign`, `CheckCompetitor`, `CountInFlight`, `PickBatch`, `Enqueue`, `MarkQueued`, `QueueingFails`, `Promote` |
| BullMQ | `JobDue`, `TakeJob`, `JobStalls`, `Redelay`, `Finish` |
| `processCampaignRecipient` | `ReadRow`, `CancelRow`, `RestoreRow`, `Claim`, `Recheck`, `Drop`, `SendAccepted`, `SendRejected`, `AnswerLost`, `Commit`, `CommitFails`, `RefreshFails`, `Requeue`, `Fail`, `PausePhone` |
| `evaluateAutoPause`, automatic `pauseCampaign`, `refreshCampaignRecipientCounts` | `EvaluateAutoPause`, `PauseRead`, `PauseWrite`, `GroupRows`, `ReadStatus`, `StoreStatus` |
| `campaign-control.service` | `AskStart`/`StartWrite`, `AskPause`/`UserPause`, `AskResume`/`ResumeRows`/`ResumeWrite`, `AskCancel`/`CancelTx`/`Purge`, `AskProgress` |
| `updateCampaignSafety` | `DisablePhone`/`PauseAll`, `EnablePhone` |
| opt-out, `processStatus` | `OptOut`, `Receipt` |
| failure | `Crash`, `Throws` |

What is coarser than the code:

- Rows that preparation `SKIPPED` are not modelled (they only dilute the sample of
  the failure rate); `READ` is merged with `DELIVERED`, `AUTHENTICATION` with
  `PERMANENT_ACCOUNT`, `RATE_LIMIT` with `RETRYABLE`. `DRAFT`, `READY` and the other
  legacy statuses are not produced by the current code.
- Time is not counted. A delay elapses at any moment (`JobDue`), before the dispatch
  that added the job marks its row, too: the first batch of a campaign has delay 0.
  `startedAt` is a rank.
  Which failed rows are the most recent is not known, so the consecutive-failure pause
  may fire whenever enough rows failed.
- The rate of sends only delays. A completed job is remembered for ever: BullMQ keeps
  the last 2000.
- `assertStartable` is evaluated together with the read of the campaign: its template
  and rate checks are taken as passed. The write that follows is a separate step,
  which is the race that matters.
- An uncaught error ends a worker's run and lets BullMQ retry or give up (`Throws`),
  bounded by the fault budget in place of the attempt count of the job; the release of
  the dispatch lock in the `finally` block is part of it.
- A customer who opted in again is not modelled, nor is an answer of the provider
  without a message id. `refreshCampaignProgress` of `message.service` computes a status
  of its own only when `refreshCampaignRecipientCounts` finds no campaign, when it does
  nothing either, so that half is left out.

### CampaignPrepare

One campaign, that is one idempotency key (a request without a key creates a campaign
of its own, which behaves like one whose key is new). `status` and `eligible` are
fields of `Campaign`, `row` the status of the recipient row of each selected debt,
`job`, `owner`, `tries` and `stalled` the single BullMQ job `campaign-<id>`.

| Part of the code | Actions |
| --- | --- |
| `sendBulkTemplate` | `AskCampaign`, `CreateCampaign`, `Enqueue`, `EnqueueFails`, `MarkEnqueueFailed` |
| BullMQ | `TakeJob`, `Finish`, `Throws`, `JobStalls` |
| `processCampaignPreparation` | `ReadCampaign`, `BeginPreparation`, `FetchChunk`, `UpsertChunk`, `CountRows`, `Publish`, `PreparationFails`, `GiveUp` |
| `cancelCampaign`, `getCampaignProgress`, `refreshCampaignRecipientCounts` | `AskCancel`, `CancelTx`, `AskProgress`, `GroupRows`, `ReadStatus`, `StoreStatus` |
| opt-out, `archiveDebt` | `OptOut`, `ArchiveDebt` |

What is coarser than the code: the eligibility rules other than opt-out and duplicates
are the constant `Unfit`; the template is loaded with the first chunk and its failure
is a failing call; a chunk is a fixed set of customers, although `all_matching` pages
through a query; the order in which a customer's debts are evaluated does not change;
the campaign is not started, paused or dispatched here. An explicit selection of debts
counts archived ones too, as the code does.

### Inbox and InboundOnce

The inbound messages and conversations of one customer. `event` is the audit row of a
delivery, `home` the conversation a message was stored in, `convs` the customer's
conversations and `active` the one whose `activeKey` is set.

| Part of the code | Actions |
| --- | --- |
| `receiveWebhook` | `Receive`, `EnqueueEvent`, `EnqueueFails` |
| worker and BullMQ | `TakeJob`, `Crash`, `JobStalls`, `Finish`, with `JobQueue` |
| `processQueuedWebhookEvent`, `dispatchWebhook` | `ReadEvent`, `ReadEventFails`, `HandlerFails`, `MarkFailed`, `MarkFailedFails`, `GiveUp`, `CloseEvent` |
| `processInboundMessage` | `FindDuplicate`, `ResolveCustomer`, `ReadAssignee`, `UpsertConversation`, `StoreMessage`, `CountMessage`, `ApplyOptOut`, `Announce` |
| requests on a conversation | `OpenConversation`, `AskRead`, `AskStatus`, `ClearUnread`, `SetStatus` |
| status and assignment of the customer | `CloseConversation`, `Reassign` |

A delivery carries one change with one message. `Inbox` implements `InboundOnce`
(*stored at most once, then counted at most once, then announced at most once*) under
the mapping `stored <- {m : home[m] # 0}`.

### Outbound

A request makes at most one message, so requests name messages and jobs. `AskReply`,
`AskVoice`, `AskQuick` and `AskTemplate` are the four kinds of request with their
check of the contact block; `CreateRecord`, `Enqueue`, `EnqueueFails` and
`MarkEnqueueFailed` the row and its job; `Load`, `Convert`, `Upload`, `Post`,
`StoreSent`, `CallFails`, `StoreFails`, `HandleError`, `MarkFailed`, `JobFails` and
`Finish` the worker (`processOutboundMessage`); `FindReceipt` and `StoreReceipt` the
two statements of `processStatus`; `SetBlocked` the change of the contact block.
`PostTemplate` and `RecordSentTemplate` are the template that is sent in the request.
The message, conversation and contact-block checks of `sendTemplateMessage` count as
one check, and `Inbox` models what a message writes to its conversation.

### CustomerRecords

A customer is `record` (phone column, account number, collection status, collector),
`rows` are the rows of `CustomerPhone`, `talk` the active conversation. Requests
create, update and delete customers; inbound messages and quick sends look a number up:
`FindRow` and `FindColumn` for the digits, for the forms of `getPhoneLookupVariants`, and
for the last four digits, then `Fix`, `CreateFound`, `LookAgain`. The last stage finds a
number however it is written, or misses it: a `hidden` number has a separator among its
last four digits, or more than fifty records share them. `CommitUpdate` and
`CommitCreate` are the transactions, `Sync`, `ReadCollector` and `Shut` the statements on
the conversation that follow.

Everything else that writes the active conversation is there too: a request of the staff
on it (`AskConversation`), a message of theirs, and a message that has found its customer
(`GoesTo`) call `ensureConversationForCustomer` once, twice or three times (`Calls`), each
time as a read of the collector (`ReadWho`) and a write of what was read (`Upsert`); then
an inbound message or a change of the status writes the status (`SetStatus`). A slot of
`Requests` takes another request when one is over. That the users of these requests may
see the customer is a choice.

### StaffRegister, CustomerImport and Backoffice

A request of `StaffRegister` is authenticated and judged (`Arrive`, `Authenticate`,
`Judge`; the permission table is filled by `Seed`, `SeedFails`), then goes the way of its
plan: `CheckNewCode`, `CheckChief`, `Create`; `Peek`, `Read`, `Write`; the rows of an
employee import (`FindChief`, `Keep`, `Revive`, `Raise`, `FindCode`, `Replace`,
`Insert`); `KnownCodes`, `Commit` for the account import; `Choose` for permissions.
Passwords, tokens and e-mail addresses are left out; a code stands for all unique
fields.

`CustomerImport` runs one file: `FindCollector`, `CheckCollector`, `FindCustomer`,
`CheckAccess`, `AddDebt`, `ReadBack`, `Resolve`, `Create`, `Confirm` per row, while
customers are moved and deleted. Parsing is the predicate `fit` of a row. `Backoffice`
starts it from an authenticated request (`Upload`), by the team that `Authenticate` and the
permissions that `Judge` has read, and lets the accounts change under it. The id of a deleted customer is never given again, also not to an import that still
remembers it.

What a user may change is judged over the whole time of his request (`may`, `held`,
`been`): he was active in his role at some moment, the role had the permission at some
moment, the account was of his team at some moment. It need not be one moment: of three
requests beside each other the second may deactivate a supervisor and the third give him
an employee, whom his import then overwrites, since each statement reads the database
anew and none looks at the supervisor again.

### Presence, Templates and Services

`Presence`: `Connect`, `Disconnect`, `Logout`, `TimerFires`, `WriteLastSeen`,
`FinishOffline` are `presence.service` cut at its awaits; `Restart` loses its maps;
`Wire`, `Unwire`, `ReceiveEvent`, `AskList`, `AnswerList` and `ReceiveList` are the
watching browser.

`Templates`: `Ask`, `Timer`, `FetchPage`, `FetchFails`, `Upsert`, `Count`, `Default`,
`RowFails`, `Finish` are the sync with its joined requests (a name stands for a name in one
language and for the provider's id, by either of which a row is found); `AskSave`, `DeleteRows`,
`CommitRows` the saved mapping; `AskSend`, `Deliver`, `Record` a send; `Change` the
provider. One API process: another would sync beside this one.

### CampaignPage, Letters, Media, Composer, LiveInbox, RateLimit and Desk

- `CampaignPage`: the choices (`SelectTemplate`, `ToggleCustomer`, `ChangeFilter`, ...)
  each run the effect of the preview (`Follow`), whose timer and request are `flights`;
  `PrepareCampaign`, `GoOffline`, `GoOnline` and `CampaignAsked` are the mutation, which
  React Query pauses without a network and resumes with the function of the last
  rendering.
- `Letters`: template, mapping and customers are read one after the other by the preview
  and by the preparation; values are the four that tell the conversions apart.
- `Media`: files are numbered by creation; `tasks` are webhook runs, uploads and fetches of
  missing files under way; `bubble`, `fetches` and `objects` are a media bubble and its
  object URLs; `Range` is `parseRangeHeader`.
- `Composer`: `SendText` and `SendFile` read text, file and receiver when the mutation runs;
  `StartRecording`, `Granted`, `Refused`, `NoRecorder`, `StopRecorder`, `OnStop` and, when the
  composer goes, `Unmounts` are the voice note. `mics` keeps the references of each
  composer that was mounted (`streamRef`, `recorderRef`, `stopActionRef`): a prompt answers
  the composer that opened it, which may be gone, and several prompts may be open, as the
  button stays; a stop event is a task of its own.
- `LiveInbox`: `Store`, `Publish`, `Claim` (SET NX, emission), `ClaimFails`, `Dies` are the
  servers; `ReceiveNew`, `ReceiveUpdate`, `Ask`, `Answer`, `Load`, `Navigate` a browser.
- `RateLimit`: a request in Redis is `Incr`, `Expire`, `Ttl`; after a failure the process
  counts in its memory for a pause. A tick of the clock is the time of a command.

## Runs

Passing runs:

| Run | Instance | Shows |
| --- | --- | --- |
| `send_commands` | 1 campaign, 2 rows, batches of 1, 1 worker, 1 caller; a command, an opt-out, a receipt; rejections that switch the phone off | `BatchBound` (one batch in flight), `OneDispatcher`, `CancelledStays` |
| `send_faults` | 1 row, 2 workers, 1 caller; a fault, a stall, a crash, a lost answer | `ClaimExclusive`, `NoBlindResend`, `SentIsFinal` (a recorded row is never sent again, although a refresh that fails after its commit puts it back to `QUEUED`) |
| `send_ends` | 2 campaigns of one phone, a row each, every rejection; jobs that run before their row is marked; a lock expires | `CampaignsEnd` (but for a stuck campaign, see below), `ClaimResolves` |
| `prepare` | 3 debts of 2 customers in 2 chunks, 1 worker, 2 callers; 2 requests, a command, an opt-out or archived debt, a fault, a crash | `PreparedInFull`, `EligibleCounted`, `OneMessagePerCustomer`, `PreparationEnds` |
| `inbound` | 1 message that is an opt-out, delivered twice, 2 workers, 1 request, 1 failure | the refinement `ImplementsInboundOnce`, `HandledInFull`, `DeliverySettles` |
| `outbound` | 1 message of any kind, 2 workers, 2 attempts; 3 failures, 2 changes of the block, a receipt | `RepeatsAccounted`, `FailedWasNotSent`, `BlockStopsQueued`, `QueuedIsDecided` |
| `records` | a customer of an older version and room for another, 2 numbers, 1 employee; 3 requests, two at a time, and a fault | `NumberHasOneHolder`, `RowsAgree`, `ConversationFollows` |
| `backoffice` | 4 accounts and room for 2, 2 requests of 12 plans, an import of customers, a disturbance | `TeamIsLed`, `RightsAreHeld`, `ReportIsTrue` |
| `services` | 1 user with 2 sessions and a watcher; 2 templates on pages of 1, 2 saves, a sync, a send | `ViewIsCurrent`, `LeaverIsAnnounced`; `SyncedIsRecent`, `ChosenMappingKept`, `RefusedIsStale`, `SyncAnswers` |
| `desk` | six scenes, see `MCDesk` | `AskedAsPreviewed`, `LettersFit`, `UrlIsWhole`, `BubbleIsItsMessage`, `MicrophoneClosed`, `RingsOnce`, `ShownOrMissed`, `RefusalEnds` |

`MCDesk` also has TLC compare `parseRangeHeader` with its reference definition for every
header and size of the instance (`ASSUME RangesAreExact`).

The bounds are small because the interesting part is the number of threads and steps,
not of rows: two rows with batches of one make a second lease, two workers make two
runs of one job, two campaigns make a competitor, two attempts make a retry, two
deliveries a duplicate, two API instances a second claim, and one event of each kind
meets every step of every thread. The thresholds (sample of 2, 50 %, one consecutive
failure) let a campaign of two rows pause itself.

`backoffice` takes the requests and the new accounts as interchangeable (`SYMMETRY
Alike`; only invariants are checked) and allows one disturbance of either part at a time
(`OneDisturbance`); `records` takes the requests as interchangeable; `desk` names the
messages of the live inbox in the order they are stored (`NamedInOrder`): nothing else
tells them apart. The runs of `MCCampaignSend` check for deadlock: the dispatch interval
always ticks. The others have `CHECK_DEADLOCK FALSE`: those systems may come to rest with
no request left.

What some of the properties except, and why:

- `BatchBound` and `OneDispatcher` hold because `send_commands` lets no lock expire under
  its holder: with an `expiry` budget both fail, since the lock is held for
  `CAMPAIGN_DISPATCH_LOCK_MS` and never renewed. `NoBlindResend` and `CampaignsEnd` hold
  with it.
- `CampaignsEnd` names what keeps a campaign that nobody disturbs, and those behind it on
  its phone number, from the end (`Stuck`): the job of a row ran before the row was
  marked, so that BullMQ ignores its id from then on, or the dispatch of the last batch was
  so slow that it wrote `RUNNING` after the campaign had been completed or paused. Both are
  met by the code and happen in the run; nothing else keeps a campaign from its end.
- `OneMessagePerCustomer` is stated while no debt was archived, because with a crash it
  fails otherwise: the second run takes the next debt of the customer beside the row of
  the first. `PreparationEnds` is stated for a campaign that nobody cancels and whose
  progress nobody asks for: the refresh of a progress request writes back the status it
  read and can turn `SCHEDULED` into `PREPARING` after the job has ended. Under a job
  that stalls with its worker alive `EligibleCounted` fails: the increments of the second
  run may follow the final write of the first.
- `HandledInFull` excepts messages whose storing run was cut short (`cut`): the retry finds
  the message and takes it for a duplicate, so it stays uncounted and its opt-out is lost.
- `RepeatsAccounted` and `FailedWasNotSent` name the reasons for which a direct message is
  sent twice, or shown as failed although it was sent.
- `TeamIsLed` excepts accounts written by a request that was overtaken between its check
  and its write: the supervisor it had found is none any more, the account has another
  role than was read, or somebody was put under it after it was looked at (`Overtaken`).
  A name written with different blanks in two imports makes two
  supervisors.
- `NumberHasOneHolder` excepts a number that somebody holds in a form which the search by
  the last four digits may miss (`customer.service.js:563-594`: `contains` of the last four
  digits as they are stored, of 50 records), once a lookup has created a customer for it,
  and one that the staff gave to a customer while another held it in another form: the
  unique columns compare what is stored (`doubled`).
- `ConversationFollows` excepts, for the collector, a conversation into which a request
  wrote the collector that it had read before the customer was changed (`raced`; every
  call of `ensureConversationForCustomer` and the closing of a blocked customer's
  conversation do); for the closing, a request that was cut short after it had blocked the
  customer (`cut`), one that took him for blocked because somebody unblocked him meanwhile
  (`skipped`), and a conversation opened since (`opened`): by a reassignment, which opens a
  new one whatever the status, by an inbound message (`conversation.service.js:281-283`), or
  by somebody of the staff who sets its status (`updateConversationStatus`).
- `LettersFit` excepts transformers that can take everything from a text that is not blank.
- `MicrophoneClosed` excepts the streams that the references of a composer have lost
  (`stray`): replaced by the stream of a second prompt, granted to a composer that is gone,
  left without a recorder, or forgotten when the stop event of an earlier recorder came
  after them. They stay open, see `composer_wishes.cfg`.
- `RingsOnce` excepts messages whose claim Redis did not answer, or whose claim was
  forgotten after its 60 seconds before another instance came to the event (`ClaimFails`
  stands for both); `ShownOrMissed` names what a
  browser misses: an event lost with its socket or overwritten by an older answer.
- `RefusalEnds` excepts a counter whose `PEXPIRE` was lost after its `INCR`: its key blocks
  for ever.

Runs that find the code departing from what it says of itself:

| Run | Property | What happens |
| --- | --- | --- |
| `resent` | `NeverResent` | a commit that fails after the provider accepted the message is retried as a failed send, although `CAMPAIGN_SAFETY_IMPLEMENTATION.md:16` says of an interrupted send that it "requires reconciliation, preventing an unsafe duplicate" |
| `preview_stuck` | `PreviewComes` | a choice that changes and goes back before the preview of the change arrives: the page says that its preview is being prepared, and nothing prepares it |

### Known counterexamples

These configurations are kept beside the runs for whoever changes the code; each can be
run by hand (`tlc -config x.cfg MODULE.tla`) and ends with a counterexample. They are not
in the list of runs because the properties they refute are what one would wish, and no
document states them as directly as the two above. `inbound_wishes.cfg` and
`composer_wishes.cfg` serve two properties each: the second one is in a comment, to be put
in the place of the first.

| Configuration | Module | Property | What happens |
| --- | --- | --- | --- |
| `lost_pause.cfg` | `MCCampaignSend` | `StaysStopped` | a dispatch that read the campaign active ends by writing `RUNNING` over a pause or a cancellation |
| `resume_stalls.cfg` | `MCCampaignSend` | `QueuedRowMoves` | after a pause the job of a row completes by giving the row back; the dispatch after the resume adds the same job id, which BullMQ ignores, and marks the row `QUEUED` for ever. The same happens without any command: the first job of a campaign has no delay, and when it runs before its row is marked it finds a `PENDING` row and completes |
| `optout_retry.cfg` | `MCCampaignSend` | `OptOutCancels` | a retry puts the row of a customer who opted out during the send back in the queue |
| `two_running.cfg` | `MCCampaignSend` | `OneRunningPerPhone` | a start request that passed its check interleaves with a dispatch: two campaigns of one phone run |
| `prepare_cancel.cfg` | `MCCampaignPrepare` | `CancelIsFinal` | the preparation checks the status once and publishes a campaign that was cancelled meanwhile |
| `prepare_optout.cfg` | `MCCampaignPrepare` | `OptOutCancels` | the opt-out of a customer is as old as the read of his chunk: a row is written for a customer who has opted out |
| `inbound_wishes.cfg` | `MCInbox` | `AssignmentMirrored` | an inbound message writes the assignee it has read to the conversation that a reassignment has opened meanwhile |
| `inbound_wishes.cfg` | `MCInbox` | `OptOutRecorded` | a run dies between the store of an opt-out message and the opt-out: the retry takes the message for a duplicate and closes the delivery |
| `composer_wishes.cfg` | `MCDesk` | `MicrophoneShown` | a stream that `streamRef` does not name any more is never stopped: the microphone stays open behind the page |
| `composer_wishes.cfg` | `MCDesk` | `SentWhereShown` | a request that waited for the network goes with the text and to the customer of the last rendering, and a voice note to whoever is selected when its recorder has stopped |
| `sender.cfg` | `MCCustomerRecords` | `SenderIsFound` | a customer who was created for a number is given another one: the next message from the old number cannot create its customer, as the account number is taken |

Other things the models showed and no property states:

- `README.md:276-279` says that creating, updating and deactivating employees is for
  administrators only; the routes and services also let supervisors create employees of
  their team. It says that a deactivation "disables login and API access for old
  tokens", which holds for requests; an open socket of that user stays connected
  (`src/socket.js` authenticates at the handshake only).
- An employee whose supervisor is missing or inactive cannot be deactivated.
- `downloadMissingMedia` is for administrators and no page calls it, so a download that
  failed leaves a bubble that waits; retried and dying webhook runs leave orphan files.
- Limit errors of the provider whose type is `OAuthException` are classed as
  authentication errors and not retried by the sync of the templates.

### Fairness

Weak fairness only, and only of what keeps going while the processes are up:

- the next step of a thread, a request or a worker; an idle caller's dispatch interval
  (`setInterval` in the send worker);
- BullMQ: a due job is promoted, a waiting one handed to an idle slot, one whose worker is
  dead recovered; Redis: the lock of a dead holder expires;
- grace timers, the answers to database writes, events on a connected socket and answers
  to requests under way (`Presence`; `Arrives` of the campaign page: its timer runs out and
  the server answers);
- a sync of templates that runs goes on (`SyncStep`): each call is answered or fails.

No fairness is assumed of requests of users, of webhooks, receipts and opt-outs, of
faults, or of the provider's choice of answer: `Send` as a whole is fair, whichever
outcome it has.

## Proofs

For every value of the constants that satisfies the module's assumptions, and so for any
number of campaigns, rows, workers, requests, failures and crashes. The assumptions say
what the code and its database make of the constants: bodies have passed their
validators (`PlanFits`), the staff at the start is a chart, known customers have their
collector among their collectors so far, the provider lists its templates in some order,
there are finitely many workers (the queue counts busy slots), and at least one API process
runs.

`CampaignSendProofs`:

- `TypeCorrect`: `TypeOK`. It is not inductive alone: a step that stores what a thread
  read is typed only if the thread had read it, so `ThreadOK` ties the program counter to
  the locals. `TypeInv` is both.
- `ClaimsExclude`, `NoBlindResends`: from `SenderInv`, the inductive invariant of the send
  worker. Beside the two properties it says that a sent thread's row is recorded
  (`SentRecorded`), that a thread about to send or commit holds an unrecorded row
  (`SendingUnrecorded`), that a waiting row and a row held before its commit have no
  accepted send that was not lost (`WaitingUnsent`, `HeldUnsent`). A step is *quiet*
  (`Quiet`) when it changes no history, gives no thread a row it did not hold and takes no
  held row from `PROCESSING` except by its holder or a cancellation; quiet steps keep the
  invariant once and for all, and each of the five other steps (claim, send, lost answer,
  commit, failed commit) is proved by itself.
- `CancelledRowsStay`: the action property `CancelledStays`, from the same split.
- `OneDispatches`: with no budget for locks expiring under their holder, `OneDispatcher`,
  from `LockInv` (a thread that leases a campaign is the one its lock names).
- `SentRowsStay`: `SentIsFinal`, from `SenderInv`, for every budget: only a thread that
  holds an unrecorded row sends (`SendingUnrecorded`). The row itself is not final: a
  refresh that fails after the commit sends a `SENT` row back to `QUEUED`, where the claim
  refuses it because its message id is set, and where it waits for a spent job.
- `OneBatchInFlight`: with no budget for locks that expire under their holder, faults and
  stalled jobs, `BatchBound`, from `BatchInv`: a thread that leases is alone (`LockInv`),
  it picks its batch when no row is in flight, and what it has yet to mark is within one
  batch with what is (`Leased`); a retry finds its row still in flight, since a job has one
  run (`OneRun`) and the row of a sender is `PROCESSING` (`InHand`). Each hypothesis is needed: a dispatch that outlives its lock meets
  another, a refresh that fails after its commit gives a sent row back to `QUEUED`
  (`FinalInv` says that without failing calls none does), and a
  stalled run gives back a row that its successor has finished.

`CampaignPrepareProofs`, stalls under a live worker included but for the last:

- `TypeCorrect`: `TypeOK`, which is inductive.
- `PreparedCampaignsAreWhole`: `PreparedInFull`, from `FullInv`. A run that is about to
  fetch chunk `n` has covered the chunks before `n`, one about to publish has covered all
  (`ThreadCovers`), and a thread that read `SCHEDULED` or `COMPLETED` may write it back
  because the rows were there. Rows are never deleted and archived debts do not come back
  (`StepKeepsRows`), so what one thread covered no other can undo.
- `CustomersGetOneMessage`: `OneMessagePerCustomer`, from `OneInv`: a run fetches all debts
  of a customer together, so each run lets the same debt wait.
- `CountIsTrue`: with no budget for stalls, `EligibleCounted`: a run starts its count from
  zero and adds what it inserts and finds, so at publication it has counted the rows.

`InboxProofs`:

- `TypeCorrect`: `TypeOK`, with the facts that a thread knows only conversations that exist
  (`ConvsKnown`; without it a message could be stored in one that does not) and that a busy
  worker has a job (`JobsKnown`).
- `InboundPromiseKept`: the refinement `ImplementsInboundOnce`, and `AllHandledInFull`:
  `HandledInFull`. Both follow from `Inv`: each run fits the state of its message
  (`RunsFit`: only a run that has stored its message reaches the steps that count, obey and
  announce it, and finds its counters as it left them), two runs never have stored the same
  message (`OneStorer`), each stored message is done, carried by a run or was cut short
  (`Settled`), and a closed delivery has its message stored (`ClosedIsStored`). A step of
  one run changes the counters of its own message only (`OneRunMoves`, `OneRunSettles`), so
  each action is proved for its run alone. The refinement maps `StoreMessage`,
  `CountMessage` and `Announce` to the steps of `InboundOnce` and all others to stuttering.

`OutboundProofs`:

- `TypeCorrect`: `TypeOK`, with what each worker and request holds at each of its steps.
- `RepeatsHaveReasons`: `RepeatsAccounted`. The invariant is a balance for each message
  (`Counted`): the sends that were accepted, the runs that are past their load or have lost
  their job, and the run that the job may still get, are together at most one more than
  the reasons counted so far (`Credit`). Only a lost answer, an unknown outcome or an
  overlap of runs adds to the left side, and each adds to the right.
- `FailuresAreFailures`: `FailedWasNotSent`, from `StoredInTime` in the same invariant: a
  message without a reason to doubt it has one run, which stores what it has sent before
  the message is anything but `QUEUED`.
- `BlockedStaysUnsent`: the action property `BlockStopsQueued`, since whoever was barred
  and is still blocked is in nobody's hands (`BarredNotInFlight`).

`CustomerRecordsProofs`:

- `TypeCorrect`: `TypeOK`, the unique columns and the foreign keys included.
- `OneHolderEach`: `NumberHasOneHolder`. What a lookup has found out of the older forms,
  stage by stage, stays true (`Aware`), since nobody writes an older form any more
  (`Fading`); at a creation or a rewrite the unique columns rule out a second holder of the
  digits, and a number held in a hidden form is in `doubled`.
- `ColumnAndRowsAgree`: `RowsAgree`: a customer with rows has the row of his phone column
  among them, and no other primary one unless a lookup rewrote his stored number
  (`RowsMatch`).
- `ConversationIsSettled`: `ConversationFollows`. What a request has read of its customer is
  true until it is overtaken, and a conversation it has found exists (`Informed`); so whoever
  writes a collector writes the right one or is in `raced`. A request that has blocked the
  customer keeps `Closing` true until it closes the conversation or is cut short; whoever
  opens it afterwards is in `opened` (`SettledInv`).

`BackofficeProofs`, from one invariant (`OfficeInv`):

- `ChartIsKept`: `TeamIsLed`. A request that may make an employee of a supervisor has seen
  him lead nobody, and one that gives an account a supervisor has found one (`Ready`, what
  is known of a request at each step); whatever changed since is `Overtaken`
  (`StoreKeepsChart`).
- `ChangesAreWithinRights`: `RightsAreHeld`. A request past its guards is `Entitled`, the
  account it is about to change is one that its user could change (`Looked`), and a
  supervisor acts on his own team (`OwnTeam`). An import of customers keeps to the
  customers of the team it was authenticated with: the team recorded since only grows, and
  so do the collectors of a customer (`Scoped`).
- `SummariesAreTrue`: `ReportIsTrue`: the counters of an import at every step, with the
  row that is stored and not confirmed (`Counted`).

`ServicesProofs`:

- `TypeCorrect`, `MapsAreTrue`, `AnnouncementsAreTrue`: the maps of the presence service
  are typed and agree with each other, and what was announced is what they say unless a
  last-seen time is still being written.
- `BrowserIsCurrent`: `ViewIsCurrent`. The last event of a user on the wire is the last that
  was announced (`WireInv`), and a browser that has asked for the list will show the state
  of the answer changed by the events after it (`BaseInv`).
- `SyncsAreRecent`, `ChosenMappingsStay`, `RefusalsAreStale`: `SyncedIsRecent`,
  `ChosenMappingKept`, `RefusedIsStale`. A sync has heard of the templates up to its cursor
  and writes only when it has heard of all (`ListInv`; pages are counted by the ranks of
  the places on them), a mapping was chosen by the last save that committed (`MapInv`),
  and a send knows the template as it was at some moment since it was asked (`SendInv`).

`DeskProofs`: each scene has an invariant of its own, which no other scene disturbs
(`OneScene`).

- `CampaignIsAsPreviewed`: `AskedAsPreviewed`, from `PageInv`: the preview on the page and
  every live request for one are of what the page now wants, since each change of a choice
  gives up the request before it.
- `MicrophoneIsClosed`: `MicrophoneClosed`, from `VoiceInv`: the stream that the present
  composer names is that of its recorder, so a press stops it, and a prompt of the present
  composer or a recording means that it is mounted. Each of the events is proved by itself
  for any streams, any composers before this one and any stop events still to come.
- `LettersAreFit`: `LettersFit`, from `LettersInv`: what the preparation has judged so far
  (`Judged`), what the letters in its table are of (`Prepared`), and, unless something
  changed, that what was read is what still is (`AsRead`).
- `UrlsAreWhole`, `BubblesAreTheirMessages`: `UrlIsWhole`, `BubbleIsItsMessage`. A task that is
  about to write its row has a whole file of that row (`FilesInv`); of the fetches of a
  bubble only one is still wanted, and the only object URL alive is the one it shows
  (`BubbleInv`).
- `RefusalsAreOver`: `RefusalEnds`, from `LimitInv`. The counters of the key are numbered. A
  counter without expiry has one request, its first, that is about to set it, within a tick
  (`CallOK`, `KeyInv`), so a refusal that was told a time ends with its counter (`EndsFor`;
  `MemoryInv` for the counters of a process).
- `MessagesRingOnce`: `RingsOnce`, from `RingInv`: an event that is on a wire or was handled
  has been claimed, so without a doubted claim it was emitted once, and it is on a wire or
  it was rung, never both.
- `MessagesAreShown`: `ShownOrMissed`. A message of the page that the browser has not missed
  is shown, or in the answer that it will load, or its event is still to come and was not
  merged yet (`ShownInv`). While no two messages overlap, whatever is under way is of the
  latest message (`Alone`), and the list is current or will be by the last event on the wire
  or by the answer (`ListInv`).
- `LiveTypeCorrect`: `TypeOK` of `LiveInbox`: ranks are given once, and no browser knows of
  a message that was not stored.

Every invariant was checked by TLC before it was proved. Trying to prove `RightsAreHeld`
showed two faults of earlier models, which TLC then confirmed on larger instances: it
asked for all rights at one moment, and an import could be given the id of a customer
deleted under another. Proving `ShownOrMissed` showed an assumption that had been left
unsaid: with no API process a publication reaches nobody, and nothing is lost that the
model would count (`LiveConstants`).

Model-checked only: liveness (`CampaignsEnd`, `ClaimResolves`, `PreparationEnds`,
`DeliverySettles`, `QueuedIsDecided`, `LeaverIsAnnounced`, `SyncAnswers`), since the prover
does not treat fairness. Every invariant and every action property of a passing run is
stated by a theorem. The two violations, `NeverResent` and `PreviewComes`, are
counterexamples that TLC finds.

## Not modelled

- Texts and formats: the wording of messages and documents, the parsing of cells and dates
  in imports, what ffmpeg does to audio, types of files, HTTP details of the provider
  client, Swagger and configuration.
- Passwords, tokens, e-mail addresses; validation of request bodies, which a model takes as
  passed or as one predicate.
- Fields that no decision depends on: the last message of a conversation, priority, read
  receipts per user, system messages, last-seen times, payment dates, lists and filters.
- The rooms of the sockets: who belongs to the audience of an event is one set.
- Handlers of template, quality, account and call webhooks, which only log.
- The progress polling and the control buttons of the campaign page, and the pages of the
  frontend that are forms and tables over the API.
- Two API processes that sync templates at once, and the retention limits of BullMQ.
