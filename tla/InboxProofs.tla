----------------------------- MODULE InboxProofs -----------------------------
(***************************************************************************)
(* Proofs about Inbox: type correctness, that the inbox keeps the promise of *)
(* InboundOnce, and that a stored message is handled in full, for all        *)
(* messages, deliveries, workers, requests of the staff and failures.       *)
(***************************************************************************)
EXTENDS Inbox, SequenceTheorems, TLAPS

USE DEF Go, Keep, audit, queue, customer, inbox, history

(***************************************************************************)
(* Type correctness. A message is stored in a conversation that exists       *)
(* because a thread only knows conversations that do, and a busy worker has  *)
(* a job.                                                                  *)
(***************************************************************************)

ConvsKnown == \A t \in Threads : loc[t].conv <= Len(convs)
JobsKnown == \A w \in Workers : pc[w] # "idle" => loc[w].delivery \in Deliveries
TypeInv == TypeOK /\ ConvsKnown /\ JobsKnown

\* A conversation that is changed keeps the list of conversations in its type.
LEMMA ChangedConvs ==
  ASSUME NEW i, NEW c, i \in 1..Len(convs) => c \in Conversation,
         convs \in Seq(Conversation)
  PROVE  /\ [convs EXCEPT ![i] = c] \in Seq(Conversation)
         /\ Len([convs EXCEPT ![i] = c]) = Len(convs)
<1>1. CASE i \in 1..Len(convs)
  BY <1>1, ExceptSeq
<1>2. CASE i \notin 1..Len(convs)
  <2>1. convs \in [1..Len(convs) -> Conversation]
    BY LenProperties
  <2>2. [convs EXCEPT ![i] = c] = convs
    BY <1>2, <2>1
  <2>3. QED
    BY <2>2
<1>3. QED
  BY <1>1, <1>2

\* A conversation that is added becomes the last one.
LEMMA AddedConv ==
  ASSUME NEW s \in Seq(Conversation), NEW c \in Conversation
  PROVE  /\ Append(s, c) \in Seq(Conversation)
         /\ Len(Append(s, c)) = Len(s) + 1
         /\ Len(s) \in Nat
  BY LenProperties, AppendProperties

\* A thread starts without a job and without a conversation.
LEMMA BlankTyped ==
  /\ Blank \in Locals /\ Blank.conv = 0 /\ ~Blank.mine
  /\ Blank.delivery = NoDelivery /\ Blank.then = "idle"
  BY DEF Blank, Locals, Assignees, Steps, Final

\* The webhook requests and the jobs of BullMQ keep the types.
LEMMA QueueTyped ==
  ASSUME TypeInv, NEW d \in Deliveries,
         Receive(d) \/ EnqueueEvent(d) \/ EnqueueFails(d) \/ JobStalls(d)
  PROVE  TypeInv'
<1> USE DEF TypeInv, TypeOK, ConvsKnown, JobsKnown, EventStatus, Spend, Events,
            Queue!TypeOK, Queue!State
<1>1. CASE Receive(d)
  BY <1>1 DEF Receive
<1>2. CASE EnqueueEvent(d)
  BY <1>2 DEF EnqueueEvent, Queue!Add
<1>3. CASE EnqueueFails(d)
  <2>1. CASE Queue!Add(d)
    BY <1>3, <2>1 DEF EnqueueFails, Queue!Add
  <2>2. CASE UNCHANGED queue
    BY <1>3, <2>2 DEF EnqueueFails
  <2>3. QED
    BY <1>3, <2>1, <2>2 DEF EnqueueFails
<1>4. CASE JobStalls(d)
  BY <1>4, ConstantsAssumption DEF JobStalls, Queue!Stall, ConstantsAssumption
<1>5. QED
  BY <1>1, <1>2, <1>3, <1>4

\* So does a run that begins, ends or dies.
LEMMA RunTyped ==
  ASSUME TypeInv, NEW w \in Workers,
         \/ \E d \in Deliveries : TakeJob(w, d)
         \/ Crash(w) \/ ReadEventFails(w) \/ GiveUp(w) \/ Finish(w)
  PROVE  TypeInv'
<1> USE ConstantsAssumption DEF TypeInv, TypeOK, ConvsKnown, JobsKnown, ConstantsAssumption, Threads,
            Steps, WorkerSteps, Locals, Assignees, Final, Spend, Events,
            Queue!TypeOK, Queue!State
<1>0. w \in Threads /\ Blank \in Locals /\ Blank.conv = 0
  BY BlankTyped
<1>1. ASSUME NEW d \in Deliveries, TakeJob(w, d) PROVE TypeInv'
  <2>1. Queue!TypeOK'
    BY <1>1 DEF TakeJob, Queue!Take
  <2>2. /\ [Blank EXCEPT !.delivery = d] \in Locals
        /\ [Blank EXCEPT !.delivery = d].conv = 0
        /\ [Blank EXCEPT !.delivery = d].delivery = d
    BY <1>0
  <2>3. loc' \in [Threads -> Locals] /\ ConvsKnown' /\ JobsKnown'
    BY <1>0, <1>1, <2>2 DEF TakeJob
  <2>4. QED
    BY <1>0, <1>1, <2>1, <2>3 DEF TakeJob
<1>2. ASSUME Leave(w), UNCHANGED <<customer, inbox, home>> 
      PROVE  loc' \in [Threads -> Locals] /\ pc' \in [Threads -> Steps] /\ ConvsKnown' /\ JobsKnown'
  BY <1>0, <1>2 DEF Leave
<1>3. CASE Crash(w)
  BY <1>2, <1>3 DEF Crash, CutShort, MessageAt, Messages
<1>4. ASSUME pc[w] # "idle", Queue!Fail(w, loc[w].delivery) \/ Queue!Complete(w, loc[w].delivery)
      PROVE  Queue!TypeOK'
  <2>1. loc[w].delivery \in Deliveries
    BY <1>4
  <2>2. CASE owner[loc[w].delivery] = w
    <3>1. PICK state \in {"done", "failed", "waiting"} :
            /\ job' = [job EXCEPT ![loc[w].delivery] = state]
            /\ owner' = [owner EXCEPT ![loc[w].delivery] = NoThread]
      BY <1>4, <2>2 DEF Queue!Fail, Queue!Complete, Queue!Move
    <3>2. tries' \in [Deliveries -> Nat] /\ UNCHANGED stalled
      BY <1>4, <2>1 DEF Queue!Fail, Queue!Complete
    <3>3. QED
      BY <2>1, <3>1, <3>2
  <2>3. CASE owner[loc[w].delivery] # w
    BY <1>4, <2>1, <2>3 DEF Queue!Fail, Queue!Complete, Queue!Move
  <2>4. QED
    BY <2>2, <2>3
<1>5. CASE ReadEventFails(w)
  BY <1>2, <1>4, <1>5 DEF ReadEventFails, Retry
<1>6. CASE GiveUp(w)
  BY <1>2, <1>4, <1>6 DEF GiveUp, Retry, Complete
<1>7. CASE Finish(w)
  BY <1>2, <1>4, <1>7 DEF Finish, Complete
<1>8. QED
  BY <1>1, <1>3, <1>5, <1>6, <1>7

\* So does each step of a run until the message is stored.
LEMMA LookupTyped ==
  ASSUME TypeInv, NEW w \in Workers,
         \/ ReadEvent(w) \/ FindDuplicate(w) \/ ResolveCustomer(w) \/ StoreMessage(w)
  PROVE  TypeInv'
<1> USE ConstantsAssumption DEF TypeInv, TypeOK, ConvsKnown, JobsKnown, ConstantsAssumption,
            Threads, Steps, WorkerSteps, Lookup, AfterStore, Locals, Final, Queue!TypeOK
<1>0. w \in Threads /\ loc[w] \in Locals
  OBVIOUS
<1>1. CASE ReadEvent(w)
  BY <1>0, <1>1 DEF ReadEvent
<1>2. CASE FindDuplicate(w)
  BY <1>0, <1>2 DEF FindDuplicate
<1>3. CASE ResolveCustomer(w)
  BY <1>0, <1>3 DEF ResolveCustomer
<1>4. CASE StoreMessage(w)
  <2>1. MessageAt(w) \in Messages
    BY <1>0, <1>4 DEF StoreMessage, MessageAt, Messages
  <2>2. loc[w].conv \in 0..Len(convs)
    BY <1>0, LenProperties
  <2>3. home' \in [Messages -> 0..Len(convs)]
    BY <1>4, <2>1, <2>2 DEF StoreMessage
  <2>4. loc' \in [Threads -> Locals] /\ \A t \in Threads :
           loc'[t].conv = loc[t].conv /\ loc'[t].delivery = loc[t].delivery
    <3>1. CASE UNCHANGED loc
      BY <3>1
    <3> DEFINE l == [loc[w] EXCEPT !.mine = TRUE, !.then = "count", !.verdict = "PROCESSED"]
    <3>2. l \in Locals /\ l.conv = loc[w].conv /\ l.delivery = loc[w].delivery
      BY <1>0
    <3>3. CASE loc' = [loc EXCEPT ![w] = l]
      BY <1>0, <3>2, <3>3
    <3>4. QED
      BY <1>4, <3>1, <3>3 DEF StoreMessage
  <2>5. pc' \in [Threads -> Steps]
    BY <1>0, <1>4 DEF StoreMessage
  <2>6. QED
    BY <1>0, <1>4, <2>3, <2>4, <2>5 DEF StoreMessage
<1>5. QED
  BY <1>1, <1>2, <1>3, <1>4

\* A conversation in which a message is counted is one still.
LEMMA CountedTyped ==
  ASSUME NEW c \in Conversation
  PROVE  [c EXCEPT !.status = "OPEN", !.unread = @ + 1] \in Conversation
<1>1. c.unread + 1 \in Nat
  BY DEF Conversation
<1>2. QED
  BY <1>1 DEF Conversation, ConversationStatus

\* So does each step that follows.
LEMMA FollowTyped ==
  ASSUME TypeInv, NEW w \in Workers,
         \/ CountMessage(w) \/ ApplyOptOut(w) \/ Announce(w) \/ CloseEvent(w)
         \/ MarkFailed(w) \/ MarkFailedFails(w) \/ HandlerFails(w)
  PROVE  TypeInv'
<1> USE ConstantsAssumption DEF TypeInv, TypeOK, ConvsKnown, JobsKnown, ConstantsAssumption,
            Threads, Steps, WorkerSteps, Lookup, AfterStore, Locals, Final, EventStatus, Spend,
            Events, Queue!TypeOK
<1>0. w \in Threads /\ loc[w] \in Locals
  OBVIOUS
<1>1. CASE CountMessage(w)
  <2>1. MessageAt(w) \in Messages
    BY <1>0, <1>1 DEF CountMessage, MessageAt, Messages
  <2>2. convs' \in Seq(Conversation) /\ Len(convs') = Len(convs)
    <3> DEFINE c == [convs[loc[w].conv] EXCEPT !.status = "OPEN", !.unread = @ + 1]
    <3>1. loc[w].conv \in 1..Len(convs) => c \in Conversation
      BY ElementOfSeq, CountedTyped
    <3>2. convs' = [convs EXCEPT ![loc[w].conv] = c]
      BY <1>1 DEF CountMessage
    <3> HIDE DEF c
    <3>3. QED
      BY <3>1, <3>2, ChangedConvs
  <2>3. counted' \in [Messages -> Nat]
    BY <1>1, <2>1 DEF CountMessage
  <2>4. QED
    BY <1>0, <1>1, <2>2, <2>3 DEF CountMessage
<1>2. CASE ApplyOptOut(w)
  BY <1>0, <1>2 DEF ApplyOptOut
<1>3. CASE Announce(w)
  BY <1>0, <1>3 DEF Announce, MessageAt, Messages
<1>4. CASE CloseEvent(w)
  BY <1>0, <1>4 DEF CloseEvent
<1>5. CASE MarkFailed(w)
  BY <1>0, <1>5 DEF MarkFailed
<1>6. CASE MarkFailedFails(w)
  <2>1. PICK r \in BOOLEAN : loc' = [loc EXCEPT ![w] = [loc[w] EXCEPT !.retryable = r]]
    BY <1>6 DEF MarkFailedFails
  <2>2. QED
    BY <1>0, <1>6, <2>1 DEF MarkFailedFails
<1>7. CASE HandlerFails(w)
  <2>1. PICK r \in BOOLEAN : loc' = [loc EXCEPT ![w] = [loc[w] EXCEPT !.retryable = r]]
    BY <1>7 DEF HandlerFails
  <2>2. pc[w] # "idle" /\ pc' = [pc EXCEPT ![w] = "markFailed"]
    BY <1>7 DEF HandlerFails
  <2>3. MessageAt(w) \in Messages
    BY <2>2 DEF MessageAt, Messages
  <2>4. cut' \subseteq Messages
    BY <1>7, <2>3 DEF HandlerFails, CutShort
  <2>5. loc' \in [Threads -> Locals] /\ ConvsKnown' /\ JobsKnown'
    BY <1>0, <1>7, <2>1, <2>2 DEF HandlerFails
  <2>6. pc' \in [Threads -> Steps] /\ left' \in [Events -> Nat]
    BY <1>0, <1>7, <2>2 DEF HandlerFails
  <2>7. QED
    BY <1>7, <2>4, <2>5, <2>6 DEF HandlerFails
<1>8. QED
  BY <1>1, <1>2, <1>3, <1>4, <1>5, <1>6, <1>7

\* So do the two steps that ensure a conversation.
LEMMA EnsureTyped ==
  ASSUME TypeInv, NEW t \in Threads, Ensure(t)
  PROVE  TypeInv'
<1> USE ConstantsAssumption DEF TypeInv, TypeOK, ConvsKnown, JobsKnown, ConstantsAssumption,
            Threads, Steps, WorkerSteps, Locals, Queue!TypeOK
<1>0. loc[t] \in Locals /\ Len(convs) \in Nat
  BY LenProperties
<1>1. CASE ReadAssignee(t)
  <2>1. [loc[t] EXCEPT !.seen = assignee] \in Locals
    BY <1>0
  <2>2. loc' \in [Threads -> Locals] /\ ConvsKnown' /\ JobsKnown'
    BY <1>0, <1>1, <2>1 DEF ReadAssignee
  <2>3. QED
    BY <1>1, <2>2 DEF ReadAssignee, Lookup
<1>2. CASE UpsertConversation(t)
  <2>1. /\ convs' \in Seq(Conversation)
        /\ Len(convs') \in Nat /\ Len(convs) <= Len(convs') /\ active' \in 1..Len(convs')
    <3>1. CASE active # 0
      <4>1. convs[active] \in Conversation
        BY <3>1, ElementOfSeq
      <4>2. [convs[active] EXCEPT !.assignee = loc[t].seen] \in Conversation
        BY <1>0, <4>1 DEF Conversation
      <4>3. convs' = [convs EXCEPT ![active] = [convs[active] EXCEPT !.assignee = loc[t].seen]]
        BY <1>2, <3>1 DEF UpsertConversation
      <4>4. QED
        BY <1>0, <1>2, <3>1, <4>2, <4>3, ChangedConvs DEF UpsertConversation
    <3>2. CASE active = 0
      <4> DEFINE c == [status |-> "OPEN", unread |-> 0, assignee |-> loc[t].seen]
      <4>1. c \in Conversation
        BY <1>0 DEF Conversation, ConversationStatus
      <4>2. convs' = Append(convs, c) /\ active' = Len(convs) + 1
        BY <1>2, <3>2 DEF UpsertConversation
      <4> HIDE DEF c
      <4>3. QED
        BY <1>0, <4>1, <4>2, AddedConv
    <3>3. QED
      BY <3>1, <3>2
  <2>2. Blank \in Locals /\ Blank.conv = 0
    BY BlankTyped
  <2>3. \A n \in Nat : [loc[t] EXCEPT !.conv = n] \in Locals
    BY <1>0
  <2>4. /\ loc' \in [Threads -> Locals]
        /\ loc'[t].conv <= Len(convs')
        /\ \A u \in Threads \ {t} : loc'[u] = loc[u] /\ pc'[u] = pc[u]
    BY <1>0, <1>2, <2>1, <2>2, <2>3 DEF UpsertConversation
  <2>5. ConvsKnown'
    <3>1. SUFFICES ASSUME NEW u \in Threads PROVE loc'[u].conv <= Len(convs')
      OBVIOUS
    <3>2. CASE u = t
      BY <2>4, <3>2
    <3>3. CASE u # t
      <4>1. loc[u].conv \in Nat /\ loc[u].conv <= Len(convs) /\ loc'[u] = loc[u]
        BY <2>4, <3>3
      <4>2. QED
        BY <1>0, <2>1, <4>1
    <3>4. QED
      BY <3>2, <3>3
  <2>6. JobsKnown'
    BY <1>0, <1>2, <2>4 DEF UpsertConversation
  <2>7. home' \in [Messages -> 0..Len(convs')]
    BY <1>0, <1>2, <2>1 DEF UpsertConversation
  <2>8. QED
    BY <1>0, <1>2, <2>1, <2>4, <2>5, <2>6, <2>7 DEF UpsertConversation
<1>3. QED
  BY <1>1, <1>2 DEF Ensure

\* So do the requests of the staff.
LEMMA AgentTyped ==
  ASSUME TypeInv, NEW a \in Agents,
         Serve(a) \/ OpenConversation(a) \/ AskRead(a) \/ AskStatus(a)
  PROVE  TypeInv'
<1> USE ConstantsAssumption DEF TypeInv, TypeOK, ConvsKnown, JobsKnown, ConstantsAssumption,
            Threads, Steps, AgentSteps, Locals, Spend, Events, Queue!TypeOK
<1>0. a \in Threads /\ loc[a] \in Locals /\ Len(convs) \in Nat /\ a \notin Workers
  BY LenProperties
<1>1. ASSUME NEW then \in {"idle", "clear", "setStatus"}, AskConversation(a, then)
      PROVE  TypeInv'
  <2>1. [Blank EXCEPT !.then = then] \in Locals /\ [Blank EXCEPT !.then = then].conv = 0
    BY BlankTyped
  <2>2. loc' \in [Threads -> Locals] /\ ConvsKnown' /\ JobsKnown'
    BY <1>0, <1>1, <2>1 DEF AskConversation
  <2>3. pc' \in [Threads -> Steps] /\ left' \in [Events -> Nat]
    BY <1>0, <1>1 DEF AskConversation, WorkerSteps, Lookup
  <2>4. QED
    BY <1>1, <2>2, <2>3 DEF AskConversation
<1>2. ASSUME NEW c, loc[a].conv \in 1..Len(convs) => c \in Conversation,
             convs' = [convs EXCEPT ![loc[a].conv] = c],
             Go(a, "idle"), Keep(a, Blank),
             UNCHANGED <<audit, queue, customer, active, home, history, left>>
      PROVE  TypeInv'
  <2>1. convs' \in Seq(Conversation) /\ Len(convs') = Len(convs)
    BY <1>2, ChangedConvs
  <2>2. Blank \in Locals /\ Blank.conv = 0
    BY BlankTyped
  <2>3. loc' \in [Threads -> Locals] /\ ConvsKnown' /\ JobsKnown'
    BY <1>0, <1>2, <2>1, <2>2
  <2>4. pc' \in [Threads -> Steps]
    BY <1>0, <1>2
  <2>5. QED
    BY <1>0, <1>2, <2>1, <2>3, <2>4
<1>3. ASSUME loc[a].conv \in 1..Len(convs)
      PROVE  /\ [convs[loc[a].conv] EXCEPT !.unread = 0] \in Conversation
             /\ \A s \in ConversationStatus :
                  [convs[loc[a].conv] EXCEPT !.status = s] \in Conversation
  <2>1. convs[loc[a].conv] \in Conversation
    BY <1>3, ElementOfSeq
  <2>2. QED
    BY <2>1 DEF Conversation
<1>4. CASE ClearUnread(a)
  <2>1. convs' = [convs EXCEPT ![loc[a].conv] = [convs[loc[a].conv] EXCEPT !.unread = 0]]
    BY <1>4 DEF ClearUnread
  <2>2. QED
    BY <1>2, <1>3, <1>4, <2>1 DEF ClearUnread
<1>5. CASE SetStatus(a)
  <2>1. PICK s \in ConversationStatus :
          convs' = [convs EXCEPT ![loc[a].conv] = [convs[loc[a].conv] EXCEPT !.status = s]]
    BY <1>5 DEF SetStatus
  <2>2. QED
    BY <1>2, <1>3, <1>5, <2>1 DEF SetStatus
<1>6. QED
  BY <1>1, <1>4, <1>5 DEF Serve, OpenConversation, AskRead, AskStatus

\* So do the closing of a conversation and the reassignment of the customer.
LEMMA ReassignTyped ==
  ASSUME TypeInv, CloseConversation \/ \E e \in Assignees : Reassign(e)
  PROVE  TypeInv'
<1> USE DEF TypeInv, TypeOK, ConvsKnown, JobsKnown, Spend, Events
<1>0. Len(convs) \in Nat
  BY LenProperties
<1>1. ASSUME convs' \in Seq(Conversation), Len(convs') \in Nat, Len(convs) <= Len(convs'),
             active' \in 0..Len(convs'), assignee' \in Assignees, left' \in [Events -> Nat],
             UNCHANGED <<audit, queue, known, optedOut, home, history, pc, loc>>
      PROVE  TypeInv'
  <2>1. home' \in [Messages -> 0..Len(convs')]
    BY <1>0, <1>1
  <2>2. ConvsKnown'
    <3>1. SUFFICES ASSUME NEW u \in Threads PROVE loc[u].conv <= Len(convs')
      BY <1>1
    <3>2. loc[u].conv \in Nat /\ loc[u].conv <= Len(convs)
      BY DEF Locals
    <3>3. QED
      BY <1>0, <1>1, <3>2
  <2>3. QED
    BY <1>1, <2>1, <2>2 DEF Queue!TypeOK
<1>2. CASE CloseConversation
  <2> DEFINE c == [status |-> "CLOSED", unread |-> 0, assignee |-> assignee]
  <2>1. c \in Conversation
    BY DEF Conversation, ConversationStatus
  <2>2. \/ convs' = [convs EXCEPT ![active] = c] /\ active' = active
        \/ convs' = Append(convs, c) /\ active' = Len(convs) + 1
    BY <1>2 DEF CloseConversation
  <2> HIDE DEF c
  <2>3. /\ convs' \in Seq(Conversation) /\ Len(convs') \in Nat /\ Len(convs) <= Len(convs')
        /\ active' \in 0..Len(convs')
    <3>1. CASE convs' = [convs EXCEPT ![active] = c] /\ active' = active
      <4>1. convs' \in Seq(Conversation) /\ Len(convs') = Len(convs)
        BY <2>1, <3>1, ChangedConvs
      <4>2. QED
        BY <1>0, <3>1, <4>1
    <3>2. CASE convs' = Append(convs, c) /\ active' = Len(convs) + 1
      <4>1. convs' \in Seq(Conversation) /\ Len(convs') = Len(convs) + 1
        BY <2>1, <3>2, AddedConv
      <4>2. QED
        BY <1>0, <3>2, <4>1
    <3>3. QED
      BY <2>2, <3>1, <3>2
  <2>4. QED
    BY <1>1, <1>2, <2>3 DEF CloseConversation
<1>3. ASSUME NEW e \in Assignees, Reassign(e) PROVE TypeInv'
  <2> DEFINE fresh == [status |-> "OPEN", unread |-> 0, assignee |-> e]
             kept == IF active = 0 THEN convs ELSE [convs EXCEPT ![active] = Archived(@)]
  <2>1. fresh \in Conversation
    BY DEF Conversation, ConversationStatus
  <2>2. active \in 1..Len(convs) =>
          /\ Archived(convs[active]) \in Conversation
          /\ [convs[active] EXCEPT !.assignee = e] \in Conversation
    <3>1. SUFFICES ASSUME active \in 1..Len(convs), NEW c, c = convs[active]
                   PROVE  /\ Archived(c) \in Conversation
                          /\ [c EXCEPT !.assignee = e] \in Conversation
      OBVIOUS
    <3>2. c \in Conversation
      BY <3>1, ElementOfSeq
    <3>3. QED
      BY <3>2 DEF Archived, Conversation, ConversationStatus
  <2>3. kept \in Seq(Conversation) /\ Len(kept) = Len(convs)
    BY <2>2, ChangedConvs
  <2>4. \/ /\ active # 0 /\ active' = active
           /\ convs' = [convs EXCEPT ![active] = [convs[active] EXCEPT !.assignee = e]]
        \/ convs' = Append(kept, fresh) /\ active' = Len(convs) + 1
    BY <1>3 DEF Reassign
  <2> HIDE DEF fresh, kept
  <2>5. /\ convs' \in Seq(Conversation) /\ Len(convs') \in Nat /\ Len(convs) <= Len(convs')
        /\ active' \in 0..Len(convs')
    <3> DEFINE same == [convs[active] EXCEPT !.assignee = e]
    <3>1. CASE active # 0 /\ active' = active /\ convs' = [convs EXCEPT ![active] = same]
      <4>1. active \in 1..Len(convs) => same \in Conversation
        BY <2>2
      <4> HIDE DEF same
      <4>2. convs' \in Seq(Conversation) /\ Len(convs') = Len(convs)
        BY <3>1, <4>1, ChangedConvs
      <4>3. QED
        BY <1>0, <3>1, <4>2
    <3>2. CASE convs' = Append(kept, fresh) /\ active' = Len(convs) + 1
      <4>1. convs' \in Seq(Conversation) /\ Len(convs') = Len(convs) + 1
        BY <2>1, <2>3, <3>2, AddedConv
      <4>2. QED
        BY <1>0, <3>2, <4>1
    <3>3. QED
      BY <2>4, <3>1, <3>2
  <2>6. QED
    BY <1>1, <1>3, <2>5 DEF Reassign
<1>4. QED
  BY <1>2, <1>3

\* Every step keeps the types.
LEMMA NextTyped == TypeInv /\ [Next]_vars => TypeInv'
<1> SUFFICES ASSUME TypeInv, [Next]_vars PROVE TypeInv'
  OBVIOUS
<1>1. CASE UNCHANGED vars
  BY <1>1 DEF vars, TypeInv, TypeOK, ConvsKnown, JobsKnown, Queue!TypeOK
<1>2. CASE \E d \in Deliveries :
             Receive(d) \/ EnqueueEvent(d) \/ EnqueueFails(d) \/ JobStalls(d)
  BY <1>2, QueueTyped
<1>3. CASE \E w \in Workers :
             \/ \E d \in Deliveries : TakeJob(w, d)
             \/ Work(w) \/ ReadEventFails(w) \/ HandlerFails(w) \/ MarkFailedFails(w) \/ Crash(w)
  BY <1>3, RunTyped, LookupTyped, FollowTyped DEF Work
<1>4. CASE \E t \in Threads : Ensure(t)
  BY <1>4, EnsureTyped
<1>5. CASE \E a \in Agents : Serve(a) \/ OpenConversation(a) \/ AskRead(a) \/ AskStatus(a)
  BY <1>5, AgentTyped
<1>6. CASE CloseConversation \/ \E e \in Assignees : Reassign(e)
  BY <1>6, ReassignTyped
<1>7. QED
  BY <1>1, <1>2, <1>3, <1>4, <1>5, <1>6 DEF Next

\* The types hold at the start.
LEMMA InitTyped == Init => TypeInv
<1> SUFFICES ASSUME Init PROVE TypeInv
  OBVIOUS
<1>1. convs \in Seq(Conversation) /\ Len(convs) = 0
  BY EmptySeq DEF Init
<1>2. Queue!TypeOK
  BY ConstantsAssumption DEF Init, Queue!Init, Queue!TypeOK, Queue!State, ConstantsAssumption
<1>3. home \in [Messages -> 0..Len(convs)]
  BY <1>1 DEF Init
<1>4. counted \in [Messages -> Nat] /\ announced \in [Messages -> Nat] /\ left \in [Events -> Nat]
  BY ConstantsAssumption DEF Init, ConstantsAssumption
<1>5. event \in [Deliveries -> EventStatus] /\ arriving \subseteq Deliveries /\ cut \subseteq Messages
  BY DEF Init, EventStatus
<1>6. pc \in [Threads -> Steps] /\ JobsKnown
  BY DEF Init, Steps, JobsKnown, Threads
<1>7. loc \in [Threads -> Locals] /\ ConvsKnown
  BY <1>1, BlankTyped DEF Init, ConvsKnown
<1>8. known \in BOOLEAN /\ assignee \in Assignees /\ optedOut \in BOOLEAN
  BY DEF Init, Assignees
<1>9. active \in 0..Len(convs)
  BY <1>1 DEF Init
<1>10. QED
  BY <1>1, <1>2, <1>3, <1>4, <1>5, <1>6, <1>7, <1>8, <1>9 DEF TypeInv, TypeOK

\* Type correctness of the inbox.
THEOREM TypeCorrect == Spec => []TypeOK
<1>1. TypeInv => TypeOK
  BY DEF TypeInv
<1>2. QED
  BY <1>1, InitTyped, NextTyped, PTL DEF Spec

-----------------------------------------------------------------------------
(***************************************************************************)
(* The inductive invariant. At most one run has stored a given message, and  *)
(* it alone counts and announces it; a run that stored no message never     *)
(* reaches the steps that do.                                              *)
(***************************************************************************)

Ensuring == {"assignee", "upsert"}
Before == {"event", "duplicate", "customer", "store"}

\* A run at step p with locals l agrees with the state of its message.
RunFits(p, l) ==
  LET m == MessageOf[l.delivery]
  IN /\ p \in {"idle"} \union WorkerSteps
     /\ p \in Before \union {"idle"} => ~l.mine
     /\ p \in Ensuring => l.then = IF l.mine THEN "count" ELSE "store"
     /\ p \in AfterStore => l.mine
     /\ p = "store" => l.conv # 0
     /\ l.mine => l.delivery \in Deliveries /\ ~Unstored(m)
     /\ p = "close" => ~Unstored(m)
     /\ l.mine /\ p \in Ensuring \union {"count"} => counted[m] = 0 /\ announced[m] = 0
     /\ p \in {"optOut", "announce"} => counted[m] = 1 /\ announced[m] = 0
     /\ p = "announce" /\ m \in OptOutTexts => optedOut

RunsFit == \A w \in Workers : RunFits(pc[w], loc[w])

OneStorer == \A u, v \in Workers :
  u # v /\ loc[u].mine /\ loc[v].mine => MessageAt(u) # MessageAt(v)

\* A run at step p with locals l has stored m and has yet to see it through.
Carries(p, l, m) ==
  l.mine /\ p \in Ensuring \union AfterStore /\ MessageOf[l.delivery] = m

Done(m) == counted[m] = 1 /\ announced[m] = 1 /\ (m \in OptOutTexts => optedOut)

Settled == \A m \in Messages :
  /\ Unstored(m) => counted[m] = 0 /\ announced[m] = 0
  /\ ~Unstored(m) /\ m \notin cut =>
       Done(m) \/ \E w \in Workers : Carries(pc[w], loc[w], m)

ClosedIsStored == \A d \in Deliveries : event[d] \in Final => ~Unstored(MessageOf[d])

Inv == TypeInv /\ RunsFit /\ OneStorer /\ Settled /\ ClosedIsStored

\* A step of a run that stored a message or carries it leaves what the other
\* runs rely on: nobody but the storer of a message changes its counters.
LEMMA OneRunMoves ==
  ASSUME TypeInv, RunsFit, OneStorer, NEW w \in Workers, NEW p, NEW l,
         pc' = [pc EXCEPT ![w] = p], loc' = [loc EXCEPT ![w] = l],
         optedOut => optedOut',
         \A m \in Messages : ~Unstored(m) => ~Unstored(m)',
         \A m \in Messages : ~Unstored(m) /\ ~(loc[w].mine /\ MessageAt(w) = m) =>
            counted'[m] = counted[m] /\ announced'[m] = announced[m],
         l.mine => \/ loc[w].mine /\ l.delivery = loc[w].delivery
                   \/ Unstored(MessageOf[l.delivery]),
         RunFits(p, l)'
  PROVE  RunsFit' /\ OneStorer'
<1>0. /\ w \in Threads /\ pc'[w] = p /\ loc'[w] = l
      /\ \A u \in Workers \ {w} : pc'[u] = pc[u] /\ loc'[u] = loc[u]
  BY DEF TypeInv, TypeOK, Threads
<1>1. RunsFit'
  <2>0. RunFits(pc[w], loc[w])'
    BY <1>0 DEF RunFits
  <2>1. SUFFICES ASSUME NEW u \in Workers, u # w PROVE RunFits(pc[u], loc[u])'
    BY <2>0 DEF RunsFit
  <2>2. RunFits(pc[u], loc[u]) /\ pc'[u] = pc[u] /\ loc'[u] = loc[u]
    BY <1>0, <2>1 DEF RunsFit
  <2> DEFINE m == MessageOf[loc[u].delivery]
  <2>3. loc[u].mine => m \in Messages /\ ~Unstored(m)
    BY <2>2 DEF RunFits, Messages
  <2>4. loc[u].mine => counted'[m] = counted[m] /\ announced'[m] = announced[m]
    BY <2>1, <2>3 DEF OneStorer, MessageAt
  <2>5. pc[u] \in {"store", "close"} => m \in Messages
    BY <2>1 DEF TypeInv, JobsKnown, Messages
  <2>6. (loc[u].mine \/ pc[u] = "close") => ~Unstored(m)'
    BY <2>2, <2>3, <2>5 DEF RunFits
  <2>7. pc[u] \in {"optOut", "announce"} => loc[u].mine
    BY <2>2 DEF RunFits, AfterStore
  <2>8. QED
    BY <2>2, <2>4, <2>6, <2>7 DEF RunFits
<1>2. OneStorer'
  <2>1. ASSUME NEW u \in Workers, u # w, loc'[u].mine, l.mine
        PROVE  MessageOf[loc[u].delivery] # MessageOf[l.delivery]
    <3>1. RunFits(pc[u], loc[u]) /\ loc[u].mine
      BY <1>0, <2>1 DEF RunsFit
    <3>2. ~Unstored(MessageOf[loc[u].delivery])
      BY <3>1 DEF RunFits
    <3>3. loc[w].mine => MessageOf[loc[u].delivery] # MessageOf[loc[w].delivery]
      BY <2>1, <3>1 DEF OneStorer, MessageAt
    <3>4. QED
      BY <2>1, <3>2, <3>3
  <2>2. QED
    BY <1>0, <2>1 DEF OneStorer, MessageAt
<1>3. QED
  BY <1>1, <1>2

\* After a step of the run of w every message is settled, or carried, again.
LEMMA OneRunSettles ==
  ASSUME TypeInv, Settled, NEW w \in Workers, NEW p, NEW l,
         pc' = [pc EXCEPT ![w] = p], loc' = [loc EXCEPT ![w] = l],
         optedOut => optedOut',
         \A m \in Messages : Unstored(m)' => counted'[m] = 0 /\ announced'[m] = 0,
         \A m \in Messages : ~Unstored(m)' /\ m \notin cut' =>
            \/ /\ ~Unstored(m) /\ m \notin cut
               /\ counted'[m] = counted[m] /\ announced'[m] = announced[m]
               /\ ~Carries(pc[w], loc[w], m)
            \/ Carries(p, l, m) \/ Done(m)'
  PROVE  Settled'
<1>0. /\ pc'[w] = p /\ loc'[w] = l
      /\ \A u \in Workers \ {w} : pc'[u] = pc[u] /\ loc'[u] = loc[u]
  BY DEF TypeInv, TypeOK, Threads
<1>1. SUFFICES ASSUME NEW m \in Messages, ~Unstored(m)', m \notin cut', ~Carries(p, l, m)
               PROVE  Done(m)' \/ \E u \in Workers : Carries(pc'[u], loc'[u], m)
  BY <1>0 DEF Settled, Carries
<1>2. CASE Done(m)'
  BY <1>2
<1>3. CASE /\ ~Unstored(m) /\ m \notin cut
           /\ counted'[m] = counted[m] /\ announced'[m] = announced[m]
           /\ ~Carries(pc[w], loc[w], m)
  <2>1. CASE Done(m)
    BY <1>3, <2>1 DEF Done
  <2>2. CASE \E u \in Workers : Carries(pc[u], loc[u], m)
    BY <1>0, <1>3, <2>2
  <2>3. QED
    BY <1>3, <2>1, <2>2 DEF Settled
<1>4. QED
  BY <1>1, <1>2, <1>3

\* A step that touches no run and no message keeps the invariant.
LEMMA NoRunMoves ==
  ASSUME Inv, TypeInv', UNCHANGED <<home, history, optedOut>>,
         \A w \in Workers : pc'[w] = pc[w] /\ loc'[w] = loc[w],
         \A d \in Deliveries : event'[d] \in Final => event[d] \in Final
  PROVE  Inv'
<1> USE DEF Inv, Unstored
<1>1. RunsFit'
  BY DEF RunsFit, RunFits
<1>2. OneStorer'
  BY DEF OneStorer, MessageAt
<1>3. Settled'
  BY DEF Settled, Done
<1>4. ClosedIsStored'
  BY DEF ClosedIsStored
<1>5. QED
  BY <1>1, <1>2, <1>3, <1>4

\* A step of a run that changes no message keeps the invariant, if the run still
\* carries the message that it has stored or is cut short.
LEMMA RunMoves ==
  ASSUME Inv, TypeInv', NEW w \in Workers, NEW p, NEW l,
         pc' = [pc EXCEPT ![w] = p], loc' = [loc EXCEPT ![w] = l],
         UNCHANGED <<home, counted, announced, optedOut>>, cut \subseteq cut',
         l.mine => loc[w].mine /\ l.delivery = loc[w].delivery,
         \A m \in Messages : Carries(pc[w], loc[w], m) => Carries(p, l, m) \/ m \in cut',
         RunFits(p, l),
         \A d \in Deliveries :
           event'[d] \in Final => event[d] \in Final \/ ~Unstored(MessageOf[d])
  PROVE  Inv'
<1> USE DEF Inv
<1>0. \A m \in Messages : Unstored(m)' <=> Unstored(m)
  BY DEF Unstored
<1>1. RunFits(p, l)'
  BY DEF RunFits, Unstored
<1>2. RunsFit' /\ OneStorer'
  BY <1>0, <1>1, OneRunMoves
<1>3. Settled'
  <2>1. \A m \in Messages : Unstored(m)' => counted'[m] = 0 /\ announced'[m] = 0
    BY <1>0 DEF Settled
  <2>2. \A m \in Messages : ~Unstored(m)' /\ m \notin cut' =>
            \/ /\ ~Unstored(m) /\ m \notin cut
               /\ counted'[m] = counted[m] /\ announced'[m] = announced[m]
               /\ ~Carries(pc[w], loc[w], m)
            \/ Carries(p, l, m)
    BY <1>0
  <2>3. QED
    BY <2>1, <2>2, OneRunSettles
<1>4. ClosedIsStored'
  BY DEF ClosedIsStored, Unstored
<1>5. QED
  BY <1>2, <1>3, <1>4

\* A run that has no message of its own fits at any step that needs none.
LEMMA RunEnds ==
  ASSUME Inv, TypeInv', NEW w \in Workers, Leave(w),
         UNCHANGED <<event, home, counted, announced, optedOut>>,
         \/ pc[w] \notin Ensuring \union AfterStore /\ UNCHANGED cut
         \/ CutShort(w)
  PROVE  Inv'
<1>1. RunFits("idle", Blank)
  BY BlankTyped DEF RunFits, Ensuring, AfterStore
<1>2. pc' = [pc EXCEPT ![w] = "idle"] /\ loc' = [loc EXCEPT ![w] = Blank]
  BY DEF Leave
<1>3. cut \subseteq cut' /\ \A m \in Messages : Carries(pc[w], loc[w], m) => m \in cut'
  BY DEF CutShort, Carries, Ensuring, MessageAt
<1>4. QED
  BY <1>1, <1>2, <1>3, BlankTyped, RunMoves

LEMMA EndsKeep ==
  ASSUME Inv, TypeInv', NEW w \in Workers,
         \/ \E d \in Deliveries : TakeJob(w, d)
         \/ Crash(w) \/ ReadEventFails(w) \/ GiveUp(w) \/ Finish(w)
  PROVE  Inv'
<1>1. ASSUME NEW d \in Deliveries, TakeJob(w, d) PROVE Inv'
  <2> DEFINE l == [Blank EXCEPT !.delivery = d]
  <2>1. ~l.mine
    BY BlankTyped DEF Locals
  <2>2. RunFits("event", l)
    BY <2>1 DEF RunFits, WorkerSteps, Ensuring, AfterStore
  <2>3. pc' = [pc EXCEPT ![w] = "event"] /\ loc' = [loc EXCEPT ![w] = l]
    BY <1>1 DEF TakeJob
  <2>4. \A m : ~Carries(pc[w], loc[w], m)
    BY <1>1 DEF TakeJob, Carries, Ensuring, AfterStore
  <2> HIDE DEF l
  <2>5. QED
    BY <1>1, <2>1, <2>2, <2>3, <2>4, RunMoves DEF TakeJob
<1>2. CASE Crash(w)
  BY <1>2, RunEnds DEF Crash
<1>3. CASE ReadEventFails(w)
  BY <1>3, RunEnds DEF ReadEventFails, Retry, Ensuring, AfterStore
<1>4. CASE GiveUp(w)
  BY <1>4, RunEnds DEF GiveUp, Retry, Complete, Ensuring, AfterStore
<1>5. CASE Finish(w)
  BY <1>5, RunEnds DEF Finish, Complete, Ensuring, AfterStore
<1>6. QED
  BY <1>1, <1>2, <1>3, <1>4, <1>5

\* A run that goes on with the locals it has.
LEMMA StepsKeep ==
  ASSUME Inv, TypeInv', NEW w \in Workers,
         \/ ReadEvent(w) \/ FindDuplicate(w) \/ ResolveCustomer(w) \/ CloseEvent(w)
         \/ MarkFailed(w) \/ MarkFailedFails(w) \/ HandlerFails(w)
  PROVE  Inv'
<1>0. /\ w \in Threads /\ loc = [loc EXCEPT ![w] = loc[w]]
      /\ RunFits(pc[w], loc[w])
      /\ pc[w] # "idle" => loc[w].delivery \in Deliveries
  BY DEF Inv, TypeInv, TypeOK, JobsKnown, Threads, RunsFit
<1>1. CASE ReadEvent(w) \/ FindDuplicate(w)
  <2>1. PICK p \in {"finish", "duplicate", "customer", "close"} :
          /\ pc' = [pc EXCEPT ![w] = p]
          /\ p = "close" => ~Unstored(MessageAt(w))
    BY <1>1 DEF ReadEvent, FindDuplicate
  <2>2. pc[w] \in {"event", "duplicate"} /\ ~loc[w].mine
    BY <1>0, <1>1 DEF ReadEvent, FindDuplicate, RunFits, Before
  <2>3. RunFits(p, loc[w])
    BY <1>0, <2>1, <2>2 DEF RunFits, WorkerSteps, Lookup, Ensuring, AfterStore, MessageAt
  <2>4. \A m : ~Carries(pc[w], loc[w], m)
    BY <2>2 DEF Carries
  <2>5. QED
    BY <1>0, <1>1, <2>1, <2>3, <2>4, RunMoves DEF ReadEvent, FindDuplicate
<1>2. CASE ResolveCustomer(w)
  <2> DEFINE l == [loc[w] EXCEPT !.then = "store"]
  <2>1. l.mine = loc[w].mine /\ l.delivery = loc[w].delivery /\ l.then = "store"
    BY <1>0 DEF Inv, TypeInv, TypeOK, Locals
  <2>2. pc[w] = "customer" /\ ~loc[w].mine
    BY <1>0, <1>2 DEF ResolveCustomer, RunFits, Before
  <2>3. pc' = [pc EXCEPT ![w] = "assignee"] /\ loc' = [loc EXCEPT ![w] = l]
    BY <1>2 DEF ResolveCustomer
  <2> HIDE DEF l
  <2>4. RunFits("assignee", l)
    BY <2>1, <2>2 DEF RunFits, WorkerSteps, Lookup, Ensuring, AfterStore, Before
  <2>5. \A m : ~Carries(pc[w], loc[w], m)
    BY <2>2 DEF Carries
  <2>6. QED
    BY <1>2, <2>1, <2>3, <2>4, <2>5, RunMoves DEF ResolveCustomer
<1>3. CASE CloseEvent(w)
  <2>1. RunFits("finish", loc[w])
    BY <1>0, <1>3 DEF CloseEvent, RunFits, WorkerSteps, Ensuring, AfterStore, Before
  <2>2. ~Unstored(MessageOf[loc[w].delivery]) /\ \A m : ~Carries(pc[w], loc[w], m)
    BY <1>0, <1>3 DEF CloseEvent, RunFits, Carries, Ensuring, AfterStore
  <2>3. \A d \in Deliveries : event'[d] \in Final => event[d] \in Final \/ d = loc[w].delivery
    BY <1>3 DEF CloseEvent, Inv, TypeInv, TypeOK
  <2>4. QED
    BY <1>0, <1>3, <2>1, <2>2, <2>3, RunMoves DEF CloseEvent
<1>4. CASE MarkFailed(w)
  <2>1. RunFits("giveUp", loc[w])
    BY <1>0, <1>4 DEF MarkFailed, RunFits, WorkerSteps, Ensuring, AfterStore, Before
  <2>2. \A m : ~Carries(pc[w], loc[w], m)
    BY <1>4 DEF MarkFailed, Carries, Ensuring, AfterStore
  <2>3. \A d \in Deliveries : event'[d] \in Final => event[d] \in Final
    BY <1>4 DEF MarkFailed, Inv, TypeInv, TypeOK, Final
  <2>4. QED
    BY <1>0, <1>4, <2>1, <2>2, <2>3, RunMoves DEF MarkFailed
<1>5. ASSUME NEW r \in BOOLEAN, Keep(w, [loc[w] EXCEPT !.retryable = r]),
             NEW p \in {"giveUp", "markFailed"}, Go(w, p),
             UNCHANGED <<event, home, counted, announced, optedOut>>,
             \/ pc[w] = "markFailed" /\ UNCHANGED cut
             \/ CutShort(w)
      PROVE  Inv'
  <2> DEFINE l == [loc[w] EXCEPT !.retryable = r]
  <2>1. l.mine = loc[w].mine /\ l.delivery = loc[w].delivery
    BY <1>0 DEF Inv, TypeInv, TypeOK, Locals
  <2>2. pc' = [pc EXCEPT ![w] = p] /\ loc' = [loc EXCEPT ![w] = l]
    BY <1>5
  <2> HIDE DEF l
  <2>3. RunFits(p, l)
    BY <1>0, <1>5, <2>1 DEF RunFits, WorkerSteps, Ensuring, AfterStore, Before
  <2>4. cut \subseteq cut' /\ \A m \in Messages : Carries(pc[w], loc[w], m) => m \in cut'
    BY <1>5 DEF CutShort, Carries, Ensuring, AfterStore, MessageAt
  <2>5. QED
    BY <1>5, <2>1, <2>2, <2>3, <2>4, RunMoves
<1>6. CASE MarkFailedFails(w)
  BY <1>5, <1>6 DEF MarkFailedFails
<1>7. CASE HandlerFails(w)
  BY <1>5, <1>7 DEF HandlerFails
<1>8. QED
  BY <1>1, <1>2, <1>3, <1>4, <1>6, <1>7

\* A run that ensures the conversation goes on to store or to count its message.
LEMMA EnsureKeeps ==
  ASSUME Inv, TypeInv', NEW t \in Threads, Ensure(t)
  PROVE  Inv'
<1>1. CASE t \notin Workers
  <2>1. UNCHANGED <<home, history, optedOut, event>>
    BY DEF Ensure, ReadAssignee, UpsertConversation
  <2>2. \A w \in Workers : pc'[w] = pc[w] /\ loc'[w] = loc[w]
    BY <1>1 DEF Ensure, ReadAssignee, UpsertConversation, Inv, TypeInv, TypeOK, Threads
  <2>3. QED
    BY <2>1, <2>2, NoRunMoves
<1>2. CASE t \in Workers
  <2>0. RunFits(pc[t], loc[t]) /\ loc[t] \in Locals
    BY <1>2 DEF Inv, TypeInv, TypeOK, RunsFit
  <2>1. CASE ReadAssignee(t)
    <3> DEFINE l == [loc[t] EXCEPT !.seen = assignee]
    <3>1. l.mine = loc[t].mine /\ l.delivery = loc[t].delivery /\ l.then = loc[t].then
      BY <2>0 DEF Locals
    <3>2. pc' = [pc EXCEPT ![t] = "upsert"] /\ loc' = [loc EXCEPT ![t] = l]
      BY <2>1 DEF ReadAssignee
    <3> HIDE DEF l
    <3>3. RunFits("upsert", l)
      BY <2>0, <2>1, <3>1 DEF ReadAssignee, RunFits, WorkerSteps, Lookup, Ensuring, AfterStore,
                              Before
    <3>4. \A m \in Messages : Carries(pc[t], loc[t], m) => Carries("upsert", l, m)
      BY <3>1 DEF Carries, Ensuring
    <3>5. QED
      BY <1>2, <2>1, <3>1, <3>2, <3>3, <3>4, RunMoves DEF ReadAssignee
  <2>2. CASE UpsertConversation(t)
    <3> DEFINE l == [loc[t] EXCEPT !.conv = active']
    <3>1. /\ l.mine = loc[t].mine /\ l.delivery = loc[t].delivery
          /\ l.then = loc[t].then /\ l.conv = active'
      BY <2>0 DEF Locals
    <3>2. loc[t].then = IF loc[t].mine THEN "count" ELSE "store"
      BY <2>0, <2>2 DEF UpsertConversation, RunFits, Ensuring
    <3>3. pc' = [pc EXCEPT ![t] = loc[t].then] /\ loc' = [loc EXCEPT ![t] = l]
      BY <2>2, <3>2 DEF UpsertConversation
    <3>4. active' # 0
      BY <2>2, LenProperties DEF UpsertConversation, Inv, TypeInv, TypeOK
    <3> HIDE DEF l
    <3>5. RunFits(loc[t].then, l)
      BY <2>0, <2>2, <3>1, <3>2, <3>4
      DEF UpsertConversation, RunFits, WorkerSteps, Lookup, Ensuring, AfterStore, Before
    <3>6. \A m \in Messages : Carries(pc[t], loc[t], m) => Carries(loc[t].then, l, m)
      BY <3>1, <3>2 DEF Carries, AfterStore
    <3>7. QED
      BY <1>2, <2>2, <3>1, <3>3, <3>5, <3>6, RunMoves DEF UpsertConversation
  <2>3. QED
    BY <2>1, <2>2 DEF Ensure
<1>3. QED
  BY <1>1, <1>2

\* A run stores a message that has no row, and it alone has then stored it.
LEMMA StoreKeeps ==
  ASSUME Inv, TypeInv', NEW w \in Workers, StoreMessage(w)
  PROVE  Inv'
<1>. PICK m : m = MessageAt(w)
  OBVIOUS
<1>0. /\ w \in Threads /\ loc = [loc EXCEPT ![w] = loc[w]] /\ loc[w] \in Locals
      /\ RunFits(pc[w], loc[w]) /\ loc[w].delivery \in Deliveries /\ m \in Messages
      /\ ~loc[w].mine /\ loc[w].conv # 0
  BY DEF StoreMessage, Inv, TypeInv, TypeOK, JobsKnown, Threads, RunsFit, RunFits, Before,
         MessageAt, Messages
<1>1. CASE ~Unstored(m)
  <2>1. /\ pc' = [pc EXCEPT ![w] = "close"] /\ UNCHANGED loc /\ UNCHANGED home
    BY <1>1 DEF StoreMessage
  <2>2. RunFits("close", loc[w])
    BY <1>0, <1>1 DEF RunFits, WorkerSteps, Ensuring, AfterStore, Before, MessageAt
  <2>3. \A n : ~Carries(pc[w], loc[w], n)
    BY <1>0 DEF Carries
  <2>4. QED
    BY <1>0, <2>1, <2>2, <2>3, RunMoves DEF StoreMessage
<1>2. CASE Unstored(m)
  <2>. PICK l : l = [loc[w] EXCEPT !.mine = TRUE, !.then = "count", !.verdict = "PROCESSED"]
    OBVIOUS
  <2>1. l.mine /\ l.delivery = loc[w].delivery /\ l.then = "count"
    BY <1>0 DEF Locals
  <2>2. pc' = [pc EXCEPT ![w] = "assignee"] /\ loc' = [loc EXCEPT ![w] = l]
    BY <1>2 DEF StoreMessage
  <2>3. home' = [home EXCEPT ![m] = loc[w].conv]
    BY <1>2 DEF StoreMessage
  <2>4. ~Unstored(m)' /\ \A n \in Messages : n # m => (Unstored(n)' <=> Unstored(n))
    BY <1>0, <2>3 DEF Unstored, Inv, TypeInv, TypeOK, MessageAt
  <2>5. counted[m] = 0 /\ announced[m] = 0
    BY <1>0, <1>2 DEF Inv, Settled
  <2>6. UNCHANGED <<counted, announced, cut, optedOut, event>>
    BY DEF StoreMessage
  <2>7. RunFits("assignee", l)'
    <3>1. ~Unstored(MessageOf[l.delivery])' /\ counted'[m] = 0 /\ announced'[m] = 0
      BY <2>1, <2>4, <2>5, <2>6 DEF MessageAt, Unstored
    <3>2. QED
      BY <1>0, <2>1, <3>1 DEF RunFits, WorkerSteps, Lookup, Ensuring, AfterStore, Before, MessageAt
  <2>8. RunsFit' /\ OneStorer'
    <3>1. l.mine => Unstored(MessageOf[l.delivery])
      BY <1>2, <2>1 DEF MessageAt
    <3>2. \A n \in Messages : ~Unstored(n) => ~Unstored(n)'
      BY <2>4
    <3>3. QED
      BY <2>2, <2>6, <2>7, <3>1, <3>2, OneRunMoves DEF Inv
  <2>9. Settled'
    <3>1. \A n \in Messages : Unstored(n)' => counted'[n] = 0 /\ announced'[n] = 0
      BY <2>4, <2>6 DEF Inv, Settled
    <3>2. Carries("assignee", l, m) /\ \A n : ~Carries(pc[w], loc[w], n)
      BY <1>0, <2>1 DEF Carries, Ensuring, MessageAt
    <3>3. \A n \in Messages : ~Unstored(n)' /\ n \notin cut' =>
            \/ /\ ~Unstored(n) /\ n \notin cut
               /\ counted'[n] = counted[n] /\ announced'[n] = announced[n]
               /\ ~Carries(pc[w], loc[w], n)
            \/ Carries("assignee", l, n)
      BY <2>4, <2>6, <3>2
    <3>4. QED
      BY <2>2, <2>6, <3>1, <3>3, OneRunSettles DEF Inv
  <2>10. ClosedIsStored'
    BY <2>4, <2>6 DEF Inv, ClosedIsStored, Messages
  <2>11. QED
    BY <2>8, <2>9, <2>10 DEF Inv
<1>3. QED
  BY <1>1, <1>2

\* What the three steps after the store have in common: the run has stored its
\* message m and changes the counters of m alone.
LEMMA FollowKeeps ==
  ASSUME Inv, TypeInv', NEW w \in Workers, pc[w] \in AfterStore, NEW p,
         pc' = [pc EXCEPT ![w] = p], UNCHANGED <<loc, home, cut, event>>,
         optedOut => optedOut',
         \A n \in Messages : n # MessageAt(w) =>
           counted'[n] = counted[n] /\ announced'[n] = announced[n],
         RunFits(p, loc[w])',
         p \in AfterStore \/ Done(MessageAt(w))'
  PROVE  Inv'
<1> DEFINE m == MessageAt(w)
<1>1. /\ loc' = [loc EXCEPT ![w] = loc[w]]
      /\ loc[w].mine /\ m \in Messages /\ ~Unstored(m)
  BY DEF Inv, TypeInv, TypeOK, Threads, RunsFit, RunFits, MessageAt, Messages
<1>2. \A n \in Messages : Unstored(n)' <=> Unstored(n)
  BY DEF Unstored
<1>3. RunsFit' /\ OneStorer'
  BY <1>1, <1>2, OneRunMoves DEF Inv
<1>4. Settled'
  <2>1. \A n \in Messages : Unstored(n)' => counted'[n] = 0 /\ announced'[n] = 0
    BY <1>1, <1>2 DEF Inv, Settled
  <2>2. p \in AfterStore => Carries(p, loc[w], m)
    BY <1>1 DEF Carries, MessageAt
  <2>3. \A n : Carries(pc[w], loc[w], n) => n = m
    BY DEF Carries, MessageAt
  <2>4. \A n \in Messages : ~Unstored(n)' /\ n \notin cut' =>
            \/ /\ ~Unstored(n) /\ n \notin cut
               /\ counted'[n] = counted[n] /\ announced'[n] = announced[n]
               /\ ~Carries(pc[w], loc[w], n)
            \/ Carries(p, loc[w], n) \/ Done(n)'
    <3>1. SUFFICES ASSUME NEW n \in Messages, ~Unstored(n)', n \notin cut', n # m
                   PROVE  /\ ~Unstored(n) /\ n \notin cut
                          /\ counted'[n] = counted[n] /\ announced'[n] = announced[n]
                          /\ ~Carries(pc[w], loc[w], n)
      BY <2>2 DEF Done, MessageAt
    <3>2. QED
      BY <1>2, <2>3, <3>1
  <2>5. QED
    BY <1>1, <2>1, <2>4, OneRunSettles DEF Inv
<1>5. ClosedIsStored'
  BY DEF Inv, ClosedIsStored, Unstored
<1>6. QED
  BY <1>3, <1>4, <1>5 DEF Inv

LEMMA AfterKeeps ==
  ASSUME Inv, TypeInv', NEW w \in Workers,
         CountMessage(w) \/ ApplyOptOut(w) \/ Announce(w)
  PROVE  Inv'
<1> DEFINE m == MessageAt(w)
<1>0. /\ RunFits(pc[w], loc[w]) /\ pc[w] \in {"count", "optOut", "announce"}
      /\ loc[w].mine /\ loc[w].delivery \in Deliveries /\ m \in Messages /\ ~Unstored(m)
  BY DEF Inv, RunsFit, RunFits, AfterStore, CountMessage, ApplyOptOut, Announce, MessageAt,
         Messages
<1>1. CASE CountMessage(w)
  <2>. PICK p : p = IF m \in OptOutTexts THEN "optOut" ELSE "announce"
    OBVIOUS
  <2>1. /\ counted'[m] = 1 /\ announced'[m] = 0
        /\ \A n \in Messages : n # m => counted'[n] = counted[n]
    BY <1>0, <1>1 DEF CountMessage, RunFits, Ensuring, MessageAt, Inv, TypeInv, TypeOK
  <2>2. RunFits(p, loc[w])'
    BY <1>0, <1>1, <2>1
    DEF CountMessage, RunFits, Unstored, WorkerSteps, AfterStore, Ensuring, Before, MessageAt
  <2>3. QED
    BY <1>0, <1>1, <2>1, <2>2, FollowKeeps DEF CountMessage, AfterStore
<1>2. CASE ApplyOptOut(w)
  <2>1. RunFits("announce", loc[w])'
    BY <1>0, <1>2
    DEF ApplyOptOut, RunFits, Unstored, WorkerSteps, AfterStore, Ensuring, Before, MessageAt
  <2>2. QED
    BY <1>0, <1>2, <2>1, FollowKeeps DEF ApplyOptOut, AfterStore
<1>3. CASE Announce(w)
  <2>1. /\ counted'[m] = 1 /\ announced'[m] = 1
        /\ \A n \in Messages : n # m => announced'[n] = announced[n]
        /\ m \in OptOutTexts => optedOut
    BY <1>0, <1>3 DEF Announce, RunFits, MessageAt, Inv, TypeInv, TypeOK
  <2>2. RunFits("close", loc[w])'
    BY <1>0, <1>3
    DEF Announce, RunFits, Unstored, WorkerSteps, AfterStore, Ensuring, Before, MessageAt
  <2>3. Done(m)'
    BY <1>3, <2>1 DEF Announce, Done, MessageAt
  <2>4. QED
    BY <1>0, <1>3, <2>1, <2>2, <2>3, FollowKeeps DEF Announce, AfterStore
<1>4. QED
  BY <1>1, <1>2, <1>3

\* Every step keeps the invariant.
LEMMA NextKeeps == Inv /\ [Next]_vars => Inv'
<1> SUFFICES ASSUME Inv, [Next]_vars PROVE Inv'
  OBVIOUS
<1>0. TypeInv'
  BY NextTyped DEF Inv
<1>1. CASE UNCHANGED vars
  BY <1>0, <1>1, NoRunMoves DEF vars
<1>2. CASE \E d \in Deliveries :
             Receive(d) \/ EnqueueEvent(d) \/ EnqueueFails(d) \/ JobStalls(d)
  <2>1. UNCHANGED <<home, history, optedOut, pc, loc>>
    BY <1>2 DEF Receive, EnqueueEvent, EnqueueFails, JobStalls
  <2>2. \A d \in Deliveries : event'[d] \in Final => event[d] \in Final
    BY <1>2 DEF Receive, EnqueueEvent, EnqueueFails, JobStalls, Final, Inv, TypeInv, TypeOK
  <2>3. QED
    BY <1>0, <2>1, <2>2, NoRunMoves
<1>3. CASE \E w \in Workers :
             \/ \E d \in Deliveries : TakeJob(w, d)
             \/ Work(w) \/ ReadEventFails(w) \/ HandlerFails(w) \/ MarkFailedFails(w) \/ Crash(w)
  BY <1>0, <1>3, EndsKeep, StepsKeep, StoreKeeps, AfterKeeps DEF Work
<1>4. CASE \E t \in Threads : Ensure(t)
  BY <1>0, <1>4, EnsureKeeps
<1>5. CASE \E a \in Agents : Serve(a) \/ OpenConversation(a) \/ AskRead(a) \/ AskStatus(a)
  <2>1. PICK a \in Agents : Serve(a) \/ OpenConversation(a) \/ AskRead(a) \/ AskStatus(a)
    BY <1>5
  <2>2. \A w \in Workers : w # a
    BY ConstantsAssumption DEF ConstantsAssumption
  <2>3. UNCHANGED <<event, home, history, optedOut>>
    BY <2>1 DEF Serve, ClearUnread, SetStatus, OpenConversation, AskRead, AskStatus,
                AskConversation
  <2>4. \A w \in Workers : pc'[w] = pc[w] /\ loc'[w] = loc[w]
    BY <2>1, <2>2 DEF Serve, ClearUnread, SetStatus, OpenConversation, AskRead, AskStatus,
                      AskConversation, Inv, TypeInv, TypeOK, Threads
  <2>5. QED
    BY <1>0, <2>3, <2>4, NoRunMoves
<1>6. CASE CloseConversation \/ \E e \in Assignees : Reassign(e)
  BY <1>0, <1>6, NoRunMoves DEF CloseConversation, Reassign
<1>7. QED
  BY <1>1, <1>2, <1>3, <1>4, <1>5, <1>6 DEF Next

\* The invariant holds at the start.
LEMMA InitInv == Init => Inv
<1> SUFFICES ASSUME Init PROVE Inv
  OBVIOUS
<1>1. \A w \in Workers : pc[w] = "idle" /\ loc[w] = Blank
  BY DEF Init, Threads
<1>2. RunsFit /\ OneStorer
  BY <1>1, BlankTyped DEF RunsFit, RunFits, OneStorer, Ensuring, AfterStore
<1>3. Settled /\ ClosedIsStored
  BY DEF Init, Settled, ClosedIsStored, Unstored, Final
<1>4. QED
  BY <1>2, <1>3, InitTyped DEF Inv

-----------------------------------------------------------------------------
\* No message is given up as handled: an event that is closed has its message
\* in the database, and a stored message on which nobody works was counted,
\* announced and obeyed, unless the run that stored it was cut short.
THEOREM AllHandledInFull == Spec => []HandledInFull
<1>1. ASSUME Inv PROVE HandledInFull
  <2>1. \A w \in Workers, m \in Messages : Carries(pc[w], loc[w], m) => AtWork(m)
    <3>1. SUFFICES ASSUME NEW w \in Workers, NEW m \in Messages, Carries(pc[w], loc[w], m)
                   PROVE  AtWork(m)
      OBVIOUS
    <3>2. pc[w] \notin {"idle", "finish"} /\ MessageAt(w) = m
      BY <3>1 DEF Carries, Ensuring, AfterStore, MessageAt
    <3>3. loc[w].delivery # NoDelivery
      BY <1>1, <3>2, ConstantsAssumption DEF Inv, TypeInv, JobsKnown, ConstantsAssumption
    <3>4. QED
      BY <3>2, <3>3 DEF AtWork
  <2>2. QED
    BY <1>1, <2>1 DEF Inv, Settled, ClosedIsStored, Done, HandledInFull
<1>2. QED
  BY <1>1, InitInv, NextKeeps, PTL DEF Spec

\* Every step of the inbox is a step of InboundOnce or none.
LEMMA NextPromised == Inv /\ [Next]_vars => [Promise!Next]_Promise!vars
<1> SUFFICES ASSUME Inv, [Next]_vars PROVE [Promise!Next]_Promise!vars
  OBVIOUS
<1>1. CASE UNCHANGED <<home, counted, announced>>
  BY <1>1 DEF Promise!vars, Unstored
<1>2. ASSUME NEW w \in Workers, StoreMessage(w) PROVE [Promise!Next]_Promise!vars
  <2>. PICK m : m = MessageAt(w)
    OBVIOUS
  <2>1. /\ loc[w].delivery \in Deliveries /\ m \in Messages /\ loc[w].conv # 0
        /\ UNCHANGED <<counted, announced>>
    BY <1>2 DEF StoreMessage, Inv, TypeInv, JobsKnown, MessageAt, Messages, RunsFit, RunFits
  <2>2. CASE ~Unstored(m)
    BY <1>1, <1>2, <2>2 DEF StoreMessage
  <2>3. CASE Unstored(m)
    <3>1. home' = [home EXCEPT ![m] = loc[w].conv]
      BY <1>2, <2>3 DEF StoreMessage
    <3>2. ~Unstored(m)' /\ \A n \in Messages : n # m => (Unstored(n)' <=> Unstored(n))
      BY <2>1, <3>1 DEF Unstored, Inv, TypeInv, TypeOK
    <3>3. Promise!Store(m)
      BY <2>1, <2>3, <3>2 DEF Promise!Store
    <3>4. QED
      BY <2>1, <3>3 DEF Promise!Next
  <2>4. QED
    BY <2>2, <2>3
<1>3. ASSUME NEW w \in Workers, CountMessage(w) \/ Announce(w)
      PROVE  [Promise!Next]_Promise!vars
  <2>. PICK m : m = MessageAt(w)
    OBVIOUS
  <2>1. /\ RunFits(pc[w], loc[w]) /\ pc[w] \in {"count", "announce"}
        /\ loc[w].mine /\ m \in Messages /\ ~Unstored(m) /\ UNCHANGED home
    BY <1>3 DEF CountMessage, Announce, Inv, RunsFit, RunFits, AfterStore, MessageAt, Messages
  <2>2. UNCHANGED {n \in Messages : ~Unstored(n)}
    BY <2>1 DEF Unstored
  <2>3. CASE CountMessage(w)
    <3>1. counted[m] = 0 /\ counted[m] + 1 = 1
      BY <2>1, <2>3 DEF CountMessage, RunFits, Ensuring, MessageAt
    <3>2. counted' = [counted EXCEPT ![m] = counted[m] + 1] /\ UNCHANGED announced
      BY <2>3 DEF CountMessage
    <3>3. Promise!Count(m)
      BY <2>1, <2>2, <3>1, <3>2 DEF Promise!Count
    <3>4. QED
      BY <2>1, <3>3 DEF Promise!Next
  <2>4. CASE Announce(w)
    <3>1. counted[m] = 1 /\ announced[m] = 0 /\ announced[m] + 1 = 1
      BY <2>1, <2>4 DEF Announce, RunFits, MessageAt
    <3>2. announced' = [announced EXCEPT ![m] = announced[m] + 1] /\ UNCHANGED counted
      BY <2>4 DEF Announce
    <3>3. Promise!Announce(m)
      BY <2>1, <2>2, <3>1, <3>2 DEF Promise!Announce
    <3>4. QED
      BY <2>1, <3>3 DEF Promise!Next
  <2>5. QED
    BY <1>3, <2>3, <2>4
<1>4. \/ UNCHANGED <<home, counted, announced>>
      \/ \E w \in Workers : StoreMessage(w) \/ CountMessage(w) \/ Announce(w)
  <2>1. CASE UNCHANGED vars
    BY <2>1 DEF vars
  <2>2. CASE Next
    BY <2>2 DEF Next, Receive, EnqueueEvent, EnqueueFails, JobStalls, TakeJob, Work, ReadEvent,
       MarkFailed, GiveUp, Retry, Complete, CloseEvent, Finish, FindDuplicate, ResolveCustomer,
       ApplyOptOut, ReadEventFails, HandlerFails, MarkFailedFails, Crash, Ensure, ReadAssignee,
       UpsertConversation, Serve, ClearUnread, SetStatus, OpenConversation, AskRead, AskStatus,
       AskConversation, CloseConversation, Reassign
  <2>3. QED
    BY <2>1, <2>2
<1>5. QED
  BY <1>1, <1>2, <1>3, <1>4

\* The inbox keeps the promise of InboundOnce: however often a message is
\* delivered and however its runs fail and repeat, it is stored, counted and
\* announced at most once, in this order.
THEOREM InboundPromiseKept == Spec => ImplementsInboundOnce
<1>1. Init => Promise!Init
  BY DEF Init, Promise!Init, Unstored
<1>2. QED
  BY <1>1, InitInv, NextKeeps, NextPromised, PTL DEF Spec, ImplementsInboundOnce, Promise!Spec
=============================================================================
