--------------------------- MODULE OutboundProofs ---------------------------
(***************************************************************************)
(* Proofs about Outbound: type correctness, how often a direct message can   *)
(* be sent, what a message shown as FAILED says, and that a blocked customer *)
(* is written to no more, for all requests, workers, attempts and failures.  *)
(***************************************************************************)
EXTENDS Outbound, FiniteSetTheorems, TLAPS

USE DEF customer, row, queue, worker, history, Go, Goto, Knows

(***************************************************************************)
(* The inductive invariant.                                               *)
(***************************************************************************)

\* A run that has something to store has sent it; a busy worker has a message.
LocalsFit ==
  \A w \in Workers :
    IF pc[w] = "idle" THEN loc[w] = Blank
    ELSE /\ loc[w].request \in Requests /\ job[loc[w].request] # "none"
         /\ pc[w] = "store" => loc[w].sent > 0

TypeInv == TypeOK /\ LocalsFit

\* Until its job is added, or its template sent, a request has sent nothing; a
\* template has no job.
Untouched(r) ==
  /\ at[r] \in {"new", "record", "post"} => status[r] = "none"
  /\ at[r] = "recordSent" => job[r] = "none" /\ accepted[r] > 0
  /\ at[r] \in {"new", "record", "enqueue", "post"} => job[r] = "none" /\ accepted[r] = 0
  /\ at[r] = "refuse" /\ why[r]["unanswered"] = 0 => job[r] = "none" /\ accepted[r] = 0

\* A message is Open while a run that loads it would send it.
Open(r) == status[r] \in {"none", "QUEUED"}

\* The sends that may follow without a new reason: one of the job itself, if a
\* run of it is still to load an open message...
JobAt(r) ==
  \/ job[r] = "none" /\ accepted[r] = 0
  \/ job[r] = "waiting"
  \/ job[r] = "active" /\ (loc[owner[r]].request = r => pc[owner[r]] \in {"load", "finish"})

Ready(r) == Open(r) /\ JobAt(r)

\* ... and one of each run that is past its load, or has lost its job.
Running(r, w) ==
  /\ loc[w].request = r
  /\ \/ pc[w] \in SendSteps \union {"error", "markFailed"}
     \/ pc[w] = "load" /\ owner[r] # w

Runs(r) == {w \in Workers : Running(r, w)}

Bit(b) == IF b THEN 1 ELSE 0
Credit(r) == 1 + why[r]["lost"] + why[r]["overlap"] + why[r]["unknown"]
Counted(r) == accepted[r] + Cardinality(Runs(r)) + Bit(Ready(r)) <= Credit(r)

\* A message without a reason to doubt it has one run, that of the worker that
\* holds its job; the run has sent nothing before it is to store, and stores what
\* it has sent before the message is anything but QUEUED.
Doubtless(r) == \A reason \in Reasons : why[r][reason] = 0

RunFits(r, w) ==
  /\ owner[r] = w
  /\ pc[w] \in SendSteps \union {"error", "markFailed"} => accepted[r] = 0
  /\ pc[w] \in SendSteps \union {"store"} => status[r] = "QUEUED" /\ sentId[r] = 0

StoredInTime(r) ==
  Doubtless(r) =>
    /\ \A w \in Workers : loc[w].request = r => RunFits(r, w)
    /\ status[r] = "QUEUED" /\ accepted[r] > 0 =>
         \E w \in Workers : loc[w].request = r /\ pc[w] = "store"
    /\ status[r] = "FAILED" => accepted[r] = 0

\* Only what was sent is named, stored or reported.
NamedWasSent(r) ==
  /\ sentId[r] > 0 => accepted[r] > 0
  /\ \A s \in ReceiptStatus : <<r, s>> \in receipts => sentId[r] > 0
  /\ \A w \in Workers : loc[w].request = r /\ pc[w] = "store" => accepted[r] > 0

Accounted(r) == Untouched(r) /\ Counted(r) /\ StoredInTime(r) /\ NamedWasSent(r)
Inv == TypeInv /\ \A r \in Requests : Accounted(r)

\* Who was barred and is still blocked is in nobody's hands.
BarredNotInFlight == blocked => \A r \in barred : ~InFlight(r)

(***************************************************************************)
(* Type correctness.                                                      *)
(***************************************************************************)

\* What a step of BullMQ does to the jobs: it touches one of them, keeps the
\* types, and forgets no job.
LEMMA QueueStep ==
  ASSUME Queue!TypeOK, NEW r \in Requests, NEW w \in Workers,
         \/ Queue!Add(r) \/ Queue!Take(w, r) \/ Queue!Stall(r)
         \/ Queue!Complete(w, r) \/ Queue!Fail(w, r)
  PROVE  /\ Queue!TypeOK'
         /\ \A q \in Requests : job[q] # "none" => job'[q] # "none"
         /\ \A q \in Requests \ {r} : job'[q] = job[q] /\ owner'[q] = owner[q]
<1> USE ConstantsAssumption DEF ConstantsAssumption, Queue!TypeOK, Queue!State
<1>1. CASE Queue!Add(r)
  BY <1>1 DEF Queue!Add
<1>2. CASE Queue!Take(w, r)
  BY <1>2 DEF Queue!Take
<1>3. CASE Queue!Stall(r)
  BY <1>3 DEF Queue!Stall
<1>4. CASE Queue!Complete(w, r)
  BY <1>4 DEF Queue!Complete, Queue!Move
<1>5. CASE Queue!Fail(w, r)
  BY <1>5 DEF Queue!Fail, Queue!Move
<1>6. QED
  BY <1>1, <1>2, <1>3, <1>4, <1>5

\* A run begins and ends knowing nothing.
LEMMA BlankTyped ==
  /\ Blank \in Locals /\ Blank.request = NoRequest /\ Blank.sent = 0
  /\ \A r \in Requests : /\ [Blank EXCEPT !.request = r] \in Locals
                          /\ [Blank EXCEPT !.request = r].request = r
  BY DEF Blank, Locals

\* A further reason is counted.
LEMMA WhyTyped ==
  ASSUME why \in [Requests -> [Reasons -> Nat]], NEW r \in Requests, NEW reason \in Reasons,
         Because(r, reason)
  PROVE  /\ why' \in [Requests -> [Reasons -> Nat]]
         /\ why'[r][reason] = why[r][reason] + 1
         /\ \A q \in Requests, other \in Reasons :
              q # r \/ other # reason => why'[q][other] = why[q][other]
<1> DEFINE ws == [why[r] EXCEPT ![reason] = @ + 1]
<1>1. /\ ws \in [Reasons -> Nat] /\ ws[reason] = why[r][reason] + 1
      /\ \A other \in Reasons \ {reason} : ws[other] = why[r][other]
  OBVIOUS
<1>2. why' = [why EXCEPT ![r] = ws]
  BY DEF Because
<1> HIDE DEF ws
<1>3. QED
  BY <1>1, <1>2

\* An event is spent.
LEMMA SpendTyped ==
  ASSUME left \in [Events -> Nat], NEW e \in Events, Spend(e)
  PROVE  left' \in [Events -> Nat]
  BY DEF Spend

\* Runs that stay where they are go on fitting while no job is forgotten.
LEMMA LocalsStay ==
  ASSUME TypeInv, UNCHANGED worker,
         \A q \in Requests : job[q] # "none" => job'[q] # "none"
  PROVE  LocalsFit'
  BY DEF TypeInv, LocalsFit

\* A request and the receipts keep the types.
LEMMA RequestTyped ==
  ASSUME TypeInv, NEW r \in Requests,
         \/ AskReply(r) \/ AskVoice(r) \/ AskQuick(r) \/ AskTemplate(r)
         \/ Serve(r) \/ EnqueueFails(r) \/ RequestFails(r)
         \/ \E s \in ReceiptStatus : FindReceipt(r, s) \/ StoreReceipt(r, s)
  PROVE  TypeInv'
<1> USE DEF TypeInv, TypeOK, RequestSteps, Accept, Queue!TypeOK
<1>1. CASE AskReply(r) \/ AskVoice(r) \/ AskQuick(r) \/ AskTemplate(r)
  BY <1>1, LocalsStay DEF AskReply, AskVoice, AskQuick, AskTemplate, Ask
<1>2. CASE CreateRecord(r) \/ MarkEnqueueFailed(r) \/ PostTemplate(r) \/ RecordSentTemplate(r)
  <2>1. CASE CreateRecord(r) \/ MarkEnqueueFailed(r)
    BY <2>1, LocalsStay DEF CreateRecord, MarkEnqueueFailed, Status
  <2>2. CASE PostTemplate(r)
    BY <2>2, LocalsStay DEF PostTemplate
  <2>3. CASE RecordSentTemplate(r)
    BY <2>3, LocalsStay DEF RecordSentTemplate, Status, Sent
  <2>4. QED
    BY <1>2, <2>1, <2>2, <2>3
<1>3. ASSUME Queue!Add(r)
      PROVE  Queue!TypeOK' /\ (UNCHANGED worker => LocalsFit')
  <2>1. \A q \in Requests : job[q] # "none" => job'[q] # "none"
    BY <1>3 DEF Queue!Add
  <2>2. Queue!TypeOK'
    BY <1>3 DEF Queue!Add, Queue!State
  <2>3. QED
    BY <2>1, <2>2, LocalsStay
<1>4. CASE Enqueue(r)
  BY <1>3, <1>4 DEF Enqueue
<1>5. CASE EnqueueFails(r)
  <2>1. CASE Queue!Add(r) /\ Because(r, "unanswered")
    <3>1. why' \in [Requests -> [Reasons -> Nat]]
      BY <2>1, WhyTyped DEF Reasons
    <3>2. left' \in [Events -> Nat]
      BY <1>5, SpendTyped DEF EnqueueFails, Events
    <3>3. QED
      BY <1>3, <1>5, <2>1, <3>1, <3>2 DEF EnqueueFails
  <2>2. CASE UNCHANGED <<queue, why>>
    BY <1>5, <2>2, LocalsStay, SpendTyped DEF EnqueueFails, Events
  <2>3. QED
    BY <1>5, <2>1, <2>2 DEF EnqueueFails
<1>6. CASE RequestFails(r)
  <2>1. accepted' \in [Requests -> Nat]
    BY <1>6 DEF RequestFails
  <2>2. left' \in [Events -> Nat]
    BY <1>6, SpendTyped DEF RequestFails, Events
  <2>3. QED
    BY <1>6, <2>1, <2>2, LocalsStay DEF RequestFails
<1>7. ASSUME NEW s \in ReceiptStatus, FindReceipt(r, s) PROVE TypeInv'
  BY <1>7, LocalsStay, SpendTyped DEF FindReceipt, Events
<1>8. ASSUME NEW s \in ReceiptStatus, StoreReceipt(r, s) PROVE TypeInv'
  <2>1. why' \in [Requests -> [Reasons -> Nat]]
    BY <1>8, WhyTyped DEF StoreReceipt, Reasons
  <2>2. s \in Status
    BY DEF ReceiptStatus, Status, Sent
  <2>3. QED
    BY <1>8, <2>1, <2>2, LocalsStay DEF StoreReceipt
<1>9. QED
  BY <1>1, <1>2, <1>4, <1>5, <1>6, <1>7, <1>8 DEF Serve

\* The worker.
LEMMA WorkerTyped ==
  ASSUME TypeInv, NEW w \in Workers,
         \/ \E r \in Requests : TakeJob(w, r)
         \/ Run(w) \/ CallFails(w) \/ StoreFails(w) \/ JobFails(w) \/ Crash(w)
  PROVE  TypeInv'
<1> USE DEF TypeInv, TypeOK, Queue!TypeOK
<1> DEFINE m == loc[w].request
<1>0. /\ loc[w] \in Locals /\ Blank \in Locals
      /\ pc[w] # "idle" => m \in Requests
  BY BlankTyped DEF LocalsFit
<1>1. ASSUME Leave(w), \A q \in Requests : job[q] # "none" => job'[q] # "none"
      PROVE  pc' \in [Workers -> WorkerSteps] /\ loc' \in [Workers -> Locals] /\ LocalsFit'
  BY <1>0, <1>1 DEF Leave, LocalsFit, WorkerSteps
<1>2. ASSUME pc[w] # "idle", NEW step \in WorkerSteps \ {"idle"}, Go(w, step),
             NEW l \in Locals, Knows(w, l), l.request = m,
             step = "store" => l.sent > 0, UNCHANGED job
      PROVE  pc' \in [Workers -> WorkerSteps] /\ loc' \in [Workers -> Locals] /\ LocalsFit'
  BY <1>0, <1>2 DEF LocalsFit
<1>3. ASSUME pc[w] # "idle", ForgetSend(w)
      PROVE  why' \in [Requests -> [Reasons -> Nat]]
  BY <1>0, <1>3, WhyTyped DEF ForgetSend, Reasons
<1>4. ASSUME pc[w] # "idle", NEW step \in WorkerSteps \ {"idle", "store"}, Go(w, step),
             UNCHANGED <<loc, job>>
      PROVE  pc' \in [Workers -> WorkerSteps] /\ loc' \in [Workers -> Locals] /\ LocalsFit'
  BY <1>0, <1>4 DEF LocalsFit
<1>5. ASSUME NEW r \in Requests, TakeJob(w, r) PROVE TypeInv'
  <2>1. /\ Queue!TypeOK'
        /\ \A q \in Requests : job[q] # "none" => job'[q] # "none"
        /\ job'[r] # "none"
    BY <1>5, QueueStep DEF TakeJob, Queue!Take
  <2>2. pc' \in [Workers -> WorkerSteps] /\ loc' \in [Workers -> Locals] /\ LocalsFit'
    BY <1>5, <2>1, BlankTyped DEF TakeJob, LocalsFit, WorkerSteps
  <2>3. QED
    BY <1>5, <2>1, <2>2 DEF TakeJob
<1>6. CASE Load(w) \/ Convert(w) \/ Upload(w)
  BY <1>4, <1>6 DEF Load, Convert, Upload, WorkerSteps, SendSteps
<1>7. CASE Post(w)
  <2>1. accepted[m] \in Nat /\ accepted' \in [Requests -> Nat]
    BY <1>0, <1>7 DEF Post, Accept
  <2>2. /\ [loc[w] EXCEPT !.sent = accepted[m] + 1] \in Locals
        /\ [loc[w] EXCEPT !.sent = accepted[m] + 1].request = m
        /\ [loc[w] EXCEPT !.sent = accepted[m] + 1].sent > 0
    BY <1>0, <2>1 DEF Locals
  <2>3. QED
    BY <1>2, <1>7, <2>1, <2>2 DEF Post, WorkerSteps
<1>8. CASE CallFails(w)
  <2>1. PICK again \in BOOLEAN : Knows(w, [loc[w] EXCEPT !.retryable = again])
    BY <1>8 DEF CallFails
  <2>2. /\ [loc[w] EXCEPT !.retryable = again] \in Locals
        /\ [loc[w] EXCEPT !.retryable = again].request = m
    BY <1>0 DEF Locals
  <2>3. pc[w] # "idle"
    BY <1>8 DEF CallFails, SendSteps
  <2>4. accepted' \in [Requests -> Nat] /\ why' \in [Requests -> [Reasons -> Nat]]
    BY <1>0, <1>8, <2>3, WhyTyped DEF CallFails, Accept, Reasons
  <2>5. QED
    <3>1. pc' \in [Workers -> WorkerSteps] /\ loc' \in [Workers -> Locals] /\ LocalsFit'
      <4>1. Go(w, "error") /\ UNCHANGED job
        BY <1>8 DEF CallFails
      <4>2. QED
        BY <1>0, <2>1, <2>2, <2>3, <4>1 DEF LocalsFit, WorkerSteps
    <3>2. left' \in [Events -> Nat]
      BY <1>8, SpendTyped DEF CallFails, Events
    <3>3. QED
      BY <1>8, <2>4, <3>1, <3>2 DEF CallFails
<1>9. CASE StoreSent(w)
  BY <1>0, <1>4, <1>9 DEF StoreSent, WorkerSteps, Status, Sent, Locals
<1>10. CASE StoreFails(w)
  <2>1. /\ [loc[w] EXCEPT !.retryable = TRUE] \in Locals
        /\ [loc[w] EXCEPT !.retryable = TRUE].request = m
    BY <1>0 DEF Locals
  <2>2. QED
    <3>1. pc' \in [Workers -> WorkerSteps] /\ loc' \in [Workers -> Locals] /\ LocalsFit'
      <4>1. /\ pc[w] # "idle" /\ Go(w, "error") /\ UNCHANGED job
            /\ Knows(w, [loc[w] EXCEPT !.retryable = TRUE])
        BY <1>10 DEF StoreFails
      <4>2. QED
        BY <1>0, <2>1, <4>1 DEF LocalsFit, WorkerSteps
    <3>2. left' \in [Events -> Nat] /\ why' \in [Requests -> [Reasons -> Nat]]
      BY <1>3, <1>10, SpendTyped DEF StoreFails, Events
    <3>3. QED
      BY <1>10, <3>1, <3>2 DEF StoreFails
<1>11. ASSUME pc[w] # "idle", Queue!Fail(w, m) \/ Queue!Complete(w, m)
      PROVE  /\ Queue!TypeOK'
             /\ \A q \in Requests : job[q] # "none" => job'[q] # "none"
  BY <1>0, <1>11, QueueStep
<1>12. CASE HandleError(w)
  BY <1>1, <1>4, <1>11, <1>12 DEF HandleError, WorkerSteps
<1>13. CASE MarkFailed(w)
  BY <1>0, <1>4, <1>13 DEF MarkFailed, WorkerSteps, Status
<1>14. CASE JobFails(w)
  BY <1>1, <1>11, <1>14, SpendTyped DEF JobFails, Events
<1>15. CASE Finish(w)
  BY <1>1, <1>11, <1>15 DEF Finish
<1>16. CASE Crash(w)
  BY <1>1, <1>3, <1>16, SpendTyped DEF Crash, Events
<1>17. QED
  BY <1>5, <1>6, <1>7, <1>8, <1>9, <1>10, <1>12, <1>13, <1>14, <1>15, <1>16 DEF Run

\* A job that stalls, and the contact block.
LEMMA OthersTyped ==
  ASSUME TypeInv,
         SetBlocked \/ \E r \in Requests : JobStalls(r)
  PROVE  TypeInv'
<1> USE DEF TypeInv, TypeOK, Queue!TypeOK
<1>1. CASE SetBlocked
  BY <1>1, LocalsStay, SpendTyped DEF SetBlocked, Events
<1>2. ASSUME NEW r \in Requests, JobStalls(r) PROVE TypeInv'
  <2>1. owner[r] \in Workers
    BY <1>2 DEF JobStalls, Queue!Stall
  <2>2. Queue!TypeOK' /\ \A q \in Requests : job[q] # "none" => job'[q] # "none"
    BY <1>2, <2>1, QueueStep DEF JobStalls
  <2>3. why' \in [Requests -> [Reasons -> Nat]]
    BY <1>2, WhyTyped DEF JobStalls, Reasons
  <2>4. QED
    BY <1>2, <2>2, <2>3, LocalsStay, SpendTyped DEF JobStalls, Events
<1>3. QED
  BY <1>1, <1>2

LEMMA InitTyped == Init => TypeInv
<1> SUFFICES ASSUME Init PROVE TypeInv
  OBVIOUS
<1>1. TypeOK
  BY ConstantsAssumption, BlankTyped
     DEF Init, TypeOK, Queue!Init, Queue!TypeOK, Queue!State, ConstantsAssumption, Status,
         RequestSteps, WorkerSteps
<1>2. LocalsFit
  BY DEF Init, LocalsFit
<1>3. QED
  BY <1>1, <1>2 DEF TypeInv

LEMMA NextTyped == TypeInv /\ [Next]_vars => TypeInv'
<1> SUFFICES ASSUME TypeInv, [Next]_vars PROVE TypeInv'
  OBVIOUS
<1>1. CASE UNCHANGED vars
  BY <1>1, LocalsStay DEF vars, TypeInv, TypeOK, Queue!TypeOK
<1>2. CASE Next
  BY <1>2, RequestTyped, WorkerTyped, OthersTyped DEF Next
<1>3. QED
  BY <1>1, <1>2

\* Every reachable state has the types of TypeOK.
THEOREM TypeCorrect == Spec => []TypeOK
<1>1. TypeInv => TypeOK
  BY DEF TypeInv
<1>2. QED
  BY <1>1, InitTyped, NextTyped, PTL DEF Spec

(***************************************************************************)
(* How often a message is sent. Each step is about one message and the run   *)
(* of one worker at most; all others stay as they are.                     *)
(***************************************************************************)

\* Nothing that the invariant says of q changes.
Same(q) ==
  /\ UNCHANGED <<at[q], status[q], sentId[q], job[q], owner[q], accepted[q], why[q]>>
  /\ \A s \in ReceiptStatus : <<q, s>> \in receipts' => <<q, s>> \in receipts
  /\ \A v \in Workers : /\ loc'[v].request = q <=> loc[v].request = q
                        /\ loc[v].request = q => pc'[v] = pc[v]

LEMMA SameAccounted ==
  ASSUME TypeInv, NEW q \in Requests, Accounted(q), Same(q)
  PROVE  Accounted(q)'
<1> USE DEF Same
<1>1. Untouched(q)'
  BY DEF Accounted, Untouched
<1>2. Counted(q)'
  <2>1. Runs(q)' = Runs(q)
    BY DEF Runs, Running
  <2>2. Ready(q)' <=> Ready(q)
    <3>1. job[q] = "active" => owner[q] \in Workers
      BY DEF TypeInv, TypeOK, Queue!TypeOK
    <3>2. QED
      BY <3>1 DEF Ready, JobAt, Open
  <2>3. QED
    BY <2>1, <2>2 DEF Accounted, Counted, Credit, Bit
<1>3. StoredInTime(q)'
  BY DEF Accounted, StoredInTime, Doubtless, RunFits
<1>4. NamedWasSent(q)'
  BY DEF Accounted, NamedWasSent
<1>5. QED
  BY <1>1, <1>2, <1>3, <1>4 DEF Accounted

\* Runs are counted by what one worker does.
LEMMA OneRunMoves ==
  ASSUME NEW r \in Requests, NEW w \in Workers,
         \A v \in Workers \ {w} : Running(r, v)' <=> Running(r, v)
  PROVE  /\ Cardinality(Runs(r)) \in Nat
         /\ Cardinality(Runs(r))' = Cardinality(Runs(r)) + Bit(Running(r, w)') - Bit(Running(r, w))
<1>1. IsFiniteSet(Runs(r)) /\ Cardinality(Runs(r)) \in Nat
  BY ConstantsAssumption, FS_Subset, FS_CardinalityType DEF ConstantsAssumption, Runs
<1>2. CASE Running(r, w)' /\ ~Running(r, w)
  <2>1. Runs(r)' = Runs(r) \union {w} /\ w \notin Runs(r)
    BY <1>2 DEF Runs
  <2>2. QED
    BY <1>1, <1>2, <2>1, FS_AddElement DEF Bit
<1>3. CASE ~Running(r, w)' /\ Running(r, w)
  <2>1. Runs(r)' = Runs(r) \ {w} /\ w \in Runs(r)
    BY <1>3 DEF Runs
  <2>2. Cardinality(Runs(r) \ {w}) = Cardinality(Runs(r)) - 1
    BY <1>1, <2>1, FS_RemoveElement
  <2>3. QED
    BY <1>1, <1>3, <2>1, <2>2 DEF Bit
<1>4. CASE Running(r, w)' <=> Running(r, w)
  <2>1. Runs(r)' = Runs(r)
    BY <1>4 DEF Runs
  <2>2. QED
    BY <1>1, <1>4, <2>1 DEF Bit
<1>5. QED
  BY <1>2, <1>3, <1>4

\* A step that gives as much as it takes keeps the count: one of no run, ...
LEMMA BalancedAlone ==
  ASSUME TypeInv, TypeInv', NEW r \in Requests, Counted(r),
         \A v \in Workers : Running(r, v)' <=> Running(r, v),
         accepted'[r] + Bit(Ready(r)') + Credit(r) <= accepted[r] + Bit(Ready(r)) + Credit(r)'
  PROVE  Counted(r)'
<1>1. /\ accepted[r] \in Nat /\ accepted'[r] \in Nat
      /\ Credit(r) \in Nat /\ Credit(r)' \in Nat
      /\ Bit(Ready(r)) \in {0, 1} /\ Bit(Ready(r)') \in {0, 1}
  BY DEF TypeInv, TypeOK, Credit, Reasons, Bit
<1>2. IsFiniteSet(Runs(r)) /\ Runs(r)' = Runs(r)
  BY ConstantsAssumption, FS_Subset DEF ConstantsAssumption, Runs
<1>3. Cardinality(Runs(r)) \in Nat /\ Cardinality(Runs(r))' = Cardinality(Runs(r))
  BY <1>2, FS_CardinalityType
<1>4. Counted(r)' <=> accepted'[r] + Cardinality(Runs(r))' + Bit(Ready(r)') <= Credit(r)'
  BY DEF Counted
<1> HIDE DEF Bit
<1>5. QED
  BY <1>1, <1>3, <1>4 DEF Counted

\* ... or one of a run.
LEMMA Balanced ==
  ASSUME TypeInv, TypeInv', NEW r \in Requests, NEW w \in Workers, Counted(r),
         \A v \in Workers \ {w} : Running(r, v)' <=> Running(r, v),
         accepted'[r] + Bit(Running(r, w)') + Bit(Ready(r)') + Credit(r)
           <= accepted[r] + Bit(Running(r, w)) + Bit(Ready(r)) + Credit(r)'
  PROVE  Counted(r)'
<1>1. /\ accepted[r] \in Nat /\ accepted'[r] \in Nat
      /\ Credit(r) \in Nat /\ Credit(r)' \in Nat
  BY DEF TypeInv, TypeOK, Credit, Reasons
<1>2. /\ Bit(Running(r, w)) \in {0, 1} /\ Bit(Running(r, w)') \in {0, 1}
      /\ Bit(Ready(r)) \in {0, 1} /\ Bit(Ready(r)') \in {0, 1}
  BY DEF Bit
<1>3. /\ Cardinality(Runs(r)) \in Nat
      /\ Cardinality(Runs(r))' = Cardinality(Runs(r)) + Bit(Running(r, w)') - Bit(Running(r, w))
  BY OneRunMoves
<1>4. Counted(r)' <=> accepted'[r] + Cardinality(Runs(r))' + Bit(Ready(r)') <= Credit(r)'
  BY DEF Counted
<1> HIDE DEF Bit
<1>5. QED
  BY <1>1, <1>2, <1>3, <1>4 DEF Counted

\* A request, a receipt or a stalled job is about one message...
LEMMA OtherRequests ==
  ASSUME TypeInv, NEW r \in Requests, NEW q \in Requests \ {r},
         \/ AskReply(r) \/ AskVoice(r) \/ AskQuick(r) \/ AskTemplate(r)
         \/ Serve(r) \/ EnqueueFails(r) \/ RequestFails(r) \/ JobStalls(r)
         \/ \E w \in Workers : TakeJob(w, r)
         \/ \E s \in ReceiptStatus : FindReceipt(r, s) \/ StoreReceipt(r, s)
  PROVE  Same(q)
<1> USE DEF TypeInv, TypeOK, Queue!TypeOK, Same, Because
<1>1. CASE AskReply(r) \/ AskVoice(r) \/ AskQuick(r) \/ AskTemplate(r)
  BY <1>1 DEF AskReply, AskVoice, AskQuick, AskTemplate, Ask
<1>2. CASE CreateRecord(r) \/ MarkEnqueueFailed(r) \/ PostTemplate(r) \/ RecordSentTemplate(r)
  BY <1>2 DEF CreateRecord, MarkEnqueueFailed, PostTemplate, RecordSentTemplate, Accept
<1>3. CASE Enqueue(r)
  BY <1>3 DEF Enqueue, Queue!Add
<1>4. CASE EnqueueFails(r)
  BY <1>4 DEF EnqueueFails, Queue!Add
<1>5. CASE RequestFails(r)
  BY <1>5 DEF RequestFails, Accept
<1>6. CASE JobStalls(r)
  BY <1>6 DEF JobStalls, Queue!Stall
<1>7. ASSUME NEW w \in Workers, TakeJob(w, r) PROVE Same(q)
  <2>1. loc[w].request \notin Requests /\ loc'[w].request = r
    BY <1>7, ConstantsAssumption, BlankTyped DEF TakeJob, LocalsFit, ConstantsAssumption
  <2>2. QED
    BY <1>7, <2>1 DEF TakeJob, Queue!Take
<1>8. ASSUME NEW s \in ReceiptStatus, FindReceipt(r, s) \/ StoreReceipt(r, s) PROVE Same(q)
  BY <1>8 DEF FindReceipt, StoreReceipt
<1>9. QED
  BY <1>1, <1>2, <1>3, <1>4, <1>5, <1>6, <1>7, <1>8 DEF Serve

\* ... and a step of a run about that of the run.
LEMMA OtherMessages ==
  ASSUME TypeInv, NEW w \in Workers, NEW q \in Requests, q # loc[w].request,
         Run(w) \/ CallFails(w) \/ StoreFails(w) \/ JobFails(w) \/ Crash(w)
  PROVE  Same(q)
<1> USE DEF TypeInv, TypeOK, Queue!TypeOK, Same, Because
<1> DEFINE m == loc[w].request
<1>0. Blank.request # q /\ (pc[w] # "idle" => m \in Requests)
  BY ConstantsAssumption, BlankTyped DEF LocalsFit, ConstantsAssumption
<1>1. CASE Load(w) \/ Convert(w) \/ Upload(w)
  BY <1>1 DEF Load, Convert, Upload
<1>2. CASE Post(w)
  BY <1>2 DEF Post, Accept
<1>3. CASE CallFails(w)
  <2>1. PICK again \in BOOLEAN : loc' = [loc EXCEPT ![w] = [loc[w] EXCEPT !.retryable = again]]
    BY <1>3 DEF CallFails
  <2>2. UNCHANGED <<accepted[q], why[q]>>
    BY <1>0, <1>3 DEF CallFails, Accept
  <2>3. QED
    BY <1>3, <2>1, <2>2 DEF CallFails
<1>4. CASE StoreSent(w) \/ MarkFailed(w)
  BY <1>0, <1>4 DEF StoreSent, MarkFailed
<1>5. CASE StoreFails(w)
  BY <1>0, <1>5 DEF StoreFails, ForgetSend
<1>6. ASSUME pc[w] # "idle", Queue!Fail(w, m) \/ Queue!Complete(w, m)
      PROVE  UNCHANGED <<job[q], owner[q]>>
  BY <1>0, <1>6, QueueStep
<1>7. CASE HandleError(w)
  BY <1>0, <1>6, <1>7 DEF HandleError, Leave
<1>8. CASE JobFails(w)
  BY <1>0, <1>6, <1>8 DEF JobFails, Leave
<1>9. CASE Finish(w)
  BY <1>0, <1>6, <1>9 DEF Finish, Leave
<1>10. CASE Crash(w)
  BY <1>0, <1>10 DEF Crash, Leave, ForgetSend
<1>11. QED
  BY <1>1, <1>2, <1>3, <1>4, <1>5, <1>7, <1>8, <1>9, <1>10 DEF Run

\* The requests.
LEMMA RequestAccounted ==
  ASSUME TypeInv, TypeInv', NEW r \in Requests, Accounted(r),
         \/ AskReply(r) \/ AskVoice(r) \/ AskQuick(r) \/ AskTemplate(r)
         \/ Serve(r) \/ EnqueueFails(r) \/ RequestFails(r)
  PROVE  Accounted(r)'
<1> USE DEF TypeInv, TypeOK, Queue!TypeOK, Accounted
<1>0. UNCHANGED <<worker, receipts, owner>>
  BY DEF AskReply, AskVoice, AskQuick, AskTemplate, Ask, Serve, CreateRecord, Enqueue, Queue!Add,
         MarkEnqueueFailed, PostTemplate, RecordSentTemplate, EnqueueFails, RequestFails
<1>1. job[r] = "none" => \A v \in Workers : loc[v].request # r
  <2>1. Blank.request # r
    BY BlankTyped, ConstantsAssumption DEF ConstantsAssumption
  <2>2. QED
    BY <2>1 DEF LocalsFit
<1>2. \A v \in Workers : Running(r, v)' <=> Running(r, v)
  BY <1>0 DEF Running
<1>3. ASSUME UNCHANGED accepted[r], Ready(r)' => Ready(r),
             \A reason \in {"lost", "overlap", "unknown"} : why'[r][reason] = why[r][reason]
      PROVE  Counted(r)'
  <2>1. Credit(r)' = Credit(r) /\ Credit(r) \in Nat /\ accepted[r] \in Nat
    BY <1>3 DEF Credit, Reasons
  <2>2. accepted'[r] + Bit(Ready(r)') + Credit(r) <= accepted[r] + Bit(Ready(r)) + Credit(r)'
    BY <1>3, <2>1 DEF Bit
  <2>3. QED
    BY <1>2, <2>2, BalancedAlone
<1>4. ASSUME at[r] # "refuse", UNCHANGED <<status[r], sentId[r], job[r], accepted[r], why[r]>>
      PROVE  Counted(r)' /\ StoredInTime(r)' /\ NamedWasSent(r)'
  <2>1. Ready(r)' <=> Ready(r)
    BY <1>0, <1>4 DEF Ready, Open, JobAt
  <2>2. Counted(r)'
    BY <1>3, <1>4, <2>1
  <2>3. StoredInTime(r)' /\ NamedWasSent(r)'
    BY <1>0, <1>4 DEF StoredInTime, Doubtless, RunFits, NamedWasSent
  <2>4. QED
    BY <2>2, <2>3
<1>5. CASE AskReply(r) \/ AskVoice(r) \/ AskQuick(r) \/ AskTemplate(r)
  <2>1. /\ at[r] = "new" /\ at'[r] \in {"done", "record", "post"}
        /\ UNCHANGED <<status, sentId, job, accepted, why>>
    BY <1>5 DEF AskReply, AskVoice, AskQuick, AskTemplate, Ask
  <2>2. Untouched(r)'
    BY <2>1 DEF Untouched
  <2>3. QED
    BY <1>4, <2>1, <2>2
<1>6. CASE CreateRecord(r)
  <2>1. Untouched(r)' /\ status[r] = "none" /\ status'[r] = "QUEUED" /\ accepted[r] = 0 /\ job[r] = "none"
    BY <1>6 DEF CreateRecord, Untouched
  <2>2. Ready(r)' <=> Ready(r)
    BY <1>0, <1>6, <2>1 DEF CreateRecord, Ready, Open, JobAt
  <2>3. Counted(r)'
    BY <1>3, <1>6, <2>2 DEF CreateRecord
  <2>4. StoredInTime(r)' /\ NamedWasSent(r)'
    BY <1>0, <1>1, <1>6, <2>1 DEF CreateRecord, StoredInTime, NamedWasSent
  <2>5. QED
    BY <2>1, <2>3, <2>4
<1>7. ASSUME Queue!Add(r), at[r] = "enqueue", UNCHANGED <<status, sentId, accepted>>,
             \A reason \in {"lost", "overlap", "unknown"} : why'[r][reason] = why[r][reason],
             Doubtless(r)' => Doubtless(r)
      PROVE  Counted(r)' /\ StoredInTime(r)' /\ NamedWasSent(r)'
  <2>1. job[r] = "none" /\ accepted[r] = 0 /\ job'[r] = "waiting"
    BY <1>7 DEF Untouched, Queue!Add
  <2>2. Ready(r)' <=> Ready(r)
    BY <1>0, <1>7, <2>1 DEF Ready, Open, JobAt
  <2>3. Counted(r)'
    BY <1>3, <1>7, <2>2
  <2>4. StoredInTime(r)' /\ NamedWasSent(r)'
    BY <1>0, <1>1, <1>7, <2>1 DEF StoredInTime, NamedWasSent
  <2>5. QED
    BY <2>3, <2>4
<1>8. CASE Enqueue(r)
  <2>1. Untouched(r)'
    BY <1>8 DEF Enqueue, Untouched
  <2>2. QED
    BY <1>7, <1>8, <2>1 DEF Enqueue, Doubtless
<1>9. CASE EnqueueFails(r)
  <2>1. at[r] = "enqueue" /\ at'[r] = "refuse" /\ UNCHANGED <<status, sentId, accepted>>
    BY <1>9 DEF EnqueueFails
  <2>2. CASE Queue!Add(r) /\ Because(r, "unanswered")
    <3>1. /\ why'[r]["unanswered"] = why[r]["unanswered"] + 1
          /\ why[r]["unanswered"] \in Nat
          /\ \A other \in Reasons \ {"unanswered"} : why'[r][other] = why[r][other]
      BY <2>2, WhyTyped DEF Reasons
    <3>2. Untouched(r)' /\ ~Doubtless(r)'
      BY <2>1, <3>1 DEF Untouched, Doubtless, Reasons
    <3>3. QED
      BY <1>7, <2>1, <2>2, <3>1, <3>2 DEF Reasons
  <2>3. CASE UNCHANGED <<queue, why>>
    <3>1. Untouched(r)'
      BY <2>1, <2>3 DEF Untouched
    <3>2. QED
      BY <1>4, <2>1, <2>3, <3>1
  <2>4. QED
    BY <1>9, <2>2, <2>3 DEF EnqueueFails
<1>10. CASE MarkEnqueueFailed(r)
  <2>1. /\ at[r] = "refuse" /\ at'[r] = "done" /\ status'[r] = "FAILED"
        /\ UNCHANGED <<sentId, job, accepted, why>>
    BY <1>10 DEF MarkEnqueueFailed
  <2>2. ~Ready(r)'
    BY <2>1 DEF Ready, Open
  <2>3. Counted(r)'
    BY <1>3, <2>1, <2>2
  <2>4. Doubtless(r) => job[r] = "none" /\ accepted[r] = 0
    BY <2>1 DEF Doubtless, Untouched, Reasons
  <2>5. StoredInTime(r)' /\ NamedWasSent(r)'
    BY <1>0, <1>1, <2>1, <2>4 DEF StoredInTime, NamedWasSent, Doubtless
  <2>6. Untouched(r)'
    BY <2>1 DEF Untouched
  <2>7. QED
    BY <2>3, <2>5, <2>6
<1>11. ASSUME at[r] = "post", at'[r] \in {"recordSent", "done"}, Accept(r),
              UNCHANGED <<status, sentId, job, why>>
      PROVE  Accounted(r)'
  <2>1. status[r] = "none" /\ job[r] = "none" /\ accepted[r] = 0 /\ accepted'[r] = 1
    BY <1>11 DEF Untouched, Accept
  <2>2. Ready(r) /\ ~Ready(r)'
    BY <1>11, <2>1 DEF Ready, Open, JobAt
  <2>3. Counted(r)'
    <3>1. Credit(r)' = Credit(r) /\ Credit(r) \in Nat
      BY <1>11 DEF Credit, Reasons
    <3>2. accepted'[r] + Bit(Ready(r)') + Credit(r) <= accepted[r] + Bit(Ready(r)) + Credit(r)'
      BY <2>1, <2>2, <3>1 DEF Bit
    <3>3. QED
      BY <1>2, <3>2, BalancedAlone
  <2>4. StoredInTime(r)' /\ NamedWasSent(r)'
    BY <1>0, <1>1, <1>11, <2>1 DEF StoredInTime, NamedWasSent
  <2>5. Untouched(r)'
    BY <1>11, <2>1 DEF Untouched
  <2>6. QED
    BY <2>3, <2>4, <2>5
<1>12. CASE PostTemplate(r)
  BY <1>11, <1>12 DEF PostTemplate
<1>13. CASE RecordSentTemplate(r)
  <2>1. /\ at[r] = "recordSent" /\ at'[r] = "done" /\ status'[r] = "SENT"
        /\ sentId'[r] = accepted[r] /\ UNCHANGED <<job, accepted, why>>
    BY <1>13 DEF RecordSentTemplate
  <2>2. ~Ready(r)' /\ job[r] = "none"
    BY <2>1 DEF Ready, Open, Untouched
  <2>3. Counted(r)'
    BY <1>3, <2>1, <2>2
  <2>4. StoredInTime(r)' /\ NamedWasSent(r)'
    BY <1>0, <1>1, <2>1, <2>2 DEF StoredInTime, NamedWasSent
  <2>5. Untouched(r)'
    BY <2>1 DEF Untouched
  <2>6. QED
    BY <2>3, <2>4, <2>5
<1>14. CASE RequestFails(r)
  <2>1. /\ at[r] # "new" /\ at'[r] = "done" /\ UNCHANGED <<status, sentId, job, why>>
        /\ (at[r] = "post" /\ Accept(r)) \/ UNCHANGED accepted
    BY <1>14 DEF RequestFails
  <2>2. CASE UNCHANGED accepted
    <3>1. Ready(r)' <=> Ready(r)
      BY <1>0, <2>1, <2>2 DEF Ready, Open, JobAt
    <3>2. Counted(r)'
      BY <1>3, <2>1, <2>2, <3>1
    <3>3. StoredInTime(r)' /\ NamedWasSent(r)' /\ Untouched(r)'
      BY <1>0, <2>1, <2>2 DEF StoredInTime, Doubtless, RunFits, NamedWasSent, Untouched
    <3>4. QED
      BY <3>2, <3>3
  <2>3. QED
    BY <1>11, <2>1, <2>2
<1>15. QED
  BY <1>5, <1>6, <1>8, <1>9, <1>10, <1>12, <1>13, <1>14 DEF Serve

\* The receipts, and a job that is handed out or taken back.
LEMMA QueueAccounted ==
  ASSUME TypeInv, TypeInv', NEW r \in Requests, Accounted(r),
         \/ JobStalls(r) \/ \E w \in Workers : TakeJob(w, r)
         \/ \E s \in ReceiptStatus : FindReceipt(r, s) \/ StoreReceipt(r, s)
  PROVE  Accounted(r)'
<1> USE DEF TypeInv, TypeOK, Queue!TypeOK, Accounted
<1>1. ASSUME NEW s \in ReceiptStatus, FindReceipt(r, s) PROVE Accounted(r)'
  <2>1. UNCHANGED <<at, status, sentId, job, owner, accepted, why, worker>>
    BY <1>1 DEF FindReceipt
  <2>2. Untouched(r)' /\ StoredInTime(r)' /\ NamedWasSent(r)'
    BY <1>1, <2>1 DEF FindReceipt, Untouched, StoredInTime, Doubtless, RunFits, NamedWasSent
  <2>3. Counted(r)'
    BY <2>1 DEF Counted, Runs, Running, Ready, Open, JobAt, Credit
  <2>4. QED
    BY <2>2, <2>3
<1>2. ASSUME NEW s \in ReceiptStatus, StoreReceipt(r, s) PROVE Accounted(r)'
  <2>1. /\ UNCHANGED <<at, sentId, job, owner, accepted, worker>>
        /\ status'[r] = s /\ sentId[r] > 0 /\ accepted[r] > 0
        /\ receipts' \subseteq receipts
    BY <1>2 DEF StoreReceipt, NamedWasSent
  <2>2. \A v \in Workers : Running(r, v)' <=> Running(r, v)
    BY <2>1 DEF Running
  <2>3. /\ accepted[r] \in Nat /\ Credit(r) \in Nat
        /\ Bit(Ready(r)) \in {0, 1} /\ Bit(Ready(r)') \in {0, 1}
    BY DEF Credit, Reasons, Bit
  <2>4. \A reason \in Reasons : why'[r][reason] >= why[r][reason] /\ why[r][reason] \in Nat
    BY <1>2, WhyTyped DEF StoreReceipt, Reasons
  <2>5. Untouched(r)'
    <3>1. at[r] \notin {"new", "record", "enqueue", "post"}
      BY <2>1 DEF Untouched
    <3>2. at[r] = "refuse" => why'[r]["unanswered"] > 0
      BY <2>1, <2>4 DEF Untouched, Reasons
    <3>3. QED
      BY <2>1, <3>1, <3>2 DEF Untouched
  <2>6. NamedWasSent(r)'
    BY <2>1 DEF NamedWasSent
  <2>7. CASE s = "QUEUED"
    <3>1. /\ why'[r]["unknown"] = why[r]["unknown"] + 1
          /\ \A reason \in Reasons \ {"unknown"} : why'[r][reason] = why[r][reason]
      BY <1>2, <2>7, WhyTyped DEF StoreReceipt, Reasons
    <3>2. Credit(r)' = Credit(r) + 1 /\ ~Doubtless(r)'
      <4>1. why'[r]["unknown"] > 0
        BY <2>4, <3>1 DEF Reasons
      <4>2. Credit(r)' = Credit(r) + 1
        BY <2>4, <3>1 DEF Credit, Reasons
      <4>3. QED
        BY <4>1, <4>2 DEF Doubtless, Reasons
    <3>3. accepted'[r] + Bit(Ready(r)') + Credit(r) <= accepted[r] + Bit(Ready(r)) + Credit(r)'
      BY <2>1, <2>3, <3>2
    <3>4. Counted(r)'
      BY <2>2, <3>3, BalancedAlone
    <3>5. QED
      BY <2>5, <2>6, <3>2, <3>4 DEF StoredInTime
  <2>8. CASE s # "QUEUED"
    <3>1. \A reason \in {"lost", "overlap", "unknown"} : why'[r][reason] = why[r][reason]
      BY <1>2, <2>8, WhyTyped DEF StoreReceipt, Reasons
    <3>2. Credit(r)' = Credit(r)
      BY <3>1 DEF Credit
    <3>3. ~Ready(r)'
      BY <2>1, <2>8 DEF Ready, Open, ReceiptStatus
    <3>4. accepted'[r] + Bit(Ready(r)') + Credit(r) <= accepted[r] + Bit(Ready(r)) + Credit(r)'
      BY <2>1, <2>3, <3>2, <3>3 DEF Bit
    <3>5. Counted(r)'
      BY <2>2, <3>4, BalancedAlone
    <3>6. StoredInTime(r)'
      <4>1. Doubtless(r)' => Doubtless(r)
        BY <2>4 DEF Doubtless
      <4>2. s = "FAILED" => ~Doubtless(r)'
        BY <1>2, <2>4, WhyTyped DEF StoreReceipt, Doubtless, Reasons
      <4>3. QED
        BY <2>1, <2>8, <4>1, <4>2 DEF StoredInTime, RunFits
    <3>7. QED
      BY <2>5, <2>6, <3>5, <3>6
  <2>9. QED
    BY <2>7, <2>8
<1>3. ASSUME NEW w \in Workers, TakeJob(w, r) PROVE Accounted(r)'
  <2>1. /\ job[r] = "waiting" /\ owner[r] = NoWorker
        /\ job'[r] = "active" /\ owner'[r] = w
        /\ loc[w].request # r /\ loc'[w].request = r /\ pc'[w] = "load"
        /\ \A v \in Workers \ {w} : loc'[v] = loc[v] /\ pc'[v] = pc[v]
        /\ UNCHANGED <<at, status, sentId, receipts, accepted, why>>
    BY <1>3, BlankTyped, ConstantsAssumption
       DEF TakeJob, Queue!Take, LocalsFit, ConstantsAssumption
  <2>2. \A v \in Workers \ {w} : Running(r, v)' <=> Running(r, v)
    BY <2>1, ConstantsAssumption DEF Running, ConstantsAssumption
  <2>3. ~Running(r, w) /\ ~Running(r, w)' /\ (Ready(r)' <=> Ready(r))
    BY <2>1 DEF Running, Ready, Open, JobAt, SendSteps
  <2>4. Credit(r)' = Credit(r) /\ Credit(r) \in Nat /\ accepted[r] \in Nat
    BY <2>1 DEF Credit, Reasons
  <2>5. accepted'[r] + Bit(Running(r, w)') + Bit(Ready(r)') + Credit(r)
           <= accepted[r] + Bit(Running(r, w)) + Bit(Ready(r)) + Credit(r)'
    BY <2>1, <2>3, <2>4 DEF Bit
  <2>6. Counted(r)'
    BY <2>2, <2>5, Balanced
  <2>7. StoredInTime(r)'
    <3>1. Doubtless(r) => \A v \in Workers : loc[v].request # r
      BY <2>1, ConstantsAssumption DEF StoredInTime, RunFits, ConstantsAssumption
    <3>2. Doubtless(r)' => Doubtless(r)
      BY <2>1 DEF Doubtless
    <3>3. QED
      <4>1. ASSUME Doubtless(r) PROVE ~(status[r] = "QUEUED" /\ accepted[r] > 0)
        BY <3>1, <4>1 DEF StoredInTime
      <4>2. ASSUME Doubtless(r) PROVE \A v \in Workers : loc'[v].request = r => RunFits(r, v)'
        BY <2>1, <3>1, <4>2 DEF RunFits, SendSteps
      <4>3. QED
        BY <2>1, <3>2, <4>1, <4>2 DEF StoredInTime
  <2>8. Untouched(r)' /\ NamedWasSent(r)'
    BY <2>1 DEF Untouched, NamedWasSent
  <2>9. QED
    BY <2>6, <2>7, <2>8
<1>4. CASE JobStalls(r)
  <2>0. PICK w \in Workers : owner[r] = w
    BY <1>4 DEF JobStalls, Queue!Stall
  <2>1. /\ job[r] = "active" /\ owner[r] = w
        /\ job'[r] \in {"waiting", "failed"} /\ owner'[r] = NoWorker
        /\ UNCHANGED <<at, worker, status, sentId, receipts, accepted>>
    BY <1>4, <2>0 DEF JobStalls, Queue!Stall
  <2>2. \A v \in Workers \ {w} : Running(r, v)' <=> Running(r, v)
    BY <2>1, ConstantsAssumption DEF Running, ConstantsAssumption
  <2>3. \A reason \in Reasons : why'[r][reason] >= why[r][reason] /\ why[r][reason] \in Nat
    BY <1>4, <2>1, WhyTyped DEF JobStalls, Reasons
  <2>4. /\ accepted[r] \in Nat /\ Credit(r) \in Nat
    BY DEF Credit, Reasons
  <2>5. Untouched(r)' /\ NamedWasSent(r)'
    BY <2>1, <2>3 DEF Untouched, NamedWasSent, Reasons
  <2>6. CASE loc[w].request = r
    <3>1. /\ why'[r]["overlap"] = why[r]["overlap"] + 1
          /\ \A reason \in Reasons \ {"overlap"} : why'[r][reason] = why[r][reason]
      BY <1>4, <2>1, <2>6, WhyTyped DEF JobStalls, Reasons
    <3>2. Credit(r)' = Credit(r) + 1 /\ ~Doubtless(r)'
      <4>1. why'[r]["overlap"] > 0
        BY <2>3, <3>1 DEF Reasons
      <4>2. Credit(r)' = Credit(r) + 1
        BY <2>3, <3>1 DEF Credit, Reasons
      <4>3. QED
        BY <4>1, <4>2 DEF Doubtless, Reasons
    <3>3. Bit(Running(r, w)') + Bit(Ready(r)') <= Bit(Running(r, w)) + Bit(Ready(r)) + 1
      <4>1. (Ready(r)' => Open(r)) /\ (Ready(r) <=> Open(r) /\ pc[w] \in {"load", "finish"})
        BY <2>1, <2>6 DEF Ready, Open, JobAt
      <4>2. Running(r, w)' <=> pc[w] \in SendSteps \union {"error", "markFailed", "load"}
        BY <2>1, <2>6, ConstantsAssumption DEF Running, ConstantsAssumption
      <4>3. Running(r, w) <=> pc[w] \in SendSteps \union {"error", "markFailed"}
        BY <2>1, <2>6 DEF Running
      <4>4. QED
        BY <4>1, <4>2, <4>3 DEF Bit, SendSteps
    <3>4. /\ Bit(Running(r, w)) \in {0, 1} /\ Bit(Running(r, w)') \in {0, 1}
          /\ Bit(Ready(r)) \in {0, 1} /\ Bit(Ready(r)') \in {0, 1}
      BY DEF Bit
    <3>5. accepted'[r] + Bit(Running(r, w)') + Bit(Ready(r)') + Credit(r)
           <= accepted[r] + Bit(Running(r, w)) + Bit(Ready(r)) + Credit(r)'
      BY <2>1, <2>4, <3>2, <3>3, <3>4
    <3>6. Counted(r)'
      BY <2>1, <2>2, <3>5, Balanced
    <3>7. QED
      BY <2>5, <3>2, <3>6 DEF StoredInTime
  <2>7. CASE loc[w].request # r
    <3>1. UNCHANGED why
      BY <1>4, <2>1, <2>7 DEF JobStalls
    <3>2. Credit(r)' = Credit(r) /\ (Ready(r)' => Ready(r))
      BY <2>1, <2>7, <3>1 DEF Credit, Ready, Open, JobAt
    <3>3. \A v \in Workers : Running(r, v)' <=> Running(r, v)
      BY <2>1, <2>2, <2>7 DEF Running
    <3>4. accepted'[r] + Bit(Ready(r)') + Credit(r) <= accepted[r] + Bit(Ready(r)) + Credit(r)'
      BY <2>1, <2>4, <3>2 DEF Bit
    <3>5. Counted(r)'
      BY <3>3, <3>4, BalancedAlone
    <3>6. StoredInTime(r)'
      BY <2>1, <2>7, <3>1 DEF StoredInTime, Doubtless, RunFits
    <3>7. QED
      BY <2>5, <3>5, <3>6
  <2>8. QED
    BY <2>6, <2>7
<1>5. QED
  BY <1>1, <1>2, <1>3, <1>4

\* What every step of a run w on r has in common.
RunStep(r, w) ==
  /\ UNCHANGED <<at, receipts>>
  /\ \A v \in Workers \ {w} : loc'[v] = loc[v] /\ pc'[v] = pc[v]
  /\ job'[r] # "none" /\ why'[r]["unanswered"] = why[r]["unanswered"]
  /\ UNCHANGED <<job[r], owner[r]>> \/ (owner[r] = w /\ owner'[r] = NoWorker)

LEMMA RunStepKeeps ==
  ASSUME TypeInv, TypeInv', NEW w \in Workers, NEW r \in Requests, loc[w].request = r,
         Accounted(r), RunStep(r, w)
  PROVE  /\ Untouched(r)'
         /\ Doubtless(r) => owner[r] = w /\ \A v \in Workers : loc[v].request = r => v = w
         /\ owner[r] # w => (JobAt(r)' <=> JobAt(r))
<1> USE DEF RunStep, Accounted
<1>1. job[r] # "none" /\ (owner[r] # w => UNCHANGED <<job[r], owner[r]>>)
  BY ConstantsAssumption, BlankTyped DEF TypeInv, LocalsFit, ConstantsAssumption
<1>2. Untouched(r)'
  BY <1>1 DEF Untouched
<1>3. Doubtless(r) => owner[r] = w /\ \A v \in Workers : loc[v].request = r => v = w
  BY DEF StoredInTime, RunFits
<1>4. owner[r] # w => (JobAt(r)' <=> JobAt(r))
  <2>1. job[r] = "active" => owner[r] \in Workers
    BY DEF TypeInv, TypeOK, Queue!TypeOK
  <2>2. QED
    BY <1>1, <2>1 DEF JobAt
<1>5. QED
  BY <1>2, <1>3, <1>4

\* da sends more and dc reasons more.
LEMMA RunStepCounts ==
  ASSUME TypeInv, TypeInv', NEW w \in Workers, NEW r \in Requests,
         Accounted(r), RunStep(r, w), NEW da \in {0, 1}, NEW dc \in {0, 1},
         accepted'[r] = accepted[r] + da, Credit(r)' = Credit(r) + dc,
         Bit(Running(r, w)') + Bit(Ready(r)') + da <= Bit(Running(r, w)) + Bit(Ready(r)) + dc
  PROVE  Counted(r)'
<1>1. \A v \in Workers \ {w} : Running(r, v)' <=> Running(r, v)
  BY ConstantsAssumption DEF RunStep, Running, ConstantsAssumption
<1>2. /\ accepted[r] \in Nat /\ Credit(r) \in Nat
      /\ Bit(Running(r, w)) \in {0, 1} /\ Bit(Running(r, w)') \in {0, 1}
      /\ Bit(Ready(r)) \in {0, 1} /\ Bit(Ready(r)') \in {0, 1}
  BY DEF TypeInv, TypeOK, Credit, Reasons, Bit
<1>3. accepted'[r] + Bit(Running(r, w)') + Bit(Ready(r)') + Credit(r)
        <= accepted[r] + Bit(Running(r, w)) + Bit(Ready(r)) + Credit(r)'
  BY <1>2
<1>4. QED
  BY <1>1, <1>3, Balanced DEF Accounted

\* The run loads its message, goes on with it, or gives it up as FAILED.
LEMMA ForwardAccounted ==
  ASSUME TypeInv, TypeInv', NEW w \in Workers, NEW r \in Requests, loc[w].request = r,
         Accounted(r), Load(w) \/ Convert(w) \/ Upload(w) \/ StoreSent(w) \/ MarkFailed(w)
  PROVE  Accounted(r)'
<1> USE DEF TypeInv, TypeOK, Queue!TypeOK
<1>1. /\ pc[w] # "idle" /\ job[r] # "none" /\ (owner[r] = w => job[r] = "active")
      /\ UNCHANGED <<at, job, owner, accepted, why, loc, receipts>>
      /\ \A v \in Workers \ {w} : pc'[v] = pc[v]
  BY ConstantsAssumption
     DEF LocalsFit, ConstantsAssumption, Load, Convert, Upload, StoreSent, MarkFailed
<1>2. RunStep(r, w)
  BY <1>1 DEF RunStep
<1>3. /\ Untouched(r)'
      /\ Doubtless(r) => owner[r] = w /\ \A v \in Workers : loc[v].request = r => v = w
      /\ owner[r] # w => (JobAt(r)' <=> JobAt(r))
  BY <1>2, RunStepKeeps
<1>4. ASSUME Bit(Running(r, w)') + Bit(Ready(r)') <= Bit(Running(r, w)) + Bit(Ready(r))
      PROVE  Counted(r)'
  <2>1. /\ accepted'[r] = accepted[r] + 0 /\ Credit(r)' = Credit(r) + 0
        /\ Bit(Running(r, w)') + Bit(Ready(r)') + 0 <= Bit(Running(r, w)) + Bit(Ready(r)) + 0
    BY <1>1, <1>4 DEF Credit, Reasons, Bit
  <2>2. QED
    BY <1>2, <2>1, RunStepCounts
<1>5. Doubtless(r)' <=> Doubtless(r)
  BY <1>1 DEF Doubtless
<1>6. CASE Load(w)
  <2>1. /\ pc[w] = "load" /\ UNCHANGED <<status, sentId>>
        /\ pc'[w] \in {"finish", "error", "convert", "post"}
        /\ pc'[w] # "finish" => status[r] = "QUEUED"
    BY <1>6 DEF Load
  <2>2. Counted(r)'
    <3>1. CASE owner[r] = w
      <4>1. ~Running(r, w) /\ (Ready(r) <=> Open(r))
        BY <1>1, <2>1, <3>1 DEF Running, Ready, JobAt, SendSteps
      <4>2. /\ Running(r, w)' => pc'[w] # "finish" /\ Open(r)
            /\ Ready(r)' => pc'[w] = "finish" /\ Open(r)
        BY <1>1, <2>1, <3>1 DEF Running, Ready, JobAt, SendSteps, Open
      <4>3. QED
        BY <1>4, <4>1, <4>2 DEF Bit
    <3>2. CASE owner[r] # w
      <4>1. Running(r, w) /\ (Ready(r)' => Ready(r))
        BY <1>3, <2>1, <3>2 DEF Running, Ready, Open
      <4>2. QED
        BY <1>4, <4>1 DEF Bit
    <3>3. QED
      BY <3>1, <3>2
  <2>3. StoredInTime(r)'
    <3>1. Doubtless(r) => ~(status[r] = "QUEUED" /\ accepted[r] > 0)
      BY <1>3, <2>1 DEF Accounted, StoredInTime
    <3>2. accepted[r] \in Nat /\ sentId[r] \in Nat
      OBVIOUS
    <3>3. Doubtless(r) => RunFits(r, w)'
      BY <1>1, <1>3, <2>1, <3>1, <3>2 DEF Accounted, NamedWasSent, RunFits, SendSteps
    <3>4. QED
      BY <1>1, <1>3, <1>5, <2>1, <3>1, <3>3 DEF Accounted, StoredInTime
  <2>4. NamedWasSent(r)'
    BY <1>1, <2>1 DEF Accounted, NamedWasSent
  <2>5. QED
    BY <1>3, <2>2, <2>3, <2>4 DEF Accounted
<1>7. CASE Convert(w) \/ Upload(w)
  <2>1. pc[w] \in SendSteps /\ pc'[w] \in {"upload", "post"} /\ UNCHANGED <<status, sentId>>
    BY <1>7 DEF Convert, Upload, SendSteps
  <2>2. Running(r, w) /\ (Ready(r)' => Ready(r))
    BY <1>1, <1>3, <2>1 DEF Running, Ready, JobAt, Open, SendSteps
  <2>3. Counted(r)'
    BY <1>4, <2>2 DEF Bit
  <2>4. Doubtless(r) => RunFits(r, w)'
    BY <1>1, <2>1 DEF Accounted, StoredInTime, RunFits, SendSteps
  <2>5. StoredInTime(r)' /\ NamedWasSent(r)'
    BY <1>1, <1>3, <1>5, <2>1, <2>4 DEF Accounted, StoredInTime, NamedWasSent, SendSteps
  <2>6. QED
    BY <1>3, <2>3, <2>5 DEF Accounted
<1>8. CASE StoreSent(w)
  <2>1. /\ pc[w] = "store" /\ pc'[w] = "finish" /\ status'[r] = "SENT" /\ sentId'[r] > 0
        /\ accepted[r] > 0
    BY <1>1, <1>8 DEF StoreSent, Accounted, NamedWasSent, LocalsFit
  <2>2. ~Running(r, w)' /\ ~Ready(r)'
    BY <1>1, <2>1 DEF Running, Ready, Open, SendSteps
  <2>3. Counted(r)'
    BY <1>4, <2>2 DEF Bit
  <2>4. StoredInTime(r)' /\ NamedWasSent(r)'
    BY <1>1, <1>3, <1>5, <2>1 DEF Accounted, StoredInTime, NamedWasSent, RunFits, SendSteps
  <2>5. QED
    BY <1>3, <2>3, <2>4 DEF Accounted
<1>9. CASE MarkFailed(w)
  <2>1. pc[w] = "markFailed" /\ pc'[w] = "finish" /\ status'[r] = "FAILED" /\ UNCHANGED sentId
    BY <1>9 DEF MarkFailed
  <2>2. ~Running(r, w)' /\ ~Ready(r)'
    BY <1>1, <2>1 DEF Running, Ready, Open, SendSteps
  <2>3. Counted(r)'
    BY <1>4, <2>2 DEF Bit
  <2>4. StoredInTime(r)' /\ NamedWasSent(r)'
    BY <1>1, <1>3, <1>5, <2>1 DEF Accounted, StoredInTime, NamedWasSent, RunFits, SendSteps
  <2>5. QED
    BY <1>3, <2>3, <2>4 DEF Accounted
<1>10. QED
  BY <1>6, <1>7, <1>8, <1>9

\* The run sends, or a call of it fails.
LEMMA SendAccounted ==
  ASSUME TypeInv, TypeInv', NEW w \in Workers, NEW r \in Requests, loc[w].request = r,
         Accounted(r), Post(w) \/ CallFails(w) \/ StoreFails(w)
  PROVE  Accounted(r)'
<1> USE DEF TypeInv, TypeOK, Queue!TypeOK
<1>1. /\ pc[w] # "idle" /\ job[r] # "none"
      /\ UNCHANGED <<at, job, owner, status, sentId, receipts>>
      /\ \A v \in Workers \ {w} : pc'[v] = pc[v] /\ loc'[v] = loc[v]
      /\ loc'[w].request = r
  <2>1. pc[w] # "idle" /\ UNCHANGED <<at, job, owner, status, sentId, receipts>>
    BY DEF Post, CallFails, StoreFails, SendSteps
  <2>2. \E l \in Locals : l.request = r /\ loc' = [loc EXCEPT ![w] = l]
    BY DEF Post, CallFails, StoreFails, Locals
  <2>3. \A v \in Workers \ {w} : pc'[v] = pc[v]
    BY DEF Post, CallFails, StoreFails
  <2>4. QED
    BY <2>1, <2>2, <2>3 DEF LocalsFit
<1>2. \A reason \in Reasons : why[r][reason] \in Nat
  OBVIOUS
<1>3. ASSUME Because(r, "lost")
      PROVE  /\ Credit(r)' = Credit(r) + 1 /\ ~Doubtless(r)'
             /\ why'[r]["unanswered"] = why[r]["unanswered"]
  <2>1. /\ why'[r]["lost"] = why[r]["lost"] + 1
        /\ \A reason \in Reasons \ {"lost"} : why'[r][reason] = why[r][reason]
    BY <1>3, WhyTyped DEF Reasons
  <2>2. why'[r]["lost"] # 0
    BY <1>2, <2>1 DEF Reasons
  <2>3. Credit(r)' = Credit(r) + 1
    BY <1>2, <2>1 DEF Credit, Reasons
  <2>4. QED
    BY <2>1, <2>2, <2>3 DEF Doubtless, Reasons
<1>4. ASSUME why'[r]["unanswered"] = why[r]["unanswered"]
      PROVE  /\ RunStep(r, w) /\ Untouched(r)'
             /\ Doubtless(r) => owner[r] = w /\ \A v \in Workers : loc[v].request = r => v = w
             /\ owner[r] # w => (JobAt(r)' <=> JobAt(r))
  <2>1. RunStep(r, w)
    BY <1>1, <1>4 DEF RunStep
  <2>2. QED
    BY <2>1, RunStepKeeps
<1>5. CASE Post(w)
  <2>1. /\ pc[w] = "post" /\ pc'[w] = "store" /\ UNCHANGED why
        /\ accepted'[r] = accepted[r] + 1 /\ accepted[r] \in Nat
    BY <1>5 DEF Post, Accept
  <2>2. Running(r, w) /\ ~Running(r, w)' /\ (Ready(r)' => Ready(r))
    BY <1>1, <1>4, <2>1 DEF Running, Ready, JobAt, Open, SendSteps
  <2>3. Counted(r)'
    <3>1. Bit(Running(r, w)') + Bit(Ready(r)') + 1 <= Bit(Running(r, w)) + Bit(Ready(r)) + 0
      BY <2>2 DEF Bit
    <3>2. Credit(r)' = Credit(r) + 0
      BY <1>2, <2>1 DEF Credit, Reasons
    <3>3. QED
      BY <1>4, <2>1, <3>1, <3>2, RunStepCounts
  <2>4. StoredInTime(r)'
    <3>1. Doubtless(r) => RunFits(r, w)' /\ status'[r] = "QUEUED"
      BY <1>1, <2>1 DEF Accounted, StoredInTime, RunFits, SendSteps
    <3>2. Doubtless(r)' => Doubtless(r)
      BY <2>1 DEF Doubtless
    <3>3. QED
      BY <1>1, <1>4, <2>1, <3>1, <3>2 DEF StoredInTime
  <2>5. NamedWasSent(r)'
    BY <1>1, <2>1 DEF Accounted, NamedWasSent
  <2>6. QED
    BY <1>4, <2>1, <2>3, <2>4, <2>5 DEF Accounted
<1>6. CASE CallFails(w)
  <2>1. /\ pc[w] \in SendSteps /\ pc'[w] = "error" /\ accepted[r] \in Nat
        /\ \/ UNCHANGED <<accepted, why>>
           \/ Because(r, "lost") /\ accepted'[r] = accepted[r] + 1
    BY <1>6 DEF CallFails, Accept
  <2>2. Running(r, w) /\ Running(r, w)'
    BY <1>1, <2>1 DEF Running
  <2>3. Ready(r)' => Ready(r)
    <3>1. owner[r] = w => ~JobAt(r)'
      BY <1>1, <2>1, ConstantsAssumption DEF JobAt, ConstantsAssumption
    <3>2. QED
      BY <1>1, <1>3, <1>4, <2>1, <3>1 DEF Ready, Open
  <2>4. CASE UNCHANGED <<accepted, why>>
    <3>1. Counted(r)'
      <4>1. /\ accepted'[r] = accepted[r] + 0 /\ Credit(r)' = Credit(r) + 0
            /\ Bit(Running(r, w)') + Bit(Ready(r)') + 0 <= Bit(Running(r, w)) + Bit(Ready(r)) + 0
        BY <1>2, <2>1, <2>2, <2>3, <2>4 DEF Credit, Reasons, Bit
      <4>2. QED
        BY <1>4, <2>4, <4>1, RunStepCounts
    <3>2. Doubtless(r) => RunFits(r, w)'
      BY <1>1, <2>1, <2>4 DEF Accounted, StoredInTime, RunFits, SendSteps
    <3>3. StoredInTime(r)' /\ NamedWasSent(r)'
      BY <1>1, <1>4, <2>1, <2>4, <3>2 DEF Accounted, StoredInTime, NamedWasSent, Doubtless, SendSteps
    <3>4. QED
      BY <1>4, <2>4, <3>1, <3>3 DEF Accounted
  <2>5. CASE Because(r, "lost") /\ accepted'[r] = accepted[r] + 1
    <3>1. Counted(r)'
      <4>1. Bit(Running(r, w)') + Bit(Ready(r)') + 1 <= Bit(Running(r, w)) + Bit(Ready(r)) + 1
        BY <2>2, <2>3 DEF Bit
      <4>2. QED
        BY <1>3, <1>4, <2>5, <4>1, RunStepCounts
    <3>2. StoredInTime(r)' /\ NamedWasSent(r)'
      BY <1>1, <1>3, <2>1, <2>5 DEF Accounted, StoredInTime, NamedWasSent
    <3>3. QED
      BY <1>3, <1>4, <2>5, <3>1, <3>2 DEF Accounted
  <2>6. QED
    BY <2>1, <2>4, <2>5
<1>7. CASE StoreFails(w)
  <2>1. pc[w] = "store" /\ pc'[w] = "error" /\ UNCHANGED accepted /\ accepted[r] \in Nat
    BY <1>7 DEF StoreFails
  <2>2. Because(r, "lost")
    BY <1>1, <1>7, <2>1 DEF StoreFails, ForgetSend, LocalsFit
  <2>3. ~Running(r, w) /\ (Ready(r)' => Ready(r))
    <3>1. owner[r] = w => ~JobAt(r)'
      BY <1>1, <2>1, ConstantsAssumption DEF JobAt, ConstantsAssumption
    <3>2. QED
      BY <1>1, <1>3, <1>4, <2>1, <2>2, <3>1 DEF Ready, Open, Running, SendSteps
  <2>4. Counted(r)'
    <3>1. Bit(Running(r, w)') + Bit(Ready(r)') + 0 <= Bit(Running(r, w)) + Bit(Ready(r)) + 1
      BY <2>3 DEF Bit
    <3>2. accepted'[r] = accepted[r] + 0
      BY <2>1
    <3>3. QED
      BY <1>3, <1>4, <2>2, <3>1, <3>2, RunStepCounts
  <2>5. StoredInTime(r)' /\ NamedWasSent(r)'
    BY <1>1, <1>3, <2>1, <2>2 DEF Accounted, StoredInTime, NamedWasSent
  <2>6. QED
    BY <1>3, <1>4, <2>2, <2>4, <2>5 DEF Accounted
<1>8. QED
  BY <1>5, <1>6, <1>7

\* What BullMQ does with the job of a run that ends.
LEMMA GivenUp ==
  ASSUME TypeInv, NEW w \in Workers, NEW r \in Requests, job[r] # "none",
         Queue!Fail(w, r) \/ Queue!Complete(w, r)
  PROVE  /\ job'[r] # "none"
         /\ \/ owner[r] # w /\ UNCHANGED <<job[r], owner[r]>>
            \/ /\ owner[r] = w /\ owner'[r] = NoWorker
               /\ job'[r] \in {"waiting", "failed", "done"}
               /\ Queue!Complete(w, r) => job'[r] = "done"
  BY DEF TypeInv, TypeOK, Queue!TypeOK, Queue!Fail, Queue!Complete, Queue!Move

\* The run ends.
LEMMA LeaveAccounted ==
  ASSUME TypeInv, TypeInv', NEW w \in Workers, NEW r \in Requests, loc[w].request = r,
         Accounted(r), HandleError(w) \/ JobFails(w) \/ Finish(w) \/ Crash(w)
  PROVE  Accounted(r)'
<1> USE DEF TypeInv, TypeOK, Queue!TypeOK
<1>1. /\ pc[w] # "idle" /\ job[r] # "none" /\ (owner[r] = w => job[r] = "active")
      /\ UNCHANGED <<at, status, sentId, receipts, accepted>> /\ accepted[r] \in Nat
      /\ \A reason \in Reasons : why[r][reason] \in Nat
  BY ConstantsAssumption DEF ConstantsAssumption, HandleError, JobFails, Finish, Crash, LocalsFit
<1>2. ASSUME UNCHANGED why
      PROVE  Credit(r)' = Credit(r) /\ (Doubtless(r)' <=> Doubtless(r))
  BY <1>2 DEF Credit, Doubtless
<1>3. ASSUME RunStep(r, w)
      PROVE  /\ Untouched(r)'
             /\ Doubtless(r) => owner[r] = w /\ \A v \in Workers : loc[v].request = r => v = w
             /\ owner[r] # w => (JobAt(r)' <=> JobAt(r))
  BY <1>3, RunStepKeeps
<1>4. ASSUME RunStep(r, w), loc'[w].request # r, UNCHANGED why, pc[w] # "store"
      PROVE  StoredInTime(r)' /\ NamedWasSent(r)'
  <2>1. Doubtless(r) => ~(status[r] = "QUEUED" /\ accepted[r] > 0)
    BY <1>3, <1>4 DEF Accounted, StoredInTime
  <2>2. \A v \in Workers : loc'[v].request = r => v # w /\ loc'[v] = loc[v] /\ pc'[v] = pc[v]
    BY <1>4 DEF RunStep
  <2>3. StoredInTime(r)'
    BY <1>1, <1>2, <1>3, <1>4, <2>1, <2>2 DEF Accounted, StoredInTime
  <2>4. NamedWasSent(r)'
    BY <1>1, <2>2 DEF Accounted, NamedWasSent
  <2>5. QED
    BY <2>3, <2>4
<1>5. ASSUME RunStep(r, w), UNCHANGED why,
             Bit(Running(r, w)') + Bit(Ready(r)') <= Bit(Running(r, w)) + Bit(Ready(r))
      PROVE  Counted(r)'
  <2>1. /\ accepted'[r] = accepted[r] + 0 /\ Credit(r)' = Credit(r) + 0
        /\ Bit(Running(r, w)') + Bit(Ready(r)') + 0 <= Bit(Running(r, w)) + Bit(Ready(r)) + 0
    BY <1>1, <1>2, <1>5 DEF Credit, Reasons, Bit
  <2>2. QED
    BY <1>5, <2>1, RunStepCounts
<1>6. ASSUME Leave(w)
      PROVE  /\ loc'[w].request # r /\ pc'[w] = "idle" /\ ~Running(r, w)'
             /\ \A v \in Workers \ {w} : loc'[v] = loc[v] /\ pc'[v] = pc[v]
  BY <1>6, BlankTyped, ConstantsAssumption DEF Leave, Running, ConstantsAssumption
<1>7. ASSUME Leave(w), Queue!Fail(w, r) \/ Queue!Complete(w, r), UNCHANGED why,
             pc[w] \in {"load", "error", "markFailed", "finish"},
             pc[w] = "finish" => Queue!Complete(w, r)
      PROVE  Accounted(r)'
  <2>1. RunStep(r, w)
    BY <1>1, <1>6, <1>7, GivenUp DEF RunStep
  <2>2. Counted(r)'
    <3>1. CASE owner[r] # w
      <4>1. ~Running(r, w)' /\ (Ready(r)' => Ready(r))
        BY <1>1, <1>3, <1>6, <1>7, <2>1, <3>1 DEF Ready, Open
      <4>2. QED
        BY <1>5, <1>7, <2>1, <4>1 DEF Bit
    <3>2. CASE owner[r] = w /\ pc[w] = "load"
      <4>1. ~Running(r, w)' /\ (Ready(r)' => Ready(r))
        BY <1>1, <1>6, <1>7, <3>2 DEF Ready, Open, JobAt
      <4>2. QED
        BY <1>5, <1>7, <2>1, <4>1 DEF Bit
    <3>3. CASE owner[r] = w /\ pc[w] \in {"error", "markFailed"}
      <4>1. ~Running(r, w)' /\ Running(r, w)
        BY <1>6, <1>7, <3>3 DEF Running
      <4>2. QED
        BY <1>5, <1>7, <2>1, <4>1 DEF Bit
    <3>4. CASE owner[r] = w /\ pc[w] = "finish"
      <4>1. ~Running(r, w)' /\ ~Ready(r)'
        BY <1>1, <1>6, <1>7, <3>4, GivenUp DEF Ready, JobAt
      <4>2. QED
        BY <1>5, <1>7, <2>1, <4>1 DEF Bit
    <3>5. QED
      BY <1>7, <3>1, <3>2, <3>3, <3>4
  <2>3. QED
    BY <1>3, <1>4, <1>6, <1>7, <2>1, <2>2 DEF Accounted
<1>8. CASE HandleError(w)
  <2>1. CASE Queue!Fail(w, r) /\ Leave(w)
    BY <1>7, <1>8, <2>1 DEF HandleError
  <2>2. CASE Go(w, "markFailed") /\ UNCHANGED <<queue, loc>>
    <3>1. /\ pc[w] = "error" /\ pc'[w] = "markFailed" /\ UNCHANGED why
          /\ \A v \in Workers \ {w} : loc'[v] = loc[v] /\ pc'[v] = pc[v]
      BY <1>8, <2>2 DEF HandleError
    <3>2. RunStep(r, w)
      BY <1>1, <2>2, <3>1 DEF RunStep
    <3>3. Running(r, w) /\ (Ready(r)' => Ready(r))
      BY <1>1, <1>3, <2>2, <3>1, <3>2 DEF Running, Ready, Open, JobAt
    <3>4. Counted(r)'
      BY <1>5, <3>1, <3>2, <3>3 DEF Bit
    <3>5. StoredInTime(r)' /\ NamedWasSent(r)'
      BY <1>1, <1>2, <1>3, <2>2, <3>1, <3>2
         DEF Accounted, StoredInTime, NamedWasSent, RunFits, SendSteps
    <3>6. QED
      BY <1>3, <3>2, <3>4, <3>5 DEF Accounted
  <2>3. QED
    BY <1>8, <2>1, <2>2 DEF HandleError
<1>9. CASE JobFails(w)
  BY <1>7, <1>9 DEF JobFails
<1>10. CASE Finish(w)
  BY <1>7, <1>10 DEF Finish
<1>11. CASE Crash(w)
  <2>1. Leave(w) /\ ForgetSend(w) /\ UNCHANGED <<job, owner>>
    BY <1>11 DEF Crash
  <2>2. CASE pc[w] = "store"
    <3>1. Because(r, "lost")
      BY <2>1, <2>2 DEF ForgetSend, LocalsFit
    <3>2. /\ why'[r]["lost"] = why[r]["lost"] + 1
          /\ \A reason \in Reasons \ {"lost"} : why'[r][reason] = why[r][reason]
      BY <3>1, WhyTyped DEF Reasons
    <3>3. RunStep(r, w)
      BY <1>1, <1>6, <2>1, <3>2 DEF RunStep, Reasons
    <3>4. Credit(r)' = Credit(r) + 1 /\ why'[r]["lost"] # 0
      BY <1>1, <3>2 DEF Credit, Reasons
    <3>5. Bit(Running(r, w)') + Bit(Ready(r)') + 0 <= Bit(Running(r, w)) + Bit(Ready(r)) + 1
      BY <1>6, <2>1 DEF Bit
    <3>6. accepted'[r] = accepted[r] + 0
      BY <1>1
    <3>7. Counted(r)'
      BY <3>3, <3>4, <3>5, <3>6, RunStepCounts
    <3>8. StoredInTime(r)'
      BY <3>4 DEF StoredInTime, Doubtless, Reasons
    <3>9. NamedWasSent(r)'
      BY <1>1, <1>6, <2>1 DEF Accounted, NamedWasSent
    <3>10. QED
      BY <1>3, <3>3, <3>7, <3>8, <3>9 DEF Accounted
  <2>3. CASE pc[w] # "store"
    <3>1. UNCHANGED why
      BY <2>1, <2>3 DEF ForgetSend
    <3>2. RunStep(r, w)
      BY <1>1, <1>6, <2>1, <3>1 DEF RunStep
    <3>3. Counted(r)'
      <4>1. CASE Running(r, w)
        BY <1>5, <1>6, <2>1, <3>1, <3>2, <4>1 DEF Bit
      <4>2. CASE ~Running(r, w)
        <5>1. owner[r] = w => pc[w] \in {"load", "finish"}
          BY <1>1, <2>3, <4>2 DEF Running, WorkerSteps
        <5>2. Ready(r)' => Ready(r)
          BY <1>1, <1>3, <2>1, <3>2, <5>1 DEF Ready, Open, JobAt
        <5>3. QED
          BY <1>5, <1>6, <2>1, <3>1, <3>2, <5>2 DEF Bit
      <4>3. QED
        BY <4>1, <4>2
    <3>4. QED
      BY <1>3, <1>4, <1>6, <2>1, <2>3, <3>1, <3>2, <3>3 DEF Accounted
  <2>4. QED
    BY <2>2, <2>3
<1>12. QED
  BY <1>8, <1>9, <1>10, <1>11

\* The invariant holds at the start, and every step keeps it.
LEMMA Accounting == Spec => []Inv
<1>1. Init => TypeInv /\ \A r \in Requests : Accounted(r)
  <2> SUFFICES ASSUME Init PROVE TypeInv /\ \A r \in Requests : Accounted(r)
    OBVIOUS
  <2>1. TypeInv
    BY InitTyped
  <2>2. ASSUME NEW r \in Requests PROVE Accounted(r)
    <3>1. /\ at[r] = "new" /\ status[r] = "none" /\ sentId[r] = 0 /\ job[r] = "none"
          /\ accepted[r] = 0 /\ receipts = {} /\ \A reason \in Reasons : why[r][reason] = 0
          /\ \A w \in Workers : loc[w].request # r
      BY BlankTyped, ConstantsAssumption DEF Init, Queue!Init, ConstantsAssumption
    <3>2. Untouched(r) /\ StoredInTime(r) /\ NamedWasSent(r)
      BY <3>1 DEF Untouched, StoredInTime, NamedWasSent
    <3>3. Cardinality(Runs(r)) = 0
      <4>1. Runs(r) = {}
        BY <3>1 DEF Runs, Running
      <4>2. QED
        BY <4>1, FS_EmptySet
    <3>4. Counted(r)
      BY <3>1, <3>3 DEF Counted, Credit, Bit, Reasons
    <3>5. QED
      BY <3>2, <3>4 DEF Accounted
  <2>3. QED
    BY <2>1, <2>2
<1>2. ASSUME TypeInv, \A r \in Requests : Accounted(r), [Next]_vars
      PROVE  TypeInv' /\ \A r \in Requests : Accounted(r)'
  <2>1. TypeInv'
    BY <1>2, NextTyped
  <2>2. ASSUME NEW r \in Requests PROVE Accounted(r)'
    <3>1. ASSUME UNCHANGED vars \/ SetBlocked PROVE Same(r)
      BY <3>1 DEF vars, SetBlocked, Same
    <3>2. ASSUME NEW q \in Requests,
                 \/ AskReply(q) \/ AskVoice(q) \/ AskQuick(q) \/ AskTemplate(q)
                 \/ Serve(q) \/ EnqueueFails(q) \/ RequestFails(q) \/ JobStalls(q)
                 \/ \E w \in Workers : TakeJob(w, q)
                 \/ \E s \in ReceiptStatus : FindReceipt(q, s) \/ StoreReceipt(q, s)
          PROVE  Accounted(r)'
      <4>1. CASE q = r
        BY <1>2, <2>1, <3>2, <4>1, RequestAccounted, QueueAccounted
      <4>2. CASE q # r
        BY <1>2, <3>2, <4>2, OtherRequests, SameAccounted
      <4>3. QED
        BY <4>1, <4>2
    <3>3. ASSUME NEW w \in Workers,
                 Run(w) \/ CallFails(w) \/ StoreFails(w) \/ JobFails(w) \/ Crash(w)
          PROVE  Accounted(r)'
      <4>1. CASE loc[w].request = r
        BY <1>2, <2>1, <3>3, <4>1, ForwardAccounted, SendAccounted, LeaveAccounted DEF Run
      <4>2. CASE loc[w].request # r
        BY <1>2, <3>3, <4>2, OtherMessages, SameAccounted
      <4>3. QED
        BY <4>1, <4>2
    <3>4. QED
      BY <1>2, <3>1, <3>2, <3>3, SameAccounted DEF Next
  <2>3. QED
    BY <2>1, <2>2
<1>3. QED
  <2>1. Init => Inv
    BY <1>1 DEF Inv
  <2>2. Inv /\ [Next]_vars => Inv'
    BY <1>2 DEF Inv
  <2>3. QED
    BY <2>1, <2>2, PTL DEF Spec

(***************************************************************************)
(* The theorems.                                                           *)
(***************************************************************************)

\* A message is sent again only as often as the outcome of a send was not stored,
\* its job was run twice at once, or an unknown receipt made it QUEUED, see
\* RepeatsAccounted.
THEOREM RepeatsHaveReasons == Spec => []RepeatsAccounted
<1>1. ASSUME Inv PROVE RepeatsAccounted
  <2> USE DEF Inv
  <2> SUFFICES ASSUME NEW r \in Requests PROVE accepted[r] <= Credit(r)
    BY DEF RepeatsAccounted, Credit
  <2>1. accepted[r] \in Nat /\ Credit(r) \in Nat /\ Bit(Ready(r)) \in {0, 1}
    BY <1>1 DEF TypeInv, TypeOK, Credit, Reasons, Bit
  <2>2. Cardinality(Runs(r)) \in Nat
    BY ConstantsAssumption, FS_Subset, FS_CardinalityType DEF ConstantsAssumption, Runs
  <2>3. QED
    BY <1>1, <2>1, <2>2 DEF Accounted, Counted
<1>2. QED
  BY <1>1, Accounting, PTL

\* A message shown as FAILED did not reach the provider, but for the reasons that
\* FailedWasNotSent names.
THEOREM FailuresAreFailures == Spec => []FailedWasNotSent
<1>1. ASSUME Inv PROVE FailedWasNotSent
  <2> USE DEF Inv
  <2> SUFFICES ASSUME NEW r \in Requests, status[r] = "FAILED", accepted[r] > 0
               PROVE  \E reason \in Reasons : why[r][reason] > 0
    BY DEF FailedWasNotSent
  <2>1. ~Doubtless(r)
    BY <1>1 DEF Accounted, StoredInTime, TypeInv, TypeOK
  <2>2. QED
    BY <1>1, <2>1 DEF Doubtless, TypeInv, TypeOK
<1>2. QED
  BY <1>1, Accounting, PTL

(***************************************************************************)
(* The contact block.                                                      *)
(***************************************************************************)

\* A step that sends finds its message in the hands of the sender.
LEMMA SendsInFlight ==
  ASSUME TypeInv, [Next]_vars, NEW r \in Requests, accepted'[r] > accepted[r]
  PROVE  InFlight(r)
<1> USE DEF TypeInv, TypeOK
<1>0. accepted[r] \in Nat /\ accepted'[r] # accepted[r]
  OBVIOUS
<1>1. ASSUME NEW q \in Requests, Accept(q) PROVE q = r
  BY <1>0, <1>1 DEF Accept
<1>2. ASSUME NEW q \in Requests, PostTemplate(q) \/ RequestFails(q) PROVE InFlight(r)
  BY <1>0, <1>1, <1>2 DEF PostTemplate, RequestFails, InFlight
<1>3. ASSUME NEW w \in Workers, Post(w) \/ CallFails(w) PROVE InFlight(r)
  <2>1. pc[w] \in SendSteps /\ Accept(loc[w].request) /\ loc[w].request \in Requests
    BY <1>0, <1>3 DEF Post, CallFails, LocalsFit, SendSteps
  <2>2. QED
    BY <1>1, <2>1 DEF InFlight
<1>4. ASSUME UNCHANGED accepted PROVE FALSE
  BY <1>0, <1>4
<1>5. CASE UNCHANGED vars
  BY <1>4, <1>5 DEF vars
<1>6. ASSUME NEW q \in Requests,
             \/ AskReply(q) \/ AskVoice(q) \/ AskQuick(q) \/ AskTemplate(q)
             \/ Serve(q) \/ EnqueueFails(q) \/ JobStalls(q)
             \/ \E w \in Workers : TakeJob(w, q)
             \/ \E s \in ReceiptStatus : FindReceipt(q, s) \/ StoreReceipt(q, s)
      PROVE  InFlight(r)
  BY <1>2, <1>4, <1>6
     DEF AskReply, AskVoice, AskQuick, AskTemplate, Ask, Serve, CreateRecord, Enqueue,
         MarkEnqueueFailed, RecordSentTemplate, EnqueueFails, JobStalls, TakeJob, FindReceipt,
         StoreReceipt
<1>7. ASSUME NEW w \in Workers, Run(w) \/ StoreFails(w) \/ JobFails(w) \/ Crash(w)
      PROVE  InFlight(r)
  BY <1>3, <1>4, <1>7
     DEF Run, Load, Convert, Upload, StoreSent, HandleError, MarkFailed, Finish, StoreFails,
         JobFails, Crash
<1>8. CASE SetBlocked
  BY <1>4, <1>8 DEF SetBlocked
<1>9. QED
  BY <1>2, <1>3, <1>5, <1>6, <1>7, <1>8 DEF Next

\* While the customer is blocked no message comes into the hands of the sender.
LEMMA BlockHolds ==
  ASSUME TypeInv, TypeInv', [Next]_vars, NEW r \in Requests, InFlight(r)', ~SetBlocked
  PROVE  InFlight(r) \/ ~blocked
<1> USE DEF TypeInv, TypeOK
<1>1. ASSUME UNCHANGED <<at, worker>> PROVE InFlight(r)
  BY <1>1 DEF worker, InFlight
<1>2. ASSUME UNCHANGED worker, NEW q \in Requests, NEW step, step # "post", Goto(q, step)
      PROVE  InFlight(r)
  BY <1>2 DEF worker, InFlight, Goto
<1>3. ASSUME UNCHANGED at, NEW w \in Workers,
             \A v \in Workers \ {w} : pc'[v] = pc[v] /\ loc'[v] = loc[v],
             pc'[w] \in SendSteps =>
               (pc[w] \in SendSteps /\ loc'[w].request = loc[w].request) \/ ~blocked
      PROVE  InFlight(r) \/ ~blocked
  BY <1>3 DEF InFlight
<1>4. ASSUME NEW q \in Requests, NEW next, Ask(q, next) PROVE InFlight(r) \/ ~blocked
  <2>1. CASE blocked
    BY <1>2, <1>4, <2>1 DEF Ask
  <2>2. QED
    BY <2>1
<1>5. ASSUME NEW q \in Requests, Serve(q) \/ EnqueueFails(q) \/ RequestFails(q)
      PROVE  InFlight(r)
  BY <1>2, <1>5
     DEF Serve, CreateRecord, Enqueue, MarkEnqueueFailed, PostTemplate, RecordSentTemplate,
         EnqueueFails, RequestFails
<1>6. ASSUME NEW q \in Requests,
             \/ JobStalls(q)
             \/ \E s \in ReceiptStatus : FindReceipt(q, s) \/ StoreReceipt(q, s)
      PROVE  InFlight(r)
  BY <1>1, <1>6 DEF JobStalls, FindReceipt, StoreReceipt
<1>7. ASSUME NEW q \in Requests, NEW w \in Workers, TakeJob(w, q)
      PROVE  InFlight(r) \/ ~blocked
  <2>1. UNCHANGED at /\ pc'[w] = "load"
        /\ \A v \in Workers \ {w} : pc'[v] = pc[v] /\ loc'[v] = loc[v]
    BY <1>7 DEF TakeJob, Go, Knows
  <2>2. QED
    BY <1>3, <2>1 DEF SendSteps
<1>8. ASSUME NEW w \in Workers,
             Run(w) \/ CallFails(w) \/ StoreFails(w) \/ JobFails(w) \/ Crash(w)
      PROVE  InFlight(r) \/ ~blocked
  <2>1. UNCHANGED at /\ \A v \in Workers \ {w} : pc'[v] = pc[v] /\ loc'[v] = loc[v]
    BY <1>8
       DEF Run, Load, Convert, Upload, Post, StoreSent, HandleError, MarkFailed, Finish,
           CallFails, StoreFails, JobFails, Crash, Leave, Go, Knows
  <2>2. ASSUME Load(w) PROVE pc'[w] \in SendSteps => ~blocked
    BY <2>2 DEF Load, Go, SendSteps
  <2>3. ASSUME Convert(w) \/ Upload(w)
        PROVE  pc[w] \in SendSteps /\ loc'[w].request = loc[w].request
    BY <2>3 DEF Convert, Upload, SendSteps
  <2>4. ASSUME \/ Post(w) \/ StoreSent(w) \/ HandleError(w) \/ MarkFailed(w) \/ Finish(w)
               \/ CallFails(w) \/ StoreFails(w) \/ JobFails(w) \/ Crash(w)
        PROVE  pc'[w] \notin SendSteps
    BY <2>4
       DEF Post, StoreSent, HandleError, MarkFailed, Finish, CallFails, StoreFails, JobFails,
           Crash, Leave, Go, SendSteps
  <2>5. QED
    BY <1>3, <1>8, <2>1, <2>2, <2>3, <2>4 DEF Run
<1>9. CASE UNCHANGED vars
  BY <1>1, <1>9 DEF vars
<1>10. QED
  BY <1>4, <1>5, <1>6, <1>7, <1>8, <1>9
     DEF Next, AskReply, AskVoice, AskQuick, AskTemplate

\* The block and the messages it bars change only when the block is set.
LEMMA BlockKept ==
  ASSUME [Next]_vars, ~SetBlocked
  PROVE  UNCHANGED <<blocked, barred>>
<1>1. CASE UNCHANGED vars
  BY <1>1 DEF vars, customer, history
<1>2. ASSUME NEW r \in Requests,
             \/ AskReply(r) \/ AskVoice(r) \/ AskQuick(r) \/ AskTemplate(r)
             \/ Serve(r) \/ EnqueueFails(r) \/ RequestFails(r) \/ JobStalls(r)
             \/ \E w \in Workers : TakeJob(w, r)
             \/ \E s \in ReceiptStatus : FindReceipt(r, s) \/ StoreReceipt(r, s)
      PROVE  UNCHANGED <<blocked, barred>>
  BY <1>2
     DEF AskReply, AskVoice, AskQuick, AskTemplate, Ask, Serve, CreateRecord, Enqueue,
         MarkEnqueueFailed, PostTemplate, RecordSentTemplate, EnqueueFails, RequestFails,
         JobStalls, TakeJob, FindReceipt, StoreReceipt, customer, history
<1>3. ASSUME NEW w \in Workers,
             Run(w) \/ CallFails(w) \/ StoreFails(w) \/ JobFails(w) \/ Crash(w)
      PROVE  UNCHANGED <<blocked, barred>>
  BY <1>3
     DEF Run, Load, Convert, Upload, Post, StoreSent, HandleError, MarkFailed, Finish,
         CallFails, StoreFails, JobFails, Crash, customer, history
<1>4. QED
  BY <1>1, <1>2, <1>3 DEF Next

\* docs/ARCHITECTURE.md: once the customer is blocked, a message that was not in
\* the hands of the sender then is not sent while the block lasts, see
\* BlockStopsQueued.
THEOREM BlockedStaysUnsent == Spec => BlockStopsQueued
<1>1. Init => BarredNotInFlight
  BY DEF Init, BarredNotInFlight
<1>2. ASSUME TypeInv, TypeInv', BarredNotInFlight, [Next]_vars PROVE BarredNotInFlight'
  <2> SUFFICES ASSUME blocked', NEW r \in barred', InFlight(r)' PROVE FALSE
    BY DEF BarredNotInFlight
  <2>1. CASE SetBlocked
    <3>1. ~InFlight(r) /\ UNCHANGED <<at, worker>>
      BY <1>2, <2>1 DEF SetBlocked, TypeInv, TypeOK
    <3>2. QED
      BY <3>1 DEF InFlight, worker
  <2>2. CASE ~SetBlocked
    <3>1. blocked /\ r \in barred /\ r \in Requests
      BY <1>2, <2>2, BlockKept DEF TypeInv, TypeOK
    <3>2. QED
      BY <1>2, <2>2, <3>1, BlockHolds DEF BarredNotInFlight
  <2>3. QED
    BY <2>1, <2>2
<1>3. ASSUME TypeInv, BarredNotInFlight, [Next]_vars
      PROVE  [\A r \in Requests :
                accepted'[r] > accepted[r] /\ blocked => r \notin barred]_vars
  BY <1>3, SendsInFlight DEF BarredNotInFlight
<1>4. Spec => []TypeInv
  <2>1. Inv => TypeInv
    BY DEF Inv
  <2>2. QED
    BY <2>1, Accounting, PTL
<1>5. QED
  BY <1>1, <1>2, <1>3, <1>4, PTL DEF Spec, BlockStopsQueued
=============================================================================
