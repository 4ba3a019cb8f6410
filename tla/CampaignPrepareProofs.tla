------------------------ MODULE CampaignPrepareProofs ------------------------
(***************************************************************************)
(* Proofs about CampaignPrepare: type correctness, that a published         *)
(* campaign is prepared in full, and that a customer gets one message, for  *)
(* all customers, chunks, workers, callers and budgets of outside events.   *)
(***************************************************************************)
EXTENDS CampaignPrepare, FiniteSetTheorems, TLAPS

USE DEF Go, Keep, campaign, customers, queue

\* The rows that wait, and those a chunk makes wait, can be counted.
LEMMA CountIsNat == ASSUME NEW S \in SUBSET Debts PROVE Cardinality(S) \in Nat
  BY ConstantsAssumption, FS_Subset, FS_CardinalityType DEF ConstantsAssumption

(***************************************************************************)
(* Type correctness.                                                       *)
(***************************************************************************)

\* The request that creates the campaign keeps every variable in its type.
LEMMA CreateTyped ==
  ASSUME TypeOK, NEW t \in Threads, Create(t) \/ AskCampaign(t)
  PROVE  TypeOK'
<1> USE DEF TypeOK, Steps, CallerSteps, CampaignStatus, Unprepared, Ended,
            JobState, Spend, Events, AddJob
<1>1. CASE AskCampaign(t)
  BY <1>1 DEF AskCampaign
<1>2. CASE CreateCampaign(t)
  BY <1>2 DEF CreateCampaign
<1>3. CASE Enqueue(t)
  BY <1>3 DEF Enqueue
<1>4. CASE EnqueueFails(t)
  BY <1>4 DEF EnqueueFails
<1>5. CASE MarkEnqueueFailed(t)
  BY <1>5 DEF MarkEnqueueFailed
<1>6. QED
  BY <1>1, <1>2, <1>3, <1>4, <1>5 DEF Create

\* So does the delivery of the job, its end, its retries and its stalls.
LEMMA JobTyped ==
  ASSUME TypeOK, NEW t \in Threads,
         TakeJob(t) \/ Finish(t) \/ Throws(t) \/ Crash(t) \/ JobStalls
  PROVE  TypeOK'
<1> USE DEF TypeOK, Steps, WorkerSteps, Locals, Blank, CampaignStatus, JobState,
            Spend, Events, LeaveJob
<1>1. CASE TakeJob(t)
  BY <1>1 DEF TakeJob
<1>2. CASE Finish(t)
  BY <1>2 DEF Finish
<1>3. CASE Throws(t)
  BY <1>3 DEF Throws
<1>4. CASE Crash(t)
  BY <1>4 DEF Crash
<1>5. CASE JobStalls
  BY <1>5 DEF JobStalls
<1>6. QED
  BY <1>1, <1>2, <1>3, <1>4, <1>5

\* So does each step of the preparation.
LEMMA PrepareTyped ==
  ASSUME TypeOK, NEW t \in Threads, Prepare(t)
  PROVE  TypeOK'
<1> USE DEF TypeOK, Steps, WorkerSteps, PrepareSteps, CampaignStatus, Unprepared,
            Prepared, Ended, Locals, Spend, Events
<1>1. CASE ReadCampaign(t)
  BY <1>1 DEF ReadCampaign
<1>2. CASE BeginPreparation(t)
  BY <1>2 DEF BeginPreparation, Blank
<1>3. CASE FetchChunk(t)
  <2>1. loc[t] \in Locals
    OBVIOUS
  <2>2. loc'[t] \in Locals /\ loc' \in [Threads -> Locals]
    BY <1>3, <2>1 DEF FetchChunk
  <2>3. QED
    BY <1>3, <2>2 DEF FetchChunk
<1>4. CASE UpsertChunk(t)
  <2>1. Cardinality(EligibleOf(loc[t])) \in Nat
    BY CountIsNat DEF EligibleOf
  <2>2. eligible' \in Nat
    BY <1>4, <2>1 DEF UpsertChunk
  <2>3. row' \in [Debts -> RowStatus]
    BY <1>4 DEF UpsertChunk, RowStatus
  <2>4. QED
    BY <1>4, <2>2, <2>3 DEF UpsertChunk
<1>5. CASE CountRows(t)
  <2>1. Cardinality(Pending) \in Nat
    BY CountIsNat DEF Pending
  <2>2. QED
    BY <1>5, <2>1 DEF CountRows
<1>6. CASE Publish(t)
  BY <1>6 DEF Publish
<1>7. CASE PreparationFails(t)
  BY <1>7 DEF PreparationFails
<1>8. CASE GiveUp(t)
  BY <1>8 DEF GiveUp
<1>9. CASE Finish(t)
  BY <1>9, JobTyped
<1>10. QED
  BY <1>1, <1>2, <1>3, <1>4, <1>5, <1>6, <1>7, <1>8, <1>9 DEF Prepare

\* So do cancellations, progress requests, opt-outs and archived debts.
LEMMA BesideTyped ==
  ASSUME TypeOK,
         \/ \E t \in Threads : Carry(t) \/ AskCancel(t) \/ AskProgress(t)
         \/ \E c \in Customers : OptOut(c)
         \/ \E d \in Debts : ArchiveDebt(d)
  PROVE  TypeOK'
<1> USE DEF TypeOK, Steps, CallerSteps, CampaignStatus, Unprepared, Prepared,
            Ended, Locals, Blank, RowStatus, Spend, Events
<1>1. ASSUME NEW t \in Threads, Carry(t) PROVE TypeOK'
  <2>1. CASE CancelTx(t)
    BY <2>1 DEF CancelTx
  <2>2. CASE GroupRows(t)
    BY <2>2 DEF GroupRows
  <2>3. CASE ReadStatus(t)
    BY <2>3 DEF ReadStatus
  <2>4. CASE StoreStatus(t)
    BY <2>4 DEF StoreStatus
  <2>5. QED
    BY <1>1, <2>1, <2>2, <2>3, <2>4 DEF Carry
<1>2. ASSUME NEW t \in Threads, AskCancel(t) \/ AskProgress(t) PROVE TypeOK'
  BY <1>2 DEF AskCancel, AskProgress
<1>3. ASSUME NEW c \in Customers, OptOut(c) PROVE TypeOK'
  BY <1>3 DEF OptOut
<1>4. ASSUME NEW d \in Debts, ArchiveDebt(d) PROVE TypeOK'
  BY <1>4 DEF ArchiveDebt
<1>5. QED
  BY <1>1, <1>2, <1>3, <1>4

\* Every step keeps the types.
LEMMA NextTyped == TypeOK /\ [Next]_vars => TypeOK'
<1> SUFFICES ASSUME TypeOK, [Next]_vars PROVE TypeOK'
  OBVIOUS
<1>1. CASE UNCHANGED vars
  BY <1>1 DEF vars, TypeOK
<1>2. CASE \E t \in Threads : Step(t) \/ TakeJob(t) \/ Throws(t) \/ Crash(t)
  BY <1>2, CreateTyped, JobTyped, PrepareTyped, BesideTyped DEF Step
<1>3. CASE \E t \in Threads : AskCampaign(t) \/ AskCancel(t) \/ AskProgress(t)
  BY <1>3, CreateTyped, BesideTyped
<1>4. CASE \/ \E c \in Customers : OptOut(c)
           \/ \E d \in Debts : ArchiveDebt(d)
  BY <1>4, BesideTyped
<1>5. CASE JobStalls
  BY <1>5 DEF JobStalls, TypeOK, JobState, Spend, Events
<1>6. QED
  BY <1>1, <1>2, <1>3, <1>4, <1>5 DEF Next

\* The program starts in a typed state.
LEMMA InitTyped == Init => TypeOK
<1> SUFFICES ASSUME Init PROVE TypeOK
  OBVIOUS
<1>1. Blank \in Locals
  BY DEF Blank, Locals, CampaignStatus
<1>2. left \in [Events -> Nat]
  BY ConstantsAssumption DEF ConstantsAssumption, Init
<1>3. loc \in [Threads -> Locals] /\ pc \in [Threads -> Steps]
  BY <1>1 DEF Init, Steps
<1>4. QED
  BY <1>2, <1>3 DEF Init, TypeOK, CampaignStatus, RowStatus, JobState

\* Every reachable state is typed: the shape of the campaign, its rows, its job
\* and what each worker and request remembers.
THEOREM TypeCorrect == Spec => []TypeOK
  BY InitTyped, NextTyped, PTL DEF Spec

(***************************************************************************)
(* A published campaign is prepared in full.  The strengthening says what   *)
(* each run of the job has covered so far: rows are never deleted and debts *)
(* never come back, so what a run has covered stays covered, whoever else   *)
(* writes rows beside it.                                                   *)
(***************************************************************************)
ChunkOfDebt(d) == ChunkOf[CustomerOf[d]]
Written(d) == row[d] # "none"
Covered(n) == \A d \in active : ChunkOfDebt(d) < n => Written(d)
Whole == \A d \in active : Written(d)

ThreadCovers(t) ==
  /\ pc[t] \in {"fetch", "upsert"} => Covered(loc[t].chunk)
  /\ pc[t] = "upsert" =>
       \A d \in active : ChunkOfDebt(d) = loc[t].chunk => d \in loc[t].debts
  /\ pc[t] = "publish" => Whole
  /\ pc[t] = "store" /\ loc[t].seen \in Prepared => Whole

FullInv ==
  TypeOK /\ PreparedInFull /\ \A t \in Threads : ThreadCovers(t)

RowsKept ==
  active' \subseteq active /\ \A d \in Debts : Written(d) => Written(d)'

\* No step deletes a row or brings a debt back.
LEMMA StepKeepsRows == TypeOK /\ [Next]_vars => RowsKept
<1> SUFFICES ASSUME TypeOK, [Next]_vars PROVE RowsKept
  OBVIOUS
<1> USE DEF RowsKept, Written, TypeOK
<1>1. CASE UNCHANGED <<row, active>>
  BY <1>1
<1>2. CASE \E t \in Threads : UpsertChunk(t)
  BY <1>2 DEF UpsertChunk
<1>3. CASE \E t \in Threads : CancelTx(t)
  BY <1>3 DEF CancelTx
<1>4. CASE \E c \in Customers : OptOut(c)
  BY <1>4 DEF OptOut
<1>5. CASE \E d \in Debts : ArchiveDebt(d)
  BY <1>5 DEF ArchiveDebt
<1>6. ASSUME NEW t \in Threads, Create(t)
      PROVE  UNCHANGED <<row, active>>
  BY <1>6 DEF Create, CreateCampaign, Enqueue, EnqueueFails, MarkEnqueueFailed
<1>7. ASSUME NEW t \in Threads, Prepare(t), ~UpsertChunk(t)
      PROVE  UNCHANGED <<row, active>>
  BY <1>7 DEF Prepare, ReadCampaign, BeginPreparation, FetchChunk, CountRows,
     Publish, PreparationFails, GiveUp, Finish
<1>8. ASSUME NEW t \in Threads, Carry(t), ~CancelTx(t)
      PROVE  UNCHANGED <<row, active>>
  BY <1>8 DEF Carry, GroupRows, ReadStatus, StoreStatus
<1>9. ASSUME NEW t \in Threads,
             \/ TakeJob(t) \/ Throws(t) \/ Crash(t) \/ JobStalls
             \/ AskCampaign(t) \/ AskCancel(t) \/ AskProgress(t)
      PROVE  UNCHANGED <<row, active>>
  BY <1>9 DEF TakeJob, Throws, Crash, JobStalls, AskCampaign, AskCancel,
     AskProgress
<1>10. CASE JobStalls
  BY <1>10 DEF JobStalls
<1>11. CASE UNCHANGED vars
  BY <1>11 DEF vars
<1>12. QED
  BY <1>1, <1>2, <1>3, <1>4, <1>5, <1>6, <1>7, <1>8, <1>9, <1>10, <1>11
     DEF Next, Step

\* What a thread has covered stays covered while it does not move.
LEMMA OthersCover ==
  ASSUME TypeOK, RowsKept, NEW t \in Threads, ThreadCovers(t),
         pc'[t] = pc[t], loc'[t] = loc[t]
  PROVE  ThreadCovers(t)'
  BY DEF RowsKept, ThreadCovers, Covered, Whole, TypeOK, ChunkOfDebt

\* A campaign that was prepared in full stays so while its status does not move.
LEMMA StatusCovers ==
  ASSUME TypeOK, RowsKept, PreparedInFull, status' = status \/ status' \notin Prepared
  PROVE  PreparedInFull'
  BY DEF RowsKept, PreparedInFull, Written, TypeOK

\* The preparation fetches the chunks in order and publishes after the last.
LEMMA PrepareCovers ==
  ASSUME FullInv, RowsKept, NEW t \in Threads, Prepare(t)
  PROVE  ThreadCovers(t)' /\ PreparedInFull'
<1> USE DEF FullInv
<1> USE StatusCovers
<1>0. TypeOK'
  BY PrepareTyped
<1>a. \A d \in Debts : ChunkOfDebt(d) \in 1..Chunks
  BY ConstantsAssumption DEF ConstantsAssumption, ChunkOfDebt, Customers
<1>b. pc \in [Threads -> Steps] /\ loc \in [Threads -> Locals] /\ active \subseteq Debts
  BY DEF TypeOK
<1>c. Chunks \in Nat /\ loc[t].chunk \in Nat
  BY <1>b, ConstantsAssumption DEF ConstantsAssumption, Locals
<1>1. CASE ReadCampaign(t)
  BY <1>1, <1>b DEF ReadCampaign, ThreadCovers
<1>2. CASE BeginPreparation(t)
  <2>1. loc'[t].chunk = 1 /\ pc'[t] = "fetch" /\ active' = active
    BY <1>2, <1>b DEF BeginPreparation, Blank
  <2>2. Covered(1)'
    BY <1>a, <1>b, <2>1 DEF Covered, ChunkOfDebt
  <2>3. QED
    BY <1>2, <2>1, <2>2 DEF BeginPreparation, ThreadCovers, Prepared
<1>3. CASE FetchChunk(t)
  <2>1. /\ pc'[t] = "upsert" /\ pc[t] = "fetch"
        /\ loc'[t].chunk = loc[t].chunk
        /\ loc'[t].debts = {d \in active : CustomerOf[d] \in
                              {c \in Customers : ChunkOf[c] = loc[t].chunk}}
        /\ UNCHANGED <<row, active, status>>
    BY <1>3, <1>b DEF FetchChunk, Locals
  <2>2. \A d \in active : ChunkOfDebt(d) = loc[t].chunk => d \in loc'[t].debts
    BY <2>1, <1>b DEF ChunkOfDebt, Customers
  <2>3. Covered(loc[t].chunk)
    BY <2>1 DEF ThreadCovers
  <2>4. QED
    BY <2>1, <2>2, <2>3 DEF ThreadCovers, Covered, Written, ChunkOfDebt
<1>4. CASE UpsertChunk(t)
  <2>1. /\ pc[t] = "upsert" /\ pc'[t] = "fetch"
        /\ loc'[t].chunk = loc[t].chunk + 1
        /\ UNCHANGED <<active, status>>
    BY <1>4, <1>b DEF UpsertChunk, Locals
  <2>2. \A d \in active : d \in loc[t].debts => Written(d)'
    BY <1>4, <1>b DEF UpsertChunk, Written
  <2>3. \A d \in active : ChunkOfDebt(d) < loc[t].chunk => Written(d)'
    BY <2>1, <1>b DEF ThreadCovers, Covered, RowsKept
  <2>4. \A d \in active : ChunkOfDebt(d) = loc[t].chunk => Written(d)'
    BY <2>1, <2>2 DEF ThreadCovers
  <2>5. \A d \in active : ChunkOfDebt(d) < loc[t].chunk + 1 => Written(d)'
    BY <2>3, <2>4, <1>a, <1>b, <1>c
  <2>6. QED
    BY <2>1, <2>5 DEF ThreadCovers, Covered, ChunkOfDebt
<1>5. CASE CountRows(t)
  <2>1. /\ pc[t] = "fetch" /\ pc'[t] = "publish"
        /\ UNCHANGED <<row, active, status>>
    BY <1>5, <1>b DEF CountRows
  <2>2. ~(loc[t].chunk <= Chunks)
    BY <1>5 DEF CountRows, MoreChunks
  <2>3. Whole
    BY <2>1, <2>2, <1>a, <1>b, <1>c DEF ThreadCovers, Covered, Whole
  <2>4. QED
    BY <2>1, <2>3 DEF ThreadCovers, Whole, Written
<1>6. CASE Publish(t)
  <2>1. Whole /\ pc'[t] = "finish" /\ UNCHANGED <<row, active>>
    BY <1>6, <1>b DEF Publish, ThreadCovers
  <2>2. QED
    BY <2>1 DEF ThreadCovers, PreparedInFull, Whole, Written
<1>7. CASE PreparationFails(t)
  BY <1>7, <1>b DEF PreparationFails, ThreadCovers
<1>8. CASE GiveUp(t)
  BY <1>8, <1>b DEF GiveUp, ThreadCovers, Prepared
<1>9. CASE Finish(t)
  BY <1>9, <1>b DEF Finish, LeaveJob, ThreadCovers
<1>10. QED
  BY <1>1, <1>2, <1>3, <1>4, <1>5, <1>6, <1>7, <1>8, <1>9 DEF Prepare

\* Neither a cancellation nor the write-back of a stale status publishes a
\* campaign that is not prepared: the status read was true once.
LEMMA CarryCovers ==
  ASSUME FullInv, RowsKept, NEW t \in Threads, Carry(t)
  PROVE  ThreadCovers(t)' /\ PreparedInFull'
<1> USE StatusCovers DEF FullInv
<1>b. pc \in [Threads -> Steps] /\ loc \in [Threads -> Locals]
  BY DEF TypeOK
<1>1. CASE CancelTx(t)
  BY <1>1, <1>b DEF CancelTx, ThreadCovers, Prepared
<1>2. CASE GroupRows(t)
  BY <1>2, <1>b DEF GroupRows, ThreadCovers
<1>3. CASE ReadStatus(t)
  <2>1. /\ pc'[t] = "store" /\ loc'[t].seen = status
        /\ UNCHANGED <<row, active, status>>
    BY <1>3, <1>b DEF ReadStatus, Locals
  <2>2. QED
    BY <2>1 DEF ThreadCovers, PreparedInFull, Whole, Written
<1>4. CASE StoreStatus(t)
  <2>1. pc'[t] = "idle" /\ UNCHANGED <<row, active>>
    BY <1>4, <1>b DEF StoreStatus
  <2>2. status' \in Prepared => Whole
    BY <1>4 DEF StoreStatus, ThreadCovers, Prepared
  <2>3. QED
    BY <2>1, <2>2 DEF ThreadCovers, PreparedInFull, Whole, Written
<1>5. QED
  BY <1>1, <1>2, <1>3, <1>4 DEF Carry

\* The other steps of a thread cover nothing and publish nothing.
LEMMA OtherStepCovers ==
  ASSUME FullInv, RowsKept, NEW t \in Threads,
         \/ Create(t) \/ TakeJob(t) \/ Throws(t) \/ Crash(t)
         \/ AskCampaign(t) \/ AskCancel(t) \/ AskProgress(t)
  PROVE  ThreadCovers(t)' /\ PreparedInFull'
<1>b. pc \in [Threads -> Steps] /\ loc \in [Threads -> Locals]
  BY DEF FullInv, TypeOK
<1>1. pc'[t] \notin {"fetch", "upsert", "publish", "store"}
  BY <1>b DEF Create, CreateCampaign, Enqueue, EnqueueFails, MarkEnqueueFailed,
     TakeJob, Throws, LeaveJob, Crash, AskCampaign, AskCancel, AskProgress
<1>2. status' = status \/ status' \notin Prepared
  BY DEF Create, CreateCampaign, Enqueue, EnqueueFails, MarkEnqueueFailed,
     TakeJob, Throws, Crash, AskCampaign, AskCancel, AskProgress, Prepared
<1>3. QED
  BY <1>1, <1>2, StatusCovers DEF FullInv, ThreadCovers

\* A step moves one thread at most.
LEMMA OneThreadMoves ==
  ASSUME TypeOK, NEW t \in Threads,
         \/ Step(t) \/ TakeJob(t) \/ Throws(t) \/ Crash(t)
         \/ AskCampaign(t) \/ AskCancel(t) \/ AskProgress(t)
  PROVE  \A u \in Threads \ {t} : pc'[u] = pc[u] /\ loc'[u] = loc[u]
<1>b. pc \in [Threads -> Steps] /\ loc \in [Threads -> Locals]
  BY DEF TypeOK
<1>1. /\ pc' = [pc EXCEPT ![t] = pc'[t]]
      /\ loc' = [loc EXCEPT ![t] = loc'[t]]
  BY <1>b DEF Step, Create, CreateCampaign, Enqueue, EnqueueFails,
     MarkEnqueueFailed, Prepare, ReadCampaign, BeginPreparation, FetchChunk,
     UpsertChunk, CountRows, Publish, PreparationFails, GiveUp, Finish, LeaveJob,
     Carry, CancelTx, GroupRows, ReadStatus, StoreStatus, TakeJob, Throws, Crash,
     AskCampaign, AskCancel, AskProgress
<1>2. QED
  BY <1>1, <1>b

\* Every step keeps a published campaign whole and what the runs have covered.
LEMMA NextFull == FullInv /\ [Next]_vars => FullInv'
<1> SUFFICES ASSUME FullInv, [Next]_vars PROVE FullInv'
  OBVIOUS
<1>1. TypeOK /\ TypeOK' /\ RowsKept
  BY NextTyped, StepKeepsRows DEF FullInv
<1>2. ASSUME NEW t \in Threads,
             \/ Step(t) \/ TakeJob(t) \/ Throws(t) \/ Crash(t)
             \/ AskCampaign(t) \/ AskCancel(t) \/ AskProgress(t)
      PROVE  FullInv'
  <2>1. ThreadCovers(t)' /\ PreparedInFull'
    BY <1>1, <1>2, PrepareCovers, CarryCovers, OtherStepCovers DEF Step
  <2>2. ASSUME NEW u \in Threads \ {t} PROVE ThreadCovers(u)'
    BY <1>1, <1>2, OneThreadMoves, OthersCover DEF FullInv
  <2>3. QED
    BY <1>1, <2>1, <2>2 DEF FullInv
<1>3. ASSUME UNCHANGED <<status, pc, loc>> PROVE FullInv'
  BY <1>1, <1>3, StatusCovers, OthersCover DEF FullInv
<1>4. CASE \/ \E c \in Customers : OptOut(c)
           \/ \E d \in Debts : ArchiveDebt(d)
           \/ JobStalls \/ UNCHANGED vars
  BY <1>3, <1>4 DEF OptOut, ArchiveDebt, JobStalls, vars
<1>5. QED
  BY <1>2, <1>4 DEF Next

\* However many runs of the job, crashes, cancellations and progress requests
\* interleave, a campaign that is SCHEDULED or COMPLETED has a row for every
\* selected debt that is still active.
THEOREM PreparedCampaignsAreWhole == Spec => []PreparedInFull
<1>1. Init => FullInv
  <2> SUFFICES ASSUME Init PROVE FullInv
    OBVIOUS
  <2>1. TypeOK
    BY InitTyped
  <2>2. QED
    BY <2>1 DEF Init, FullInv, PreparedInFull, Prepared, ThreadCovers
<1>2. FullInv => PreparedInFull
  BY DEF FullInv
<1>3. QED
  BY <1>1, <1>2, NextFull, PTL DEF Spec

(***************************************************************************)
(* One message per customer.  While no debt is archived a run fetches all   *)
(* debts of a customer together, so every run makes the same debt of the    *)
(* customer wait, the first, over whatever an earlier run wrote.            *)
(***************************************************************************)
Siblings(d) == {e \in Debts : CustomerOf[e] = CustomerOf[d]}
WholeCustomers(S) == \A d \in S : Siblings(d) \subseteq S
OnlyFirst == \A d \in Pending : \A e \in Siblings(d) : ~(e < d)

OneInv ==
  /\ TypeOK
  /\ active = Debts =>
       /\ OnlyFirst
       /\ \A t \in Threads : pc[t] = "upsert" => WholeCustomers(loc[t].debts)

\* A step that fetches no chunk and makes no row wait keeps the invariant.
LEMMA QuietStep ==
  ASSUME OneInv, TypeOK', active' = active, Pending' \subseteq Pending,
         \A t \in Threads : pc'[t] = "upsert" =>
            pc[t] = "upsert" /\ loc'[t] = loc[t]
  PROVE  OneInv'
  BY DEF OneInv, OnlyFirst, WholeCustomers, Siblings

\* A run fetches and writes all debts of a customer in one chunk.
LEMMA PrepareOne ==
  ASSUME OneInv, TypeOK', NEW t \in Threads, FetchChunk(t) \/ UpsertChunk(t)
  PROVE  OneInv'
<1>b. pc \in [Threads -> Steps] /\ loc \in [Threads -> Locals]
  BY DEF OneInv, TypeOK
<1>1. CASE FetchChunk(t)
  <2>1. /\ UNCHANGED <<row, active>>
        /\ loc'[t].debts = {d \in active : CustomerOf[d] \in
                              {c \in Customers : ChunkOf[c] = loc[t].chunk}}
        /\ \A u \in Threads \ {t} : pc'[u] = pc[u] /\ loc'[u] = loc[u]
    BY <1>1, <1>b DEF FetchChunk, Locals
  <2>2. active = Debts => WholeCustomers(loc'[t].debts)
    BY <2>1 DEF WholeCustomers, Siblings
  <2>3. QED
    BY <2>1, <2>2 DEF OneInv, OnlyFirst, WholeCustomers, Siblings, Pending
<1>2. CASE UpsertChunk(t)
  <2>1. /\ active' = active /\ pc[t] = "upsert" /\ pc'[t] = "fetch"
        /\ \A u \in Threads \ {t} : pc'[u] = pc[u] /\ loc'[u] = loc[u]
    BY <1>2, <1>b DEF UpsertChunk
  <2>2. Pending' \subseteq Pending \union EligibleOf(loc[t])
    BY <1>2 DEF UpsertChunk, Pending
  <2>3. ASSUME active = Debts, NEW d \in EligibleOf(loc[t]), NEW e \in Siblings(d)
        PROVE  ~(e < d)
    BY <2>1, <2>3 DEF OneInv, WholeCustomers, Siblings, EligibleOf, IsEligible
  <2>4. active = Debts => OnlyFirst'
    BY <2>2, <2>3 DEF OneInv, OnlyFirst, Siblings
  <2>5. QED
    BY <2>1, <2>4 DEF OneInv, WholeCustomers, Siblings
<1>3. QED
  BY <1>1, <1>2

\* No other step makes a row wait or enters the write of a chunk.
LEMMA OtherStepsQuiet ==
  ASSUME TypeOK, NEW t \in Threads,
         \/ Create(t) \/ Carry(t) \/ TakeJob(t) \/ Throws(t) \/ Crash(t)
         \/ AskCampaign(t) \/ AskCancel(t) \/ AskProgress(t)
         \/ Prepare(t) /\ ~FetchChunk(t) /\ ~UpsertChunk(t)
  PROVE  /\ active' = active /\ Pending' \subseteq Pending
         /\ pc'[t] # "upsert"
<1>b. pc \in [Threads -> Steps] /\ loc \in [Threads -> Locals]
  BY DEF TypeOK
<1> USE DEF Pending
<1>1. CASE CancelTx(t)
  BY <1>1, <1>b DEF CancelTx
<1>2. CASE Carry(t) /\ ~CancelTx(t)
  BY <1>2, <1>b DEF Carry, GroupRows, ReadStatus, StoreStatus
<1>3. CASE Create(t)
  BY <1>3, <1>b DEF Create, CreateCampaign, Enqueue, EnqueueFails,
     MarkEnqueueFailed
<1>4. CASE Prepare(t) /\ ~FetchChunk(t) /\ ~UpsertChunk(t)
  BY <1>4, <1>b DEF Prepare, ReadCampaign, BeginPreparation, CountRows, Publish,
     PreparationFails, GiveUp, Finish, LeaveJob
<1>5. CASE \/ TakeJob(t) \/ Throws(t) \/ Crash(t)
           \/ AskCampaign(t) \/ AskCancel(t) \/ AskProgress(t)
  BY <1>5, <1>b DEF TakeJob, Throws, LeaveJob, Crash, AskCampaign, AskCancel,
     AskProgress
<1>6. QED
  BY <1>1, <1>2, <1>3, <1>4, <1>5 DEF Carry

\* Every step keeps the first debt of a customer the only one that waits.
LEMMA NextOne == OneInv /\ [Next]_vars => OneInv'
<1> SUFFICES ASSUME OneInv, [Next]_vars PROVE OneInv'
  OBVIOUS
<1>1. TypeOK /\ TypeOK'
  BY NextTyped DEF OneInv
<1>2. ASSUME NEW t \in Threads,
             \/ Step(t) \/ TakeJob(t) \/ Throws(t) \/ Crash(t)
             \/ AskCampaign(t) \/ AskCancel(t) \/ AskProgress(t)
      PROVE  OneInv'
  <2>1. CASE FetchChunk(t) \/ UpsertChunk(t)
    BY <1>1, <2>1, PrepareOne
  <2>2. CASE ~(FetchChunk(t) \/ UpsertChunk(t))
    <3>1. /\ active' = active /\ Pending' \subseteq Pending
          /\ pc'[t] # "upsert"
      BY <1>1, <1>2, <2>2, OtherStepsQuiet DEF Step
    <3>2. \A u \in Threads \ {t} : pc'[u] = pc[u] /\ loc'[u] = loc[u]
      BY <1>1, <1>2, OneThreadMoves
    <3>3. QED
      BY <1>1, <3>1, <3>2, QuietStep
  <2>3. QED
    BY <2>1, <2>2
<1>3. CASE \E c \in Customers : OptOut(c)
  <2>1. Pending' \subseteq Pending /\ UNCHANGED <<active, pc, loc>>
    BY <1>3 DEF OptOut, Pending
  <2>2. QED
    BY <1>1, <2>1, QuietStep
<1>4. CASE \E d \in Debts : ArchiveDebt(d)
  <2>1. active' # Debts
    BY <1>1, <1>4 DEF ArchiveDebt
  <2>2. QED
    BY <1>1, <2>1 DEF OneInv
<1>5. CASE JobStalls \/ UNCHANGED vars
  <2>1. Pending' \subseteq Pending /\ UNCHANGED <<active, pc, loc>>
    BY <1>5 DEF JobStalls, vars, Pending
  <2>2. QED
    BY <1>1, <2>1, QuietStep
<1>6. QED
  BY <1>2, <1>3, <1>4, <1>5 DEF Next

\* While no selected debt is archived, no two rows of a customer wait to be
\* sent, although a run may be killed, repeated, or run beside another.
THEOREM CustomersGetOneMessage == Spec => []OneMessagePerCustomer
<1>1. Init => OneInv
  <2> SUFFICES ASSUME Init PROVE OneInv
    OBVIOUS
  <2>1. TypeOK
    BY InitTyped
  <2>2. QED
    BY <2>1 DEF Init, OneInv, OnlyFirst, Pending
<1>2. OneInv => OneMessagePerCustomer
  <2> SUFFICES ASSUME OneInv, active = Debts, NEW d \in Pending, NEW e \in Pending,
                      CustomerOf[d] = CustomerOf[e]
               PROVE  d = e
    BY DEF OneMessagePerCustomer
  <2>1. d \in Nat /\ e \in Nat
    BY ConstantsAssumption DEF ConstantsAssumption, Pending
  <2>2. ~(e < d) /\ ~(d < e)
    BY DEF OneInv, OnlyFirst, Siblings, Pending
  <2>3. QED
    BY <2>1, <2>2
<1>3. QED
  BY <1>1, <1>2, NextOne, PTL DEF Spec

(***************************************************************************)
(* The count of the eligible recipients.  A worker that counts the rows and *)
(* then writes the count is alone while the job does not stall under it, so *)
(* the count is true when it is written; a run that goes on after another   *)
(* published finds the campaign SCHEDULED and leaves it.                    *)
(***************************************************************************)
RefreshSteps == {"cancelTx", "group", "status", "store"}
RunSteps == PrepareSteps \union {"begin", "giveUp"}

\* The runs of the job are one while none stalls under its worker.
OneRun ==
  /\ left["stall"] = 0 /\ left["command"] <= Budget["command"]
  /\ \A t \in Threads : pc[t] \in WorkerSteps => t \in Workers /\ owner = t /\ job = "active"

Undisturbed == optedOut = {} /\ left["command"] = Budget["command"]

\* A published campaign has its count, and nobody prepares it again.
Counted ==
  /\ \A t \in Threads : pc[t] \notin RefreshSteps
  /\ status = "SCHEDULED" =>
       eligible = Cardinality(Pending) /\ \A t \in Threads : pc[t] \notin RunSteps
  /\ \A t \in Threads : pc[t] = "publish" => loc[t].count = Cardinality(Pending)

CountInv == TypeOK /\ OneRun /\ (Undisturbed => Counted)

\* A job is taken when nobody runs it, and left by the one who does.
LEMMA JobHasOneRun ==
  ASSUME TypeOK, OneRun, NEW t \in Threads, TakeJob(t) \/ Throws(t) \/ Finish(t) \/ Crash(t)
  PROVE  OneRun'
<1>b. pc \in [Threads -> Steps] /\ left \in [Events -> Nat]
      /\ NoThread \notin Threads /\ Budget \in [Events -> Nat]
  BY ConstantsAssumption DEF TypeOK, ConstantsAssumption
<1> USE DEF OneRun, Spend, Events
<1>1. CASE TakeJob(t)
  BY <1>1, <1>b DEF TakeJob
<1>2. CASE Throws(t)
  BY <1>2, <1>b DEF Throws, LeaveJob, WorkerSteps, PrepareSteps
<1>3. CASE Finish(t)
  BY <1>3, <1>b DEF Finish, LeaveJob, WorkerSteps, PrepareSteps
<1>4. CASE Crash(t)
  BY <1>4, <1>b DEF Crash, WorkerSteps, PrepareSteps
<1>5. QED
  BY <1>1, <1>2, <1>3, <1>4

\* Nobody else begins or ends a run.
LEMMA RequestsHaveNoRun ==
  ASSUME TypeOK, OneRun, NEW t \in Threads,
         \/ Create(t) \/ Carry(t)
         \/ AskCampaign(t) \/ AskCancel(t) \/ AskProgress(t)
  PROVE  OneRun' /\ pc'[t] \notin WorkerSteps
<1>b. pc \in [Threads -> Steps] /\ left \in [Events -> Nat]
      /\ NoThread \notin Threads /\ Budget \in [Events -> Nat]
  BY ConstantsAssumption DEF TypeOK, ConstantsAssumption
<1> USE DEF OneRun, Spend, Events, WorkerSteps, PrepareSteps
<1>1. CASE CreateCampaign(t)
  BY <1>1, <1>b DEF CreateCampaign
<1>2. CASE Enqueue(t) \/ EnqueueFails(t)
  BY <1>2, <1>b DEF Enqueue, EnqueueFails, AddJob
<1>3. CASE MarkEnqueueFailed(t)
  BY <1>3, <1>b DEF MarkEnqueueFailed
<1>4. CASE Carry(t)
  BY <1>4, <1>b DEF Carry, CancelTx, GroupRows, ReadStatus, StoreStatus
<1>5. CASE AskCampaign(t) \/ AskCancel(t) \/ AskProgress(t)
  BY <1>5, <1>b DEF AskCampaign, AskCancel, AskProgress
<1>6. QED
  BY <1>1, <1>2, <1>3, <1>4, <1>5 DEF Create

\* A step of a run keeps it, and starts no refresh.
LEMMA RunStaysOne ==
  ASSUME TypeOK, OneRun, NEW t \in Threads, Prepare(t), ~Finish(t)
  PROVE  /\ OneRun' /\ pc'[t] \notin RefreshSteps
         /\ \A u \in Threads \ {t} : pc'[u] = pc[u] /\ loc'[u] = loc[u] /\ pc[u] \notin WorkerSteps
<1>b. pc \in [Threads -> Steps] /\ loc \in [Threads -> Locals] /\ left \in [Events -> Nat]
  BY DEF TypeOK
<1>1. /\ pc[t] \in WorkerSteps /\ pc'[t] \in WorkerSteps \ RefreshSteps
      /\ UNCHANGED <<job, owner>>
      /\ left'["stall"] = left["stall"] /\ left'["command"] = left["command"]
  BY <1>b DEF Prepare, ReadCampaign, BeginPreparation, FetchChunk, UpsertChunk, CountRows,
     Publish, PreparationFails, GiveUp, WorkerSteps, PrepareSteps, RefreshSteps, Spend, Events
<1>2. \A u \in Threads \ {t} : pc'[u] = pc[u] /\ loc'[u] = loc[u]
  BY OneThreadMoves DEF Step
<1>3. QED
  BY <1>1, <1>2 DEF OneRun

\* While others rest, what a published campaign reports changes only when it is published.
LEMMA OthersCounted ==
  ASSUME CountInv, TypeOK', OneRun',
         Undisturbed' => Undisturbed /\ Pending' = Pending
                         /\ \A t \in Threads : pc'[t] \in RefreshSteps => pc[t] \in RefreshSteps,
         status' = "SCHEDULED" => status = "SCHEDULED" /\ eligible' = eligible,
         \A t \in Threads : pc'[t] \in RunSteps => pc'[t] = pc[t] /\ loc'[t] = loc[t]
  PROVE  CountInv'
<1> SUFFICES ASSUME Undisturbed' PROVE Counted'
  BY DEF CountInv
<1>1. Counted /\ Pending' = Pending
  BY DEF CountInv
<1>2. \A t \in Threads : pc'[t] \notin RefreshSteps
  BY <1>1 DEF Counted
<1>3. QED
  BY <1>1, <1>2 DEF Counted, RunSteps, PrepareSteps

\* The run counts the rows, and they are the same when it writes their number.
LEMMA RunCounted ==
  ASSUME CountInv, TypeOK', NEW t \in Threads, Prepare(t), ~Finish(t)
  PROVE  CountInv'
<1>b. /\ pc \in [Threads -> Steps] /\ loc \in [Threads -> Locals]
      /\ left \in [Events -> Nat] /\ TypeOK /\ OneRun
  BY DEF CountInv, TypeOK
<1>1. /\ OneRun' /\ pc'[t] \notin RefreshSteps
      /\ \A u \in Threads \ {t} : pc'[u] = pc[u] /\ loc'[u] = loc[u] /\ pc[u] \notin WorkerSteps
  BY <1>b, RunStaysOne
<1>2. Undisturbed' => Undisturbed
  BY <1>b DEF Undisturbed, Prepare, ReadCampaign, BeginPreparation, FetchChunk, UpsertChunk,
     CountRows, Publish, PreparationFails, GiveUp, Spend, Events, Finish
<1> SUFFICES ASSUME Undisturbed' PROVE Counted'
  BY <1>1 DEF CountInv
<1>3. Counted
  BY <1>2 DEF CountInv
<1>4. \A u \in Threads : pc'[u] \notin RefreshSteps
  BY <1>1, <1>3 DEF Counted
<1>5. \A u \in Threads \ {t} : pc'[u] \notin RunSteps
  BY <1>1 DEF RunSteps, WorkerSteps
<1> SUFFICES ASSUME TRUE
             PROVE  /\ status' = "SCHEDULED" =>
                         eligible' = Cardinality(Pending)' /\ pc'[t] \notin RunSteps
                    /\ pc'[t] = "publish" => loc'[t].count = Cardinality(Pending)'
  BY <1>4, <1>5 DEF Counted, RunSteps, PrepareSteps
<1> USE DEF RunSteps, PrepareSteps
<1>6. CASE ReadCampaign(t)
  <2>1. UNCHANGED <<status, eligible, row>> /\ pc[t] = "read"
        /\ pc'[t] = IF status \in Unprepared THEN "begin" ELSE "finish"
    BY <1>6, <1>b DEF ReadCampaign
  <2>2. Pending' = Pending
    BY <2>1 DEF Pending
  <2>3. QED
    BY <1>3, <2>1, <2>2 DEF Counted, Unprepared
<1>7. CASE BeginPreparation(t) \/ PreparationFails(t) \/ GiveUp(t)
  <2>1. /\ pc[t] \in RunSteps /\ pc'[t] # "publish"
        /\ status' = status \/ status' # "SCHEDULED"
    BY <1>7, <1>b DEF BeginPreparation, PreparationFails, GiveUp
  <2>2. QED
    BY <1>3, <2>1 DEF Counted
<1>8. CASE FetchChunk(t) \/ UpsertChunk(t)
  <2>1. pc[t] \in RunSteps /\ pc'[t] # "publish" /\ status' = status
    BY <1>8, <1>b DEF FetchChunk, UpsertChunk
  <2>2. QED
    BY <1>3, <2>1 DEF Counted
<1>9. CASE CountRows(t)
  <2>1. /\ pc[t] \in RunSteps /\ UNCHANGED <<status, row>>
        /\ loc'[t].count = Cardinality(Pending)
    BY <1>9, <1>b DEF CountRows, Locals
  <2>2. Pending' = Pending
    BY <2>1 DEF Pending
  <2>3. QED
    BY <1>3, <2>1, <2>2 DEF Counted
<1>10. CASE Publish(t)
  <2>1. pc[t] = "publish" /\ pc'[t] = "finish" /\ row' = row /\ eligible' = loc[t].count
    BY <1>10, <1>b DEF Publish
  <2>2. Pending' = Pending
    BY <2>1 DEF Pending
  <2>3. QED
    BY <1>3, <2>1, <2>2 DEF Counted
<1>11. QED
  BY <1>6, <1>7, <1>8, <1>9, <1>10 DEF Prepare

\* Every step keeps the count of a campaign nobody disturbs.
LEMMA NextCounted ==
  ASSUME CountInv, [Next]_vars
  PROVE  CountInv'
<1>1. TypeOK /\ TypeOK' /\ OneRun
  BY NextTyped DEF CountInv
<1>b. pc \in [Threads -> Steps] /\ loc \in [Threads -> Locals] /\ left \in [Events -> Nat]
  BY <1>1 DEF TypeOK
<1>2. ASSUME NEW t \in Threads, Prepare(t), ~Finish(t) PROVE CountInv'
  BY <1>1, <1>2, RunCounted
<1>3. ASSUME NEW t \in Threads, TakeJob(t) \/ Throws(t) \/ Finish(t) \/ Crash(t)
      PROVE  CountInv'
  <2>1. OneRun' /\ \A u \in Threads \ {t} : pc'[u] = pc[u] /\ loc'[u] = loc[u]
    BY <1>1, <1>3, JobHasOneRun, OneThreadMoves DEF Step, Prepare
  <2>2. /\ pc'[t] \notin RunSteps \union RefreshSteps
        /\ UNCHANGED <<status, eligible, row, optedOut>>
        /\ left'["command"] = left["command"]
    BY <1>3, <1>b DEF TakeJob, Throws, Finish, Crash, LeaveJob, RunSteps, PrepareSteps,
       RefreshSteps, Spend, Events
  <2>3. Pending' = Pending /\ (Undisturbed' => Undisturbed)
    BY <2>2 DEF Pending, Undisturbed
  <2>4. QED
    BY <1>1, <2>1, <2>2, <2>3, OthersCounted
<1>4. ASSUME NEW t \in Threads, Create(t) \/ AskCampaign(t)
      PROVE  CountInv'
  <2>1. /\ OneRun' /\ pc'[t] \notin WorkerSteps
        /\ \A u \in Threads \ {t} : pc'[u] = pc[u] /\ loc'[u] = loc[u]
    BY <1>1, <1>4, RequestsHaveNoRun, OneThreadMoves DEF Step
  <2>2. /\ pc'[t] \notin RefreshSteps /\ UNCHANGED <<eligible, row, optedOut>>
        /\ status' = status \/ status' # "SCHEDULED"
        /\ left'["command"] = left["command"]
    BY <1>4, <1>b DEF Create, CreateCampaign, Enqueue, EnqueueFails, MarkEnqueueFailed,
       AskCampaign, RefreshSteps, Spend, Events
  <2>3. Pending' = Pending /\ (Undisturbed' => Undisturbed)
    BY <2>2 DEF Pending, Undisturbed
  <2>4. QED
    BY <1>1, <2>1, <2>2, <2>3, OthersCounted DEF RunSteps, WorkerSteps
<1>5. ASSUME NEW t \in Threads, AskCancel(t) \/ AskProgress(t) \/ Carry(t)
      PROVE  CountInv'
  <2>1. OneRun'
    BY <1>1, <1>5, RequestsHaveNoRun
  <2>2. ~Undisturbed'
    <3>1. CASE AskCancel(t) \/ AskProgress(t)
      <4>1. left["command"] <= Budget["command"] /\ left'["command"] = left["command"] - 1
            /\ left["command"] \in Nat /\ Budget["command"] \in Nat
        BY <1>1, <1>b, <3>1, ConstantsAssumption
        DEF AskCancel, AskProgress, Spend, Events, OneRun, ConstantsAssumption
      <4>2. QED
        BY <4>1 DEF Undisturbed
    <3>2. CASE Carry(t)
      <4>1. pc[t] \in RefreshSteps /\ UNCHANGED <<optedOut, left>>
        BY <3>2 DEF Carry, CancelTx, GroupRows, ReadStatus, StoreStatus, RefreshSteps
      <4>2. QED
        BY <4>1 DEF CountInv, Counted, Undisturbed
    <3>3. QED
      BY <1>5, <3>1, <3>2
  <2>3. QED
    BY <1>1, <2>1, <2>2 DEF CountInv
<1>6. ASSUME NEW c \in Customers, OptOut(c) PROVE CountInv'
  <2>1. ~Undisturbed'
    BY <1>6 DEF OptOut, Undisturbed
  <2>2. OneRun'
    BY <1>1, <1>6, <1>b DEF OptOut, OneRun, Spend, Events
  <2>3. QED
    BY <1>1, <2>1, <2>2 DEF CountInv
<1>7. CASE JobStalls \/ (\E d \in Debts : ArchiveDebt(d)) \/ UNCHANGED vars
  <2>1. UNCHANGED <<status, eligible, row, optedOut, pc, loc>>
        /\ left'["command"] = left["command"]
    BY <1>7, <1>b DEF JobStalls, ArchiveDebt, vars, Spend, Events
  <2>2. OneRun'
    <3>1. CASE JobStalls
      <4>1. pc[owner] = "idle" /\ owner \in Threads /\ left' = left
        BY <1>1, <3>1 DEF JobStalls, Spend, OneRun, TypeOK, Threads
      <4>2. \A t \in Threads : pc[t] \notin WorkerSteps
        BY <1>1, <4>1 DEF OneRun, WorkerSteps, PrepareSteps
      <4>3. QED
        BY <1>1, <2>1, <4>1, <4>2 DEF OneRun
    <3>2. CASE ~JobStalls
      BY <1>1, <1>7, <1>b, <2>1, <3>2 DEF ArchiveDebt, vars, OneRun, Spend, Events
    <3>3. QED
      BY <3>1, <3>2
  <2>3. Pending' = Pending /\ (Undisturbed' => Undisturbed)
    BY <2>1 DEF Pending, Undisturbed
  <2>4. QED
    BY <1>1, <2>1, <2>2, <2>3, OthersCounted
<1>8. QED
  BY <1>2, <1>3, <1>4, <1>5, <1>6, <1>7 DEF Next, Step

\* While no job stalls under its worker, a published campaign reports as many eligible
\* recipients as it has rows to send, whatever runs were killed or failed before.
THEOREM CountIsTrue == Budget["stall"] = 0 /\ Spec => []EligibleCounted
<1>1. Budget["stall"] = 0 /\ Init => CountInv
  <2> SUFFICES ASSUME Budget["stall"] = 0, Init PROVE CountInv
    OBVIOUS
  <2>1. TypeOK
    BY InitTyped
  <2>2. OneRun
    BY ConstantsAssumption
    DEF ConstantsAssumption, Init, OneRun, WorkerSteps, PrepareSteps, Events
  <2>3. Counted
    BY DEF Init, Counted, RefreshSteps
  <2>4. QED
    BY <2>1, <2>2, <2>3 DEF CountInv
<1>2. CountInv /\ [Next]_vars => CountInv'
  BY NextCounted
<1>3. CountInv => EligibleCounted
  BY DEF CountInv, Counted, Undisturbed, EligibleCounted
<1>4. QED
  BY <1>1, <1>2, <1>3, PTL DEF Spec
=============================================================================
