------------------------- MODULE CampaignSendProofs -------------------------
(***************************************************************************)
(* Proofs about CampaignSend, for every set of campaigns, rows and threads  *)
(* and every budget of commands, faults, crashes, stalls and lost answers;  *)
(* and, under an assumption on its surroundings, about the dispatch lock    *)
(* when it never expires under a live holder, the finality of a committed   *)
(* send when no call of the program fails, and the bound on the rows in     *)
(* flight when in addition no job stalls under a live worker.               *)
(***************************************************************************)
EXTENDS CampaignSend, FiniteSetTheorems, WellFoundedInduction, TLAPS

(***************************************************************************)
(* Types.  TypeOK alone is not inductive: a step that stores what a thread  *)
(* read is typed only if the thread had read it, so ThreadOK says which     *)
(* locals are set at which step.                                            *)
(***************************************************************************)
OnCampaign == WorkerSteps \union SafetySteps \union RefreshSteps
              \union LeaseSteps \union CommandSteps

\* A thread at step p, working on row r, with locals l.
ThreadOK(p, r, l) ==
  /\ p \in Steps /\ r \in Recipients \union {NoRow} /\ l \in Locals
  /\ p \in WorkerSteps => r \in Recipients
  /\ l.cat = "SENT" => r \in Recipients
  /\ p \in OnCampaign => l.camp \in Campaigns
  /\ p = "store" => l.seen \in CampaignStatus

ThreadsOK ==
  /\ pc \in [Threads -> Steps]
  /\ rec \in [Threads -> Recipients \union {NoRow}]
  /\ loc \in [Threads -> Locals]
  /\ \A t \in Threads : ThreadOK(pc[t], rec[t], loc[t])

TypeInv == TypeOK /\ ThreadsOK

USE DEF Go, Keep, database, otherThanRow, otherThanCampaign, queue, history

\* The locals of an idle thread are typed and record no outcome.
LEMMA BlankType == Blank \in Locals /\ Blank.cat # "SENT"
  BY DEF Blank, Locals

\* A step of one thread.
LEMMA OneThread ==
  ASSUME ThreadsOK, NEW t \in Threads, NEW p, NEW r, NEW l,
         ThreadOK(p, r, l),
         pc' = [pc EXCEPT ![t] = p] \/ (pc' = pc /\ p = pc[t]),
         rec' = [rec EXCEPT ![t] = r] \/ (rec' = rec /\ r = rec[t]),
         loc' = [loc EXCEPT ![t] = l] \/ (loc' = loc /\ l = loc[t])
  PROVE  ThreadsOK'
  BY DEF ThreadsOK, ThreadOK

\* Setting a field of the locals keeps their type and the other fields.
LEMMA SetTodo ==
  ASSUME NEW l \in Locals, NEW T \in SUBSET Campaigns
  PROVE  LET k == [l EXCEPT !.todo = T]
         IN k \in Locals /\ k.cat = l.cat /\ k.camp = l.camp /\ k.seen = l.seen
  BY DEF Locals

\* Taking a campaign's dispatch lock moves the thread to that campaign.
LEMMA SetCampaign ==
  ASSUME NEW l \in Locals, NEW c \in Campaigns, NEW T \in SUBSET Campaigns
  PROVE  LET k == [l EXCEPT !.todo = T, !.camp = c]
         IN k \in Locals /\ k.cat = l.cat /\ k.camp = c
  BY DEF Locals

\* Storing the batch of a dispatch keeps the locals typed.
LEMMA SetBatch ==
  ASSUME NEW l \in Locals, NEW B \in SUBSET Recipients
  PROVE  LET k == [l EXCEPT !.batch = B]
         IN k \in Locals /\ k.cat = l.cat /\ k.camp = l.camp
  BY DEF Locals

\* Storing the startedAt that was read keeps the locals typed.
LEMMA SetStart ==
  ASSUME NEW l \in Locals, NEW n \in Nat
  PROVE  LET k == [l EXCEPT !.start = n]
         IN k \in Locals /\ k.cat = l.cat /\ k.camp = l.camp
  BY DEF Locals

\* Storing the attempt number of a send keeps the locals typed.
LEMMA SetAttempt ==
  ASSUME NEW l \in Locals, NEW n \in Nat
  PROVE  LET k == [l EXCEPT !.att = n]
         IN k \in Locals /\ k.cat = l.cat /\ k.camp = l.camp
  BY DEF Locals

\* Storing the campaign status that was read keeps the locals typed.
LEMMA SetSeen ==
  ASSUME NEW l \in Locals, NEW s \in CampaignStatus
  PROVE  LET k == [l EXCEPT !.seen = s]
         IN k \in Locals /\ k.cat = l.cat /\ k.camp = l.camp /\ k.seen = s
  BY DEF Locals

\* Storing whether every row was concluded keeps the locals typed.
LEMMA SetComplete ==
  ASSUME NEW l \in Locals, NEW b \in BOOLEAN
  PROVE  LET k == [l EXCEPT !.complete = b]
         IN k \in Locals /\ k.cat = l.cat /\ k.camp = l.camp
  BY DEF Locals

\* Storing the category of an outcome keeps the locals typed.
LEMMA SetCategory ==
  ASSUME NEW l \in Locals, NEW g \in ErrorCategories \union {"SENT"}
  PROVE  LET k == [l EXCEPT !.cat = g]
         IN k \in Locals /\ k.cat = g /\ k.camp = l.camp
  BY DEF Locals

\* Spending from a budget leaves every budget a natural number.
LEMMA SpendType ==
  ASSUME left \in [Events -> Nat], NEW e \in Events, Spend(e)
  PROVE  left' \in [Events -> Nat]
  BY DEF Spend

\* `new Date()` is a rank like any recorded start.
LEMMA NowType == Now \subseteq Nat
  BY ConstantsAssumption, FS_CardinalityType DEF Now

\* The state the campaign was prepared in is typed.
THEOREM InitType == Init => TypeInv
<1> SUFFICES ASSUME Init PROVE TypeInv
  OBVIOUS
<1>1. TypeOK
  BY ConstantsAssumption, BlankType
  DEF Init, TypeOK, Steps, CampaignStatus, Active, Open, JobState
<1>2. ThreadOK("idle", NoRow, Blank)
  BY BlankType DEF ThreadOK, Steps, OnCampaign, WorkerSteps, SafetySteps,
     RefreshSteps, LeaseSteps, CommandSteps
<1>3. QED
  BY <1>1, <1>2 DEF Init, TypeInv, TypeOK, ThreadsOK

\* The dispatcher's steps keep the types.
LEMMA DispatchType ==
  ASSUME TypeInv, NEW t \in Threads, Dispatch(t)
  PROVE  TypeInv'
<1> DEFINE l == loc[t]  r == rec[t]
           Typed(p, k) == ThreadOK(p, r, k)
<1> USE DEF Steps, OnCampaign, WorkerSteps, SafetySteps, RefreshSteps,
            LeaseSteps, CommandSteps
<1>0. ThreadOK(pc[t], r, l) /\ l \in Locals
  BY DEF TypeInv, ThreadsOK, ThreadOK
<1>1. CASE List(t)
  <2> DEFINE k == [Blank EXCEPT !.todo =
                     {c \in ActiveCampaigns :
                        \A d \in ActiveCampaigns \ {c} :
                           PhoneOf[d] = PhoneOf[c] => Before(c, d)}]
  <2>1. k \in Locals /\ k.cat # "SENT"
    BY BlankType DEF Locals, Blank, ActiveCampaigns
  <2>2. Typed("next", k)
    BY <1>0, <1>1, <2>1 DEF ThreadOK, List
  <2>3. ThreadsOK'
    BY <1>1, <2>2, OneThread DEF TypeInv, List
  <2>4. QED
    BY <1>1, <2>3 DEF TypeInv, TypeOK, List, ThreadsOK
<1>2. CASE AcquireLock(t) \/ SkipLocked(t)
  <2>0. PICK c \in l.todo :
           \/ /\ AcquireLock(t) /\ lock' = [lock EXCEPT ![c] = t]
              /\ loc' = [loc EXCEPT ![t] = [l EXCEPT !.todo = @ \ {c}, !.camp = c]]
           \/ /\ SkipLocked(t)
              /\ loc' = [loc EXCEPT ![t] = [l EXCEPT !.todo = @ \ {c}]]
    BY <1>2 DEF AcquireLock, SkipLocked
  <2>1. c \in Campaigns /\ l.todo \ {c} \in SUBSET Campaigns
    BY <1>0 DEF Locals
  <2> DEFINE T == l.todo \ {c}
  <2>2. Typed("fetch", [l EXCEPT !.todo = T, !.camp = c])
    <3>1. LET k == [l EXCEPT !.todo = T, !.camp = c]
          IN k \in Locals /\ k.cat = l.cat /\ k.camp = c
      BY <1>0, <2>1, SetCampaign
    <3>2. QED
      BY <1>0, <3>1, <2>1 DEF ThreadOK
  <2>3. Typed("next", [l EXCEPT !.todo = T])
    BY <1>0, <2>1, SetTodo DEF ThreadOK
  <2>4. ThreadsOK'
    BY <2>0, <2>2, <2>3, OneThread DEF TypeInv, AcquireLock, SkipLocked
  <2>5. lock' \in [Campaigns -> Threads \union {NoThread}]
    BY <2>0 DEF TypeInv, TypeOK, SkipLocked
  <2>6. QED
    BY <1>2, <2>4, <2>5 DEF TypeInv, TypeOK, AcquireLock, SkipLocked, ThreadsOK
<1>3. CASE NoMoreCampaigns(t)
  <2>1. Typed("finish", l)
    BY <1>0, <1>3 DEF ThreadOK, NoMoreCampaigns
  <2>2. ThreadsOK'
    BY <1>3, <2>1, OneThread DEF TypeInv, NoMoreCampaigns
  <2>3. QED
    BY <1>3, <2>2 DEF TypeInv, TypeOK, ThreadsOK,
      NoMoreCampaigns
<1>4. CASE FetchCampaign(t)
  <2>1. /\ Typed("rival", [l EXCEPT !.start = startedAt[l.camp]])
        /\ Typed("unlock", l)
    BY <1>0, <1>4, SetStart DEF ThreadOK, FetchCampaign, TypeInv, TypeOK
  <2>2. ThreadsOK'
    BY <1>4, <2>1, OneThread DEF TypeInv, FetchCampaign
  <2>3. QED
    BY <1>4, <2>2 DEF TypeInv, TypeOK, ThreadsOK,
      FetchCampaign, TypeInv, TypeOK, Locals
<1>5. CASE CheckCompetitor(t)
  <2>1. Typed("unlock", l) /\ Typed("count", l)
    BY <1>0, <1>5 DEF ThreadOK, CheckCompetitor
  <2>2. ThreadsOK'
    BY <1>5, <2>1, OneThread DEF TypeInv, CheckCompetitor
  <2>3. QED
    BY <1>5, <2>2 DEF TypeInv, TypeOK, ThreadsOK,
      CheckCompetitor
<1>6. CASE CountInFlight(t)
  <2>1. Typed("unlock", l) /\ Typed("pick", l)
    BY <1>0, <1>6 DEF ThreadOK, CountInFlight
  <2>2. ThreadsOK'
    BY <1>6, <2>1, OneThread DEF TypeInv, CountInFlight
  <2>3. QED
    BY <1>6, <2>2 DEF TypeInv, TypeOK, ThreadsOK,
      CountInFlight
<1>7. CASE PickBatch(t)
  <2>0. PICK due \in SUBSET Recipients :
          LET batch == FirstOf(({q \in RowsOf(l.camp) : row[q] = "PENDING"}
                                 \ retried) \union due, BatchSize)
          IN /\ loc' = [loc EXCEPT ![t] = [l EXCEPT !.batch = batch]]
             /\ pc' = [pc EXCEPT ![t] = IF batch = {} THEN "unlock" ELSE "enqueue"]
    BY <1>7 DEF PickBatch, RowsOf
  <2>1. \A B \in SUBSET Recipients :
          /\ Typed("unlock", [l EXCEPT !.batch = B])
          /\ Typed("enqueue", [l EXCEPT !.batch = B])
    BY <1>0, <1>7, SetBatch DEF ThreadOK, PickBatch
  <2>2. ThreadsOK'
    BY <1>7, <2>0, <2>1, OneThread DEF TypeInv, PickBatch, FirstOf, RowsOf
  <2>3. QED
    BY <1>7, <2>2 DEF TypeInv, TypeOK, ThreadsOK, PickBatch
<1>8. CASE Enqueue(t)
  <2>1. Typed("mark", l)
    BY <1>0, <1>8 DEF ThreadOK, Enqueue
  <2>2. ThreadsOK'
    BY <1>8, <2>1, OneThread DEF TypeInv, Enqueue
  <2>3. QED
    BY <1>8, <2>2 DEF TypeInv, TypeOK, ThreadsOK, Enqueue, JobState
<1>9. CASE MarkQueued(t) \/ QueueingFails(t)
  <2>1. \A B \in SUBSET Recipients :
          /\ Typed("promote", [l EXCEPT !.batch = B])
          /\ Typed("enqueue", [l EXCEPT !.batch = B])
    BY <1>0, <1>9, SetBatch DEF ThreadOK, MarkQueued, QueueingFails
  <2>2. l.batch \ {Oldest(l.batch)} \in SUBSET Recipients
    BY <1>0 DEF Locals
  <2>3. ThreadsOK'
    BY <1>9, <2>1, <2>2, OneThread
    DEF TypeInv, MarkQueued, QueueingFails, NextOfBatch
  <2>4. CASE MarkQueued(t)
    BY <2>3, <2>4 DEF TypeInv, TypeOK, ThreadsOK, MarkQueued, Open, Concluded
  <2>5. CASE QueueingFails(t)
    <3>1. left' \in [Events -> Nat]
      BY <2>5, SpendType DEF TypeInv, TypeOK, QueueingFails, Events
    <3>2. QED
      BY <2>3, <2>5, <3>1 DEF TypeInv, TypeOK, ThreadsOK, QueueingFails
  <2>6. QED
    BY <1>9, <2>4, <2>5
<1>10. CASE Promote(t)
  <2>1. Typed("unlock", l) /\ l.start \in Nat
    BY <1>0, <1>10 DEF ThreadOK, Promote, Locals
  <2>2. ThreadsOK'
    BY <1>10, <2>1, OneThread DEF TypeInv, Promote
  <2>3. campaign' \in [Campaigns -> CampaignStatus]
    BY <1>10 DEF TypeInv, TypeOK, Promote, CampaignStatus, Active
  <2>4. startedAt' \in [Campaigns -> Nat]
    BY <1>10, <2>1, NowType DEF TypeInv, TypeOK, Promote
  <2>5. QED
    BY <1>10, <2>2, <2>3, <2>4 DEF TypeInv, TypeOK, ThreadsOK, Promote
<1>11. CASE CompareToken(t)
  <2>1. Typed("del", l) /\ Typed("next", l)
    BY <1>0, <1>11 DEF ThreadOK, CompareToken
  <2>2. ThreadsOK'
    BY <1>11, <2>1, OneThread DEF TypeInv, CompareToken
  <2>3. QED
    BY <1>11, <2>2 DEF TypeInv, TypeOK, ThreadsOK,
      CompareToken
<1>12. CASE DeleteLock(t)
  <2>1. Typed("next", l)
    BY <1>0, <1>12 DEF ThreadOK, DeleteLock
  <2>2. ThreadsOK'
    BY <1>12, <2>1, OneThread DEF TypeInv, DeleteLock
  <2>3. QED
    BY <1>12, <2>2 DEF TypeInv, TypeOK, ThreadsOK,
      DeleteLock
<1>13. QED
  BY <1>1, <1>2, <1>3, <1>4, <1>5, <1>6, <1>7, <1>8, <1>9, <1>10, <1>11,
     <1>12 DEF Dispatch

\* The refresh and the automatic pause keep the types.
LEMMA RefreshType ==
  ASSUME TypeInv, NEW t \in Threads, Refresh(t)
  PROVE  TypeInv'
<1> DEFINE l == loc[t]  r == rec[t]
           Typed(p, k) == ThreadOK(p, r, k)
<1> USE DEF Steps, OnCampaign, WorkerSteps, SafetySteps, RefreshSteps,
            LeaseSteps, CommandSteps
<1>0. ThreadOK(pc[t], r, l) /\ l \in Locals
  BY DEF TypeInv, ThreadsOK, ThreadOK
<1>1. CASE EvaluateAutoPause(t)
  <2>1. Typed("pauseRead", l) /\ Typed("group", l)
    BY <1>0, <1>1 DEF ThreadOK, EvaluateAutoPause
  <2>2. ThreadsOK'
    BY <1>1, <2>1, OneThread DEF TypeInv, EvaluateAutoPause
  <2>3. QED
    BY <1>1, <2>2 DEF TypeInv, TypeOK, ThreadsOK, EvaluateAutoPause
<1>2. CASE PauseRead(t)
  <2>1. Typed("pauseWrite", l) /\ Typed("group", l)
    BY <1>0, <1>2 DEF ThreadOK, PauseRead
  <2>2. ThreadsOK'
    BY <1>2, <2>1, OneThread DEF TypeInv, PauseRead
  <2>3. QED
    BY <1>2, <2>2 DEF TypeInv, TypeOK, ThreadsOK, PauseRead
<1>3. CASE PauseWrite(t)
  <2>1. Typed("group", l)
    BY <1>0, <1>3 DEF ThreadOK, PauseWrite
  <2>2. ThreadsOK'
    BY <1>3, <2>1, OneThread DEF TypeInv, PauseWrite
  <2>3. QED
    BY <1>3, <2>2 DEF TypeInv, TypeOK, ThreadsOK, PauseWrite, CampaignStatus
<1>4. CASE GroupRows(t)
  <2>1. \A b \in BOOLEAN : Typed("status", [l EXCEPT !.complete = b])
    BY <1>0, <1>4, SetComplete DEF ThreadOK, GroupRows
  <2>2. ThreadsOK'
    BY <1>4, <2>1, OneThread DEF TypeInv, GroupRows
  <2>3. QED
    BY <1>4, <2>2 DEF TypeInv, TypeOK, ThreadsOK, GroupRows
<1>5. CASE ReadStatus(t)
  <2>1. Typed("store", [l EXCEPT !.seen = campaign[l.camp]])
    BY <1>0, <1>5, SetSeen DEF ThreadOK, ReadStatus, TypeInv, TypeOK
  <2>2. ThreadsOK'
    BY <1>5, <2>1, OneThread DEF TypeInv, ReadStatus
  <2>3. QED
    BY <1>5, <2>2 DEF TypeInv, TypeOK, ThreadsOK, ReadStatus
<1>6. CASE StoreStatus(t)
  <2>1. Typed("list", l) /\ Typed("finish", l) /\ l.seen \in CampaignStatus
    BY <1>0, <1>6 DEF ThreadOK, StoreStatus
  <2>2. ThreadsOK'
    BY <1>6, <2>1, OneThread DEF TypeInv, StoreStatus
  <2>3. QED
    BY <1>6, <2>1, <2>2 DEF TypeInv, TypeOK, ThreadsOK, StoreStatus,
       CampaignStatus
<1>7. QED
  BY <1>1, <1>2, <1>3, <1>4, <1>5, <1>6 DEF Refresh

\* The steps of a command keep the types.
LEMMA CarryType ==
  ASSUME TypeInv, NEW t \in Threads, Carry(t)
  PROVE  TypeInv'
<1> DEFINE l == loc[t]  r == rec[t]
           Typed(p, k) == ThreadOK(p, r, k)
<1> USE DEF Steps, OnCampaign, WorkerSteps, SafetySteps, RefreshSteps,
            LeaseSteps, CommandSteps
<1>0. ThreadOK(pc[t], r, l) /\ l \in Locals
  BY DEF TypeInv, ThreadsOK, ThreadOK
<1>1. CASE UserPause(t)
  <2>1. Typed("finish", l)
    BY <1>0, <1>1 DEF ThreadOK, UserPause
  <2>2. ThreadsOK'
    BY <1>1, <2>1, OneThread DEF TypeInv, UserPause
  <2>3. QED
    BY <1>1, <2>2 DEF TypeInv, TypeOK, ThreadsOK, UserPause, CampaignStatus
<1>2. CASE ResumeRows(t)
  <2>1. Typed("resumeWrite", l)
    BY <1>0, <1>2 DEF ThreadOK, ResumeRows
  <2>2. ThreadsOK'
    BY <1>2, <2>1, OneThread DEF TypeInv, ResumeRows
  <2>3. QED
    BY <1>2, <2>2 DEF TypeInv, TypeOK, ThreadsOK, ResumeRows, Open, Concluded
<1>3. CASE CancelTx(t)
  <2>1. Typed("purge", l)
    BY <1>0, <1>3 DEF ThreadOK, CancelTx
  <2>2. ThreadsOK'
    BY <1>3, <2>1, OneThread DEF TypeInv, CancelTx
  <2>3. QED
    BY <1>3, <2>2 DEF TypeInv, TypeOK, ThreadsOK, CancelTx, Open, Concluded,
      CampaignStatus
<1>4. CASE Purge(t)
  <2>1. Typed("group", l)
    BY <1>0, <1>4 DEF ThreadOK, Purge
  <2>2. ThreadsOK'
    BY <1>4, <2>1, OneThread DEF TypeInv, Purge
  <2>3. QED
    BY <1>4, <2>2 DEF TypeInv, TypeOK, ThreadsOK, Purge, JobState
<1>5. CASE PauseAll(t)
  <2>1. Typed("finish", l)
    BY <1>0, <1>5 DEF ThreadOK, PauseAll
  <2>2. ThreadsOK'
    BY <1>5, <2>1, OneThread DEF TypeInv, PauseAll
  <2>3. QED
    BY <1>5, <2>2 DEF TypeInv, TypeOK, ThreadsOK, PauseAll, CampaignStatus
<1>6. CASE StartWrite(t) \/ ResumeWrite(t)
  <2>1. l.camp \in Campaigns /\ l.start \in Nat
    BY <1>0, <1>6 DEF ThreadOK, StartWrite, ResumeWrite, Locals
  <2>2. Typed("next", [Blank EXCEPT !.todo = {l.camp}])
    BY <1>0, <2>1, BlankType, SetTodo DEF ThreadOK
  <2>3. ThreadsOK'
    BY <1>6, <2>2, OneThread DEF TypeInv, StartWrite, ResumeWrite
  <2>4. campaign' \in [Campaigns -> CampaignStatus]
    BY <1>6 DEF TypeInv, TypeOK, StartWrite, ResumeWrite, CampaignStatus, Active
  <2>5. startedAt' \in [Campaigns -> Nat]
    BY <1>6, <2>1, NowType DEF TypeInv, TypeOK, StartWrite, ResumeWrite
  <2>6. QED
    BY <1>6, <2>3, <2>4, <2>5 DEF TypeInv, TypeOK, ThreadsOK, StartWrite,
       ResumeWrite
<1>7. QED
  BY <1>1, <1>2, <1>3, <1>4, <1>5, <1>6 DEF Carry

\* A job that is left moves within the job states.
LEMMA LeaveType ==
  ASSUME TypeInv, NEW t \in Threads, NEW state \in JobState, LeaveJob(t, state)
  PROVE  /\ ThreadsOK'
         /\ job' \in [Recipients -> JobState]
         /\ owner' \in [Recipients -> Threads \union {NoThread}]
<1>1. ThreadOK("idle", NoRow, Blank)
  BY BlankType DEF ThreadOK, Steps, OnCampaign, WorkerSteps, SafetySteps,
     RefreshSteps, LeaseSteps, CommandSteps
<1>2. ThreadsOK'
  BY <1>1, OneThread DEF TypeInv, LeaveJob
<1>3. QED
  BY <1>2 DEF TypeInv, TypeOK, LeaveJob

\* The catch block leads to the retry or to the failure of the row.
LEMMA HandleType ==
  ASSUME TypeInv, NEW t \in Threads, NEW category \in ErrorCategories,
         Handle(t, category), rec' = rec, rec[t] \in Recipients,
         loc[t].camp \in Campaigns
  PROVE  ThreadsOK'
<1> DEFINE k == [loc[t] EXCEPT !.cat = category]
<1>1. ThreadOK(pc[t], rec[t], loc[t])
  BY DEF TypeInv, ThreadsOK
<1>2. k \in Locals /\ k.cat = category /\ k.camp = loc[t].camp
  BY <1>1, SetCategory DEF ThreadOK
<1>3. ThreadOK("requeue", rec[t], k) /\ ThreadOK("fail", rec[t], k)
  BY <1>1, <1>2 DEF ThreadOK, Steps, OnCampaign, WorkerSteps, SafetySteps,
     RefreshSteps, LeaseSteps, CommandSteps
<1>4. QED
  BY <1>3, OneThread DEF TypeInv, Handle

\* The steps of a send keep the types.
LEMMA SendType ==
  ASSUME TypeInv, NEW t \in Threads, Send(t)
  PROVE  TypeInv'
<1> DEFINE l == loc[t]  r == rec[t]
           Typed(p, k) == ThreadOK(p, r, k)
<1> USE DEF Steps, OnCampaign, WorkerSteps, SafetySteps, RefreshSteps,
            LeaseSteps, CommandSteps
<1>0. ThreadOK(pc[t], r, l) /\ l \in Locals
  BY DEF TypeInv, ThreadsOK, ThreadOK
<1>1. CASE ReadRow(t)
  <2>1. r \in Recipients /\ pc[t] = "read"
    BY <1>0, <1>1 DEF ThreadOK, ReadRow
  <2>2. attempts[r] + 1 \in Nat
    BY <2>1 DEF TypeInv, TypeOK
  <2>3. Typed("claim", [l EXCEPT !.att = attempts[r] + 1])
    BY <1>0, <2>1, <2>2, SetAttempt DEF ThreadOK
  <2>4. Typed("list", l) /\ Typed("cancelRow", l) /\ Typed("restoreRow", l)
    BY <1>0, <2>1 DEF ThreadOK
  <2>5. ThreadsOK'
    BY <1>1, <2>3, <2>4, OneThread DEF TypeInv, ReadRow
  <2>6. QED
    BY <1>1, <2>5 DEF TypeInv, TypeOK, ThreadsOK, ReadRow
<1>2. CASE CancelRow(t)
  <2>1. Typed("list", l)
    BY <1>0, <1>2 DEF ThreadOK, CancelRow
  <2>2. ThreadsOK'
    BY <1>2, <2>1, OneThread DEF TypeInv, CancelRow
  <2>3. QED
    BY <1>2, <2>2 DEF TypeInv, TypeOK, ThreadsOK, CancelRow, Concluded
<1>3. CASE RestoreRow(t)
  <2>1. Typed("list", l)
    BY <1>0, <1>3 DEF ThreadOK, RestoreRow
  <2>2. ThreadsOK'
    BY <1>3, <2>1, OneThread DEF TypeInv, RestoreRow
  <2>3. QED
    BY <1>3, <2>2 DEF TypeInv, TypeOK, ThreadsOK, RestoreRow, Open
<1>4. CASE Claim(t)
  <2>1. Typed("recheck", l) /\ Typed("list", l)
    BY <1>0, <1>4 DEF ThreadOK, Claim
  <2>2. ThreadsOK'
    BY <1>4, <2>1, OneThread DEF TypeInv, Claim
  <2>3. QED
    BY <1>4, <2>2 DEF TypeInv, TypeOK, ThreadsOK, Claim, Open
<1>5. CASE Recheck(t)
  <2>1. r \in Recipients /\ CampaignOf[r] \in Campaigns
    BY <1>0, <1>5, ConstantsAssumption DEF ThreadOK, Recheck
  <2>2. campaign[CampaignOf[r]] \in CampaignStatus
    BY <2>1 DEF TypeInv, TypeOK
  <2>3. \A p \in {"send", "drop"} :
           Typed(p, [l EXCEPT !.seen = campaign[CampaignOf[r]]])
    BY <1>0, <1>5, <2>1, <2>2, SetSeen DEF ThreadOK, Recheck
  <2>4. ThreadsOK'
    BY <1>5, <2>3, OneThread DEF TypeInv, Recheck
  <2>5. QED
    BY <1>5, <2>4 DEF TypeInv, TypeOK, ThreadsOK, Recheck
<1>6. CASE Drop(t)
  <2>1. Typed("list", l)
    BY <1>0, <1>6 DEF ThreadOK, Drop
  <2>2. ThreadsOK'
    BY <1>6, <2>1, OneThread DEF TypeInv, Drop
  <2>3. QED
    BY <1>6, <2>2 DEF TypeInv, TypeOK, ThreadsOK, Drop, Open, Concluded
<1>7. CASE SendAccepted(t)
  <2>1. Typed("commit", l)
    BY <1>0, <1>7 DEF ThreadOK, SendAccepted
  <2>2. ThreadsOK'
    BY <1>7, <2>1, OneThread DEF TypeInv, SendAccepted
  <2>3. r \in Recipients /\ accepted[r] + 1 \in Nat
    BY <1>0, <1>7 DEF ThreadOK, SendAccepted, TypeInv, TypeOK
  <2>4. accepted' \in [Recipients -> Nat]
    BY <1>7, <2>3 DEF TypeInv, TypeOK, SendAccepted
  <2>5. QED
    BY <1>7, <2>2, <2>4 DEF TypeInv, TypeOK, ThreadsOK, SendAccepted
<1>8. CASE SendRejected(t)
  <2>1. r \in Recipients /\ l.camp \in Campaigns
    BY <1>0, <1>8 DEF ThreadOK, SendRejected
  <2>2. ThreadsOK'
    BY <1>8, <2>1, HandleType, ConstantsAssumption DEF SendRejected
  <2>3. QED
    BY <1>8, <2>2 DEF TypeInv, TypeOK, ThreadsOK, SendRejected
<1>9. CASE AnswerLost(t) \/ CommitFails(t) \/ RefreshFails(t)
  <2>1. r \in Recipients /\ l.camp \in Campaigns
    BY <1>0, <1>9 DEF ThreadOK, AnswerLost, CommitFails, RefreshFails
  <2>2. ThreadsOK'
    BY <1>9, <2>1, HandleType
    DEF AnswerLost, CommitFails, RefreshFails, ErrorCategories
  <2>3. left' \in [Events -> Nat]
    BY <1>9, SpendType
    DEF TypeInv, TypeOK, AnswerLost, CommitFails, RefreshFails, Events
  <2>4. QED
    BY <1>9, <2>2, <2>3 DEF TypeInv, TypeOK, ThreadsOK, AnswerLost, CommitFails,
       RefreshFails
<1>10. CASE Commit(t)
  <2>1. r \in Recipients /\ l.camp \in Campaigns
    BY <1>0, <1>10 DEF ThreadOK, Commit
  <2>2. Typed("group", [l EXCEPT !.cat = "SENT"])
    BY <1>0, <2>1, SetCategory DEF ThreadOK
  <2>3. ThreadsOK'
    BY <1>10, <2>2, OneThread DEF TypeInv, Commit
  <2>4. QED
    BY <1>10, <2>3 DEF TypeInv, TypeOK, ThreadsOK, Commit, Concluded
<1>11. CASE Requeue(t)
  <2>1. Typed("redelay", l)
    BY <1>0, <1>11 DEF ThreadOK, Requeue
  <2>2. ThreadsOK'
    BY <1>11, <2>1, OneThread DEF TypeInv, Requeue
  <2>3. r \in Recipients
    BY <1>0, <1>11 DEF ThreadOK, Requeue
  <2>4. retried' \subseteq Recipients
    BY <1>11, <2>3 DEF TypeInv, TypeOK, Requeue
  <2>5. row' \in [Recipients -> Open \union Concluded]
    BY <1>11 DEF TypeInv, TypeOK, Requeue, Open
  <2>6. QED
    BY <1>11, <2>2, <2>4, <2>5 DEF TypeInv, TypeOK, ThreadsOK, Requeue
<1>12. CASE Redelay(t) \/ Finish(t)
  <2>1. PICK state \in JobState : LeaveJob(t, state)
    BY <1>12 DEF Redelay, Finish, JobState
  <2>2. QED
    BY <1>12, <2>1, LeaveType DEF TypeInv, TypeOK, ThreadsOK, Redelay, Finish
<1>13. CASE Fail(t)
  <2>1. Typed("pausePhone", l) /\ Typed("pauseRead", l) /\ Typed("evaluate", l)
    BY <1>0, <1>13 DEF ThreadOK, Fail
  <2>2. ThreadsOK'
    BY <1>13, <2>1, OneThread DEF TypeInv, Fail
  <2>3. QED
    BY <1>13, <2>2 DEF TypeInv, TypeOK, ThreadsOK, Fail, Concluded
<1>14. CASE PausePhone(t)
  <2>1. Typed("group", l)
    BY <1>0, <1>14 DEF ThreadOK, PausePhone
  <2>2. ThreadsOK'
    BY <1>14, <2>1, OneThread DEF TypeInv, PausePhone
  <2>3. QED
    BY <1>14, <2>2 DEF TypeInv, TypeOK, ThreadsOK, PausePhone, CampaignStatus
<1>15. QED
  BY <1>1, <1>2, <1>3, <1>4, <1>5, <1>6, <1>7, <1>8, <1>9, <1>10, <1>11, <1>12, <1>13, <1>14 DEF Send

\* Requests, receipts and interval ticks keep the types.
LEMMA AskType ==
  ASSUME TypeInv, NEW t \in Threads,
         \/ Tick(t) \/ Crash(t) \/ Throws(t)
         \/ \E c \in Campaigns : Ask(t, c)
         \/ \E r \in Recipients : TakeJob(t, r) \/ Receipt(t, r)
  PROVE  TypeInv'
<1> USE DEF Steps, OnCampaign, WorkerSteps, SafetySteps, RefreshSteps,
            LeaseSteps, CommandSteps
<1>0. ThreadOK(pc[t], rec[t], loc[t]) /\ Blank \in Locals /\ Blank.cat # "SENT"
  BY BlankType DEF TypeInv, ThreadsOK
<1>1. ASSUME NEW c \in Campaigns, NEW n \in Nat
      PROVE  LET k == [Blank EXCEPT !.camp = c]
                 m == [Blank EXCEPT !.camp = c, !.start = n]
             IN /\ k \in Locals /\ k.camp = c /\ k.cat # "SENT"
                /\ m \in Locals /\ m.camp = c /\ m.cat # "SENT"
  BY DEF Blank, Locals
<1>2. CASE Tick(t)
  <2>1. ThreadOK("list", rec[t], loc[t])
    BY <1>0 DEF ThreadOK
  <2>2. ThreadsOK'
    BY <1>2, <2>1, OneThread DEF TypeInv, Tick
  <2>3. QED
    BY <1>2, <2>2 DEF TypeInv, TypeOK, ThreadsOK, Tick
<1>3. CASE Crash(t)
  <2>1. ThreadOK("idle", NoRow, Blank)
    BY <1>0 DEF ThreadOK
  <2>2. ThreadsOK'
    BY <1>3, <2>1, OneThread DEF TypeInv, Crash
  <2>3. left' \in [Events -> Nat]
    BY <1>3, SpendType DEF TypeInv, TypeOK, Crash, Events
  <2>4. QED
    BY <1>3, <2>2, <2>3 DEF TypeInv, TypeOK, ThreadsOK, Crash
<1>4. ASSUME NEW c \in Campaigns, Ask(t, c)
      PROVE  TypeInv'
  <2>1. CASE DisablePhone(t, c)
    <3>1. ThreadOK("pauseAll", rec[t], [Blank EXCEPT !.camp = c])
      BY <1>0, <1>1 DEF ThreadOK
    <3>2. ThreadsOK'
      BY <2>1, <3>1, OneThread DEF TypeInv, DisablePhone
    <3>3. left' \in [Events -> Nat]
      BY <2>1, SpendType DEF TypeInv, TypeOK, DisablePhone, Events
    <3>4. QED
      BY <2>1, <3>2, <3>3 DEF TypeInv, TypeOK, ThreadsOK, DisablePhone
  <2>2. CASE ~DisablePhone(t, c)
    <3>1. PICK p \in {"startWrite", "userPause", "resumeRows", "cancelTx", "group"} :
             Spend("command") /\ Begin(t, c, p)
      BY <1>4, <2>2
      DEF Ask, AskStart, AskPause, AskResume, AskCancel, AskProgress
    <3>2. startedAt[c] \in Nat
      BY DEF TypeInv, TypeOK
    <3>3. ThreadOK(p, rec[t], [Blank EXCEPT !.camp = c, !.start = startedAt[c]])
      BY <1>0, <1>1, <3>1, <3>2 DEF ThreadOK
    <3>4. ThreadsOK'
      BY <3>1, <3>3, OneThread DEF TypeInv, Begin
    <3>5. left' \in [Events -> Nat]
      BY <3>1, SpendType DEF TypeInv, TypeOK, Events
    <3>6. QED
      BY <3>1, <3>4, <3>5 DEF TypeInv, TypeOK, ThreadsOK, Begin
  <2>3. QED
    BY <2>1, <2>2
<1>5. ASSUME NEW r \in Recipients, TakeJob(t, r)
      PROVE  TypeInv'
  <2>1. CampaignOf[r] \in Campaigns
    BY ConstantsAssumption
  <2>2. ThreadOK("read", r, [Blank EXCEPT !.camp = CampaignOf[r]])
    BY <1>1, <2>1 DEF ThreadOK
  <2>3. ThreadsOK'
    BY <1>5, <2>2, OneThread DEF TypeInv, TakeJob
  <2>4. QED
    BY <1>5, <2>3 DEF TypeInv, TypeOK, ThreadsOK, TakeJob, JobState
<1>6. ASSUME NEW r \in Recipients, Receipt(t, r)
      PROVE  TypeInv'
  <2>1. CampaignOf[r] \in Campaigns
    BY ConstantsAssumption
  <2>2. \A p \in {"evaluate", "group"} :
           ThreadOK(p, rec[t], [Blank EXCEPT !.camp = CampaignOf[r]])
    BY <1>0, <1>1, <2>1 DEF ThreadOK
  <2>3. ThreadsOK'
    BY <1>6, <2>2, OneThread DEF TypeInv, Receipt
  <2>4. left' \in [Events -> Nat]
    BY <1>6, SpendType DEF TypeInv, TypeOK, Receipt, Events
  <2>5. row' \in [Recipients -> Open \union Concluded]
    BY <1>6 DEF TypeInv, TypeOK, Receipt, Concluded
  <2>6. QED
    BY <1>6, <2>3, <2>4, <2>5 DEF TypeInv, TypeOK, ThreadsOK, Receipt
<1>7. CASE Throws(t)
  <2>1. PICK state \in JobState : LeaveJob(t, state)
    BY <1>7 DEF Throws, JobState
  <2>2. /\ ThreadsOK'
        /\ job' \in [Recipients -> JobState]
        /\ owner' \in [Recipients -> Threads \union {NoThread}]
    BY <2>1, LeaveType
  <2>3. left' \in [Events -> Nat]
    BY <1>7, SpendType DEF TypeInv, TypeOK, Throws, Events
  <2>4. lock' \in [Campaigns -> Threads \union {NoThread}]
    BY <1>7 DEF TypeInv, TypeOK, Throws
  <2>5. QED
    BY <1>7, <2>2, <2>3, <2>4 DEF TypeInv, TypeOK, ThreadsOK, Throws
<1>8. QED
  BY <1>2, <1>3, <1>4, <1>5, <1>6, <1>7

\* What happens outside the threads keeps the types.
LEMMA OutsideType ==
  ASSUME TypeInv,
         \/ \E r \in Recipients : JobDue(r) \/ JobStalls(r)
         \/ \E c \in Campaigns : LockExpires(c)
         \/ \E p \in Phones : EnablePhone(p)
         \/ \E customer \in Customers : OptOut(customer)
  PROVE  TypeInv'
<1>1. ASSUME NEW r \in Recipients, JobDue(r) \/ JobStalls(r)
      PROVE  TypeInv'
  <2>1. left' \in [Events -> Nat]
    BY <1>1, SpendType DEF TypeInv, TypeOK, JobDue, JobStalls, Events
  <2>2. job' \in [Recipients -> JobState]
    BY <1>1 DEF TypeInv, TypeOK, JobDue, JobStalls, JobState
  <2>3. QED
    BY <1>1, <2>1, <2>2 DEF TypeInv, TypeOK, ThreadsOK, JobDue, JobStalls
<1>2. ASSUME NEW c \in Campaigns, LockExpires(c)
      PROVE  TypeInv'
  <2>1. left' \in [Events -> Nat]
    BY <1>2, SpendType DEF TypeInv, TypeOK, LockExpires, Events
  <2>2. QED
    BY <1>2, <2>1 DEF TypeInv, TypeOK, ThreadsOK, LockExpires
<1>3. ASSUME NEW p \in Phones, EnablePhone(p)
      PROVE  TypeInv'
  <2>1. left' \in [Events -> Nat]
    BY <1>3, SpendType DEF TypeInv, TypeOK, EnablePhone, Events
  <2>2. QED
    BY <1>3, <2>1 DEF TypeInv, TypeOK, ThreadsOK, EnablePhone
<1>4. ASSUME NEW customer \in Customers, OptOut(customer)
      PROVE  TypeInv'
  <2>1. left' \in [Events -> Nat]
    BY <1>4, SpendType DEF TypeInv, TypeOK, OptOut, Events
  <2>2. row' \in [Recipients -> Open \union Concluded]
    BY <1>4 DEF TypeInv, TypeOK, OptOut, Open, Concluded
  <2>3. QED
    BY <1>4, <2>1, <2>2 DEF TypeInv, TypeOK, ThreadsOK, OptOut
<1>5. QED
  BY <1>1, <1>2, <1>3, <1>4

\* Every step of the program and of its surroundings keeps the types.
THEOREM TypeStep == TypeInv /\ [Next]_vars => TypeInv'
<1> SUFFICES ASSUME TypeInv, [Next]_vars PROVE TypeInv'
  OBVIOUS
<1>1. CASE UNCHANGED vars
  BY <1>1 DEF TypeInv, TypeOK, ThreadsOK, vars
<1>2. CASE Next
  BY <1>2, DispatchType, SendType, RefreshType, CarryType, AskType, OutsideType
  DEF Next, Step
<1>3. QED
  BY <1>1, <1>2

\* Every variable of the campaign engine keeps its type, and a thread reads
\* only the locals it has set, in every interleaving of dispatch, send,
\* command, receipt, crash and queue event.
THEOREM TypeCorrect == Spec => []TypeOK
<1>1. TypeInv => TypeOK
  BY DEF TypeInv
<1>2. QED
  BY <1>1, InitType, TypeStep, PTL DEF Spec

(***************************************************************************)
(* Claims.  ClaimExclusive and NoBlindResend are inductive together with    *)
(* four facts: a thread whose outcome is SENT has recorded it, a row that   *)
(* is being sent is not recorded, and neither a row that waits nor one that *)
(* is held short of its commit has an accepted send the program knows of.   *)
(***************************************************************************)
SenderSteps == {"recheck", "drop", "send", "commit", "requeue", "fail"}

SentRecorded ==
  \A t \in Threads : loc[t].cat = "SENT" => recorded[rec[t]]

SendingUnrecorded ==
  \A t \in Threads :
    pc[t] \in {"recheck", "drop", "send", "commit"} => ~recorded[rec[t]]

WaitingUnsent ==
  \A r \in Recipients :
    row[r] \in {"PENDING", "QUEUED"} /\ ~recorded[r] => accepted[r] <= lost[r]

HeldUnsent ==
  \A t \in Threads, r \in Recipients :
    Holds(t, r) /\ pc[t] # "commit" => accepted[r] <= lost[r]

SenderInv ==
  /\ SentRecorded /\ SendingUnrecorded /\ ClaimExclusive
  /\ WaitingUnsent /\ HeldUnsent /\ NoBlindResend

\* A step that neither claims a row nor sends nor commits: how it may move a
\* thread and a row.
QuietThread(t) ==
  /\ \/ pc'[t] = pc[t] /\ rec'[t] = rec[t]
     \/ pc'[t] \notin SenderSteps
     \/ rec'[t] = rec[t] /\ pc'[t] \in {"requeue", "fail"} /\ recorded[rec[t]]
     \/ rec'[t] = rec[t] /\ pc[t] = "recheck" /\ pc'[t] \in {"drop", "send"}
     \/ rec'[t] = rec[t] /\ pc[t] = "send" /\ pc'[t] \in {"requeue", "fail"}
  /\ loc'[t].cat = "SENT" => loc[t].cat = "SENT" /\ rec'[t] = rec[t]

QuietRow(r) ==
  \/ row'[r] = row[r]
  \/ row'[r] = "CANCELLED"
  \/ recorded[r]
  \/ row[r] \in {"PENDING", "QUEUED"} /\ row'[r] \in {"PENDING", "QUEUED"}
  \/ \E t \in Threads : Holds(t, r) /\ pc[t] # "commit" /\ pc'[t] \notin SenderSteps

Quiet ==
  /\ UNCHANGED <<recorded, accepted, lost>>
  /\ \A t \in Threads : QuietThread(t)
  /\ \A r \in Recipients : QuietRow(r)

\* A quiet step keeps the claims: nobody gains a row, and a held row stays put.
LEMMA QuietKeepsClaims ==
  ASSUME TypeInv, TypeInv', SenderInv, Quiet
  PROVE  SenderInv'
<1> USE DEF SenderSteps
<1>1. ASSUME NEW t \in Threads, NEW r \in Recipients, Holds(t, r)'
      PROVE  Holds(t, r) /\ (pc'[t] = "commit" <=> pc[t] = "commit")
  BY <1>1 DEF Quiet, QuietThread, Holds
<1>2. SentRecorded'
  BY DEF SenderInv, SentRecorded, Quiet, QuietThread
<1>3. SendingUnrecorded'
  BY DEF SenderInv, SendingUnrecorded, Quiet, QuietThread
<1>4. ASSUME NEW r \in Recipients, NEW t \in Threads, Holds(t, r)'
      PROVE  /\ row'[r] \in {"PROCESSING", "CANCELLED"}
             /\ \A u \in Threads \ {t} : ~Holds(u, r)'
  <2>1. Holds(t, r) /\ \A u \in Threads \ {t} : ~Holds(u, r)
    BY <1>1, <1>4 DEF SenderInv, ClaimExclusive
  <2>2. row[r] \in {"PROCESSING", "CANCELLED"} /\ ~recorded[r]
    BY <2>1 DEF SenderInv, ClaimExclusive, Holds
  <2>3. ~(\E u \in Threads : Holds(u, r) /\ pc'[u] \notin SenderSteps)
    BY <1>4, <2>1 DEF Holds
  <2>4. row'[r] \in {"PROCESSING", "CANCELLED"}
    BY <2>2, <2>3 DEF Quiet, QuietRow
  <2>5. QED
    BY <1>1, <2>1, <2>4
<1>5. ClaimExclusive'
  BY <1>4 DEF ClaimExclusive
<1>6. HeldUnsent'
  BY <1>1 DEF SenderInv, HeldUnsent, Quiet
<1>7. WaitingUnsent'
  BY DEF SenderInv, WaitingUnsent, HeldUnsent, Quiet, QuietRow
<1>8. NoBlindResend'
  BY DEF SenderInv, NoBlindResend, Quiet
<1>9. QED
  BY <1>2, <1>3, <1>5, <1>6, <1>7, <1>8 DEF SenderInv

\* The row a thread at one of these steps works on is its own.
LEMMA OwnRow ==
  ASSUME TypeInv, NEW t \in Threads, pc[t] \in WorkerSteps
  PROVE  rec[t] \in Recipients /\ CampaignOf[rec[t]] \in Campaigns
  BY ConstantsAssumption DEF TypeInv, ThreadsOK, ThreadOK

\* A dispatch marks rows PENDING to QUEUED and touches no held row.
LEMMA DispatchQuiet ==
  ASSUME TypeInv, NEW t \in Threads, Dispatch(t)
  PROVE  Quiet
<1> USE DEF QuietThread, QuietRow, SenderSteps, TypeInv, TypeOK, Quiet, Locals,
            Blank
<1>1. CASE List(t)
  BY <1>1 DEF List
<1>2. CASE AcquireLock(t)
  BY <1>2 DEF AcquireLock
<1>3. CASE SkipLocked(t)
  BY <1>3 DEF SkipLocked
<1>4. CASE NoMoreCampaigns(t)
  BY <1>4 DEF NoMoreCampaigns
<1>5. CASE FetchCampaign(t)
  BY <1>5 DEF FetchCampaign
<1>6. CASE CheckCompetitor(t)
  BY <1>6 DEF CheckCompetitor
<1>7. CASE CountInFlight(t)
  BY <1>7 DEF CountInFlight
<1>8. CASE PickBatch(t)
  BY <1>8 DEF PickBatch
<1>9. CASE Enqueue(t)
  BY <1>9 DEF Enqueue
<1>10. CASE MarkQueued(t)
  BY <1>10 DEF MarkQueued, NextOfBatch
<1>11. CASE QueueingFails(t)
  BY <1>11 DEF QueueingFails, NextOfBatch
<1>12. CASE Promote(t)
  BY <1>12 DEF Promote
<1>13. CASE CompareToken(t)
  BY <1>13 DEF CompareToken
<1>14. CASE DeleteLock(t)
  BY <1>14 DEF DeleteLock
<1>15. QED
  BY <1>1, <1>2, <1>3, <1>4, <1>5, <1>6, <1>7, <1>8, <1>9, <1>10, <1>11, <1>12, <1>13, <1>14 DEF Dispatch

\* Neither the automatic pause nor the refresh touches a row.
LEMMA RefreshQuiet ==
  ASSUME TypeInv, NEW t \in Threads, Refresh(t)
  PROVE  Quiet
<1> USE DEF QuietThread, QuietRow, SenderSteps, TypeInv, TypeOK, Quiet, Locals,
            Blank
<1>1. CASE EvaluateAutoPause(t)
  BY <1>1 DEF EvaluateAutoPause
<1>2. CASE PauseRead(t)
  BY <1>2 DEF PauseRead
<1>3. CASE PauseWrite(t)
  BY <1>3 DEF PauseWrite
<1>4. CASE GroupRows(t)
  BY <1>4 DEF GroupRows
<1>5. CASE ReadStatus(t)
  BY <1>5 DEF ReadStatus
<1>6. CASE StoreStatus(t)
  BY <1>6 DEF StoreStatus
<1>7. QED
  BY <1>1, <1>2, <1>3, <1>4, <1>5, <1>6 DEF Refresh

\* Commands move rows that wait, and none that is held, back to PENDING
\* or to CANCELLED.
LEMMA CarryQuiet ==
  ASSUME TypeInv, NEW t \in Threads, Carry(t)
  PROVE  Quiet
<1> USE DEF QuietThread, QuietRow, SenderSteps, TypeInv, TypeOK, Quiet, Locals,
            Blank
<1>1. CASE StartWrite(t)
  BY <1>1 DEF StartWrite
<1>2. CASE UserPause(t)
  BY <1>2 DEF UserPause
<1>3. CASE ResumeRows(t)
  BY <1>3 DEF ResumeRows
<1>4. CASE ResumeWrite(t)
  BY <1>4 DEF ResumeWrite
<1>5. CASE CancelTx(t)
  BY <1>5 DEF CancelTx
<1>6. CASE Purge(t)
  BY <1>6 DEF Purge
<1>7. CASE PauseAll(t)
  BY <1>7 DEF PauseAll
<1>8. QED
  BY <1>1, <1>2, <1>3, <1>4, <1>5, <1>6, <1>7 DEF Carry

\* A request, a receipt, a tick, a crash or a job's start leaves the claims
\* alone; a receipt moves a row that is recorded.
LEMMA AskQuiet ==
  ASSUME TypeInv, NEW t \in Threads,
         \/ Tick(t) \/ Crash(t) \/ Throws(t)
         \/ \E c \in Campaigns : Ask(t, c)
         \/ \E r \in Recipients : TakeJob(t, r) \/ Receipt(t, r)
  PROVE  Quiet
<1> USE DEF QuietThread, QuietRow, SenderSteps, TypeInv, TypeOK, Quiet, Locals,
            Blank
<1>1. CASE Tick(t)
  BY <1>1 DEF Tick
<1>2. CASE Crash(t)
  BY <1>2 DEF Crash
<1>3. ASSUME NEW c \in Campaigns, Ask(t, c)
      PROVE  Quiet
  <2>1. CASE DisablePhone(t, c)
    BY <2>1 DEF DisablePhone
  <2>2. CASE ~DisablePhone(t, c)
    <3>1. PICK p \in {"startWrite", "userPause", "resumeRows", "cancelTx", "group"} :
             Begin(t, c, p)
      BY <1>3, <2>2
      DEF Ask, AskStart, AskPause, AskResume, AskCancel, AskProgress
    <3>2. QED
      BY <3>1 DEF Begin
  <2>3. QED
    BY <2>1, <2>2
<1>4. ASSUME NEW r \in Recipients, TakeJob(t, r)
      PROVE  Quiet
  BY <1>4 DEF TakeJob
<1>5. ASSUME NEW r \in Recipients, Receipt(t, r)
      PROVE  Quiet
  BY <1>5 DEF Receipt
<1>6. CASE Throws(t)
  BY <1>6 DEF Throws, LeaveJob
<1>7. QED
  BY <1>1, <1>2, <1>3, <1>4, <1>5, <1>6

\* The queue, the lock's expiry, the phone switch and opt-outs are quiet.
LEMMA OutsideQuiet ==
  ASSUME TypeInv,
         \/ \E r \in Recipients : JobDue(r) \/ JobStalls(r)
         \/ \E c \in Campaigns : LockExpires(c)
         \/ \E p \in Phones : EnablePhone(p)
         \/ \E customer \in Customers : OptOut(customer)
  PROVE  Quiet
  BY DEF TypeInv, TypeOK, Quiet, QuietThread, QuietRow, JobDue, JobStalls,
     LockExpires, EnablePhone, OptOut

\* The step takes a row, sends it, or records the send.
Loud(t) == Claim(t) \/ SendAccepted(t) \/ AnswerLost(t) \/ Commit(t) \/ CommitFails(t)

\* Every other step of a send is quiet: a row is given back or failed by the
\* thread that holds it, or was recorded before.
LEMMA SendQuiet ==
  ASSUME TypeInv, SenderInv, NEW t \in Threads, Send(t), ~Loud(t)
  PROVE  Quiet
<1> USE DEF QuietThread, QuietRow, SenderSteps, TypeInv, TypeOK, Quiet, Locals,
            Blank
<1>1. CASE ReadRow(t)
  BY <1>1 DEF ReadRow
<1>2. CASE CancelRow(t) \/ RestoreRow(t)
  BY <1>2, OwnRow DEF CancelRow, RestoreRow, WorkerSteps
<1>3. CASE Recheck(t)
  BY <1>3 DEF Recheck
<1>4. CASE Drop(t)
  <2>1. rec[t] \in Recipients /\ Holds(t, rec[t])
    BY <1>4, OwnRow DEF Drop, WorkerSteps, SenderInv, SendingUnrecorded, Holds
  <2>2. QED
    BY <1>4, <2>1 DEF Drop
<1>5. CASE SendRejected(t)
  <2>1. PICK category \in ErrorCategories : Handle(t, category)
    BY <1>5, ConstantsAssumption DEF SendRejected
  <2>2. category # "SENT"
    BY DEF ErrorCategories
  <2>3. QED
    BY <1>5, <2>1, <2>2 DEF SendRejected, Handle
<1>6. CASE RefreshFails(t)
  BY <1>6 DEF RefreshFails, Handle, SenderInv, SentRecorded
<1>7. CASE Requeue(t) \/ Fail(t)
  <2>1. /\ rec[t] \in Recipients
        /\ recorded[rec[t]] \/ Holds(t, rec[t])
    BY <1>7, OwnRow DEF Requeue, Fail, WorkerSteps, Holds
  <2>2. /\ pc[t] # "commit" /\ pc'[t] \notin SenderSteps
        /\ rec' = rec /\ \A u \in Threads \ {t} : pc'[u] = pc[u]
        /\ \A r \in Recipients : r # rec[t] => row'[r] = row[r]
        /\ UNCHANGED <<loc, recorded, accepted, lost>>
    BY <1>7 DEF Requeue, Fail
  <2>3. \A u \in Threads : QuietThread(u)
    BY <2>2
  <2>4. \A r \in Recipients : QuietRow(r)
    BY <2>1, <2>2
  <2>5. QED
    BY <2>2, <2>3, <2>4
<1>8. CASE PausePhone(t)
  BY <1>8 DEF PausePhone
<1>9. CASE Redelay(t) \/ Finish(t)
  BY <1>9 DEF Redelay, Finish, LeaveJob
<1>10. QED
  BY <1>1, <1>2, <1>3, <1>4, <1>5, <1>6, <1>7, <1>8, <1>9 DEF Send, Loud

\* The claim takes a row that waits, which nobody holds and nobody has sent.
LEMMA ClaimKeepsClaims ==
  ASSUME TypeInv, TypeInv', SenderInv, NEW t \in Threads, Claim(t)
  PROVE  SenderInv'
<1> DEFINE q == rec[t]
<1> USE DEF SenderInv, SentRecorded, SendingUnrecorded, ClaimExclusive,
            WaitingUnsent, HeldUnsent, NoBlindResend, Holds
<1>1. q \in Recipients
  BY OwnRow DEF Claim, WorkerSteps
<1>2. /\ pc \in [Threads -> Steps] /\ row \in [Recipients -> Open \union Concluded]
  BY DEF TypeInv, TypeOK
<1>3. CASE ~Claimable(q)
  <2>1. Quiet
    BY <1>2, <1>3 DEF Claim, Quiet, QuietThread, QuietRow, SenderSteps
  <2>2. QED
    BY <2>1, QuietKeepsClaims
<1>4. CASE Claimable(q)
  <2>1. /\ row[q] = "QUEUED" /\ ~recorded[q] /\ accepted[q] <= lost[q]
        /\ \A u \in Threads : ~Holds(u, q)
    BY <1>1, <1>4 DEF Claimable
  <2>2. /\ pc' = [pc EXCEPT ![t] = "recheck"] /\ row' = [row EXCEPT ![q] = "PROCESSING"]
        /\ UNCHANGED <<recorded, accepted, lost, rec, loc>>
    BY <1>4 DEF Claim
  <2>3. ClaimExclusive'
    BY <1>1, <1>2, <2>1, <2>2
  <2>4. SentRecorded' /\ SendingUnrecorded' /\ WaitingUnsent' /\ NoBlindResend'
    BY <1>1, <1>2, <2>1, <2>2
  <2>5. HeldUnsent'
    BY <1>1, <1>2, <2>1, <2>2
  <2>6. QED
    BY <2>3, <2>4, <2>5
<1>5. QED
  BY <1>3, <1>4

\* The send is counted for the row its thread holds.
LEMMA SendAcceptedKeepsClaims ==
  ASSUME TypeInv, SenderInv, NEW t \in Threads, SendAccepted(t)
  PROVE  SenderInv'
<1> DEFINE q == rec[t]
<1> USE DEF SenderInv, SentRecorded, SendingUnrecorded, ClaimExclusive,
            WaitingUnsent, HeldUnsent, NoBlindResend, Holds
<1>1. q \in Recipients /\ ~recorded[q] /\ Holds(t, q)
  BY OwnRow DEF SendAccepted, WorkerSteps
<1>2. /\ accepted[q] \in Nat /\ lost[q] \in Nat
      /\ accepted \in [Recipients -> Nat] /\ lost \in [Recipients -> Nat]
      /\ pc \in [Threads -> Steps] /\ loc \in [Threads -> Locals]
      /\ row \in [Recipients -> Open \union Concluded]
      /\ recorded \in [Recipients -> BOOLEAN]
  BY <1>1 DEF TypeInv, TypeOK
<1>3. SentRecorded'
  BY <1>1, <1>2 DEF SendAccepted, Locals
<1>4. SendingUnrecorded'
  BY <1>1, <1>2 DEF SendAccepted, Locals
<1>5. ClaimExclusive'
  BY <1>1, <1>2 DEF SendAccepted, Locals
<1>6. WaitingUnsent'
  BY <1>1, <1>2 DEF SendAccepted, Locals
<1>7. HeldUnsent'
  BY <1>1, <1>2 DEF SendAccepted, Locals
<1>8. NoBlindResend'
  BY <1>1, <1>2 DEF SendAccepted, Locals
<1>9. QED
  BY <1>3, <1>4, <1>5, <1>6, <1>7, <1>8

\* A lost answer is counted with its send.
LEMMA AnswerLostKeepsClaims ==
  ASSUME TypeInv, SenderInv, NEW t \in Threads, AnswerLost(t)
  PROVE  SenderInv'
<1> DEFINE q == rec[t]
<1> USE DEF SenderInv, SentRecorded, SendingUnrecorded, ClaimExclusive,
            WaitingUnsent, HeldUnsent, NoBlindResend, Holds
<1>1. q \in Recipients /\ ~recorded[q] /\ Holds(t, q)
  BY OwnRow DEF AnswerLost, WorkerSteps
<1>2. /\ accepted[q] \in Nat /\ lost[q] \in Nat
      /\ accepted \in [Recipients -> Nat] /\ lost \in [Recipients -> Nat]
      /\ pc \in [Threads -> Steps] /\ loc \in [Threads -> Locals]
      /\ row \in [Recipients -> Open \union Concluded]
      /\ recorded \in [Recipients -> BOOLEAN]
  BY <1>1 DEF TypeInv, TypeOK
<1>3. SentRecorded'
  BY <1>1, <1>2 DEF AnswerLost, Handle, Locals
<1>4. SendingUnrecorded'
  BY <1>1, <1>2 DEF AnswerLost, Handle, Locals
<1>5. ClaimExclusive'
  BY <1>1, <1>2 DEF AnswerLost, Handle, Locals
<1>6. WaitingUnsent'
  BY <1>1, <1>2 DEF AnswerLost, Handle, Locals
<1>7. HeldUnsent'
  BY <1>1, <1>2 DEF AnswerLost, Handle, Locals
<1>8. NoBlindResend'
  BY <1>1, <1>2 DEF AnswerLost, Handle, Locals
<1>9. QED
  BY <1>3, <1>4, <1>5, <1>6, <1>7, <1>8

\* The commit records the row, so that nobody holds it any more.
LEMMA CommitKeepsClaims ==
  ASSUME TypeInv, SenderInv, NEW t \in Threads, Commit(t)
  PROVE  SenderInv'
<1> DEFINE q == rec[t]
<1> USE DEF SenderInv, SentRecorded, SendingUnrecorded, ClaimExclusive,
            WaitingUnsent, HeldUnsent, NoBlindResend, Holds
<1>1. q \in Recipients /\ ~recorded[q] /\ Holds(t, q)
  BY OwnRow DEF Commit, WorkerSteps
<1>2. /\ accepted[q] \in Nat /\ lost[q] \in Nat
      /\ accepted \in [Recipients -> Nat] /\ lost \in [Recipients -> Nat]
      /\ pc \in [Threads -> Steps] /\ loc \in [Threads -> Locals]
      /\ row \in [Recipients -> Open \union Concluded]
      /\ recorded \in [Recipients -> BOOLEAN]
  BY <1>1 DEF TypeInv, TypeOK
<1>3. SentRecorded'
  BY <1>1, <1>2 DEF Commit, Locals
<1>4. SendingUnrecorded'
  BY <1>1, <1>2 DEF Commit, Locals
<1>5. ClaimExclusive'
  BY <1>1, <1>2 DEF Commit, Locals
<1>6. WaitingUnsent'
  BY <1>1, <1>2 DEF Commit, Locals
<1>7. HeldUnsent'
  BY <1>1, <1>2 DEF Commit, Locals
<1>8. NoBlindResend'
  BY <1>1, <1>2 DEF Commit, Locals
<1>9. QED
  BY <1>3, <1>4, <1>5, <1>6, <1>7, <1>8

\* A failed commit loses the outcome of the one send it follows.
LEMMA CommitFailsKeepsClaims ==
  ASSUME TypeInv, SenderInv, NEW t \in Threads, CommitFails(t)
  PROVE  SenderInv'
<1> DEFINE q == rec[t]
<1> USE DEF SenderInv, SentRecorded, SendingUnrecorded, ClaimExclusive,
            WaitingUnsent, HeldUnsent, NoBlindResend, Holds
<1>1. q \in Recipients /\ ~recorded[q] /\ Holds(t, q)
  BY OwnRow DEF CommitFails, WorkerSteps
<1>2. /\ accepted[q] \in Nat /\ lost[q] \in Nat
      /\ accepted \in [Recipients -> Nat] /\ lost \in [Recipients -> Nat]
      /\ pc \in [Threads -> Steps] /\ loc \in [Threads -> Locals]
      /\ row \in [Recipients -> Open \union Concluded]
      /\ recorded \in [Recipients -> BOOLEAN]
  BY <1>1 DEF TypeInv, TypeOK
<1>3. SentRecorded'
  BY <1>1, <1>2 DEF CommitFails, Handle, Locals
<1>4. SendingUnrecorded'
  BY <1>1, <1>2 DEF CommitFails, Handle, Locals
<1>5. ClaimExclusive'
  BY <1>1, <1>2 DEF CommitFails, Handle, Locals
<1>6. WaitingUnsent'
  BY <1>1, <1>2 DEF CommitFails, Handle, Locals
<1>7. HeldUnsent'
  BY <1>1, <1>2 DEF CommitFails, Handle, Locals
<1>8. NoBlindResend'
  BY <1>1, <1>2 DEF CommitFails, Handle, Locals
<1>9. QED
  BY <1>3, <1>4, <1>5, <1>6, <1>7, <1>8

\* Every step of the program keeps the types and the claims: the five steps
\* of a send that take, send or record a row, and the quiet ones.
THEOREM ClaimsStep ==
  TypeInv /\ SenderInv /\ [Next]_vars => (TypeInv /\ SenderInv)'
<1> SUFFICES ASSUME TypeInv, SenderInv, [Next]_vars PROVE TypeInv' /\ SenderInv'
  OBVIOUS
<1>1. TypeInv'
  BY TypeStep
<1>2. CASE UNCHANGED vars
  <2>1. Quiet
    BY <1>2 DEF vars, Quiet, QuietThread, QuietRow
  <2>2. QED
    BY <1>1, <2>1, QuietKeepsClaims
<1>3. CASE \E t \in Threads : Loud(t)
  BY <1>1, <1>3, ClaimKeepsClaims, SendAcceptedKeepsClaims,
     AnswerLostKeepsClaims, CommitKeepsClaims, CommitFailsKeepsClaims DEF Loud
<1>4. CASE Next /\ ~\E t \in Threads : Loud(t)
  <2>1. Quiet
    BY <1>4, DispatchQuiet, RefreshQuiet, CarryQuiet, AskQuiet, OutsideQuiet,
       SendQuiet
    DEF Next, Step
  <2>2. QED
    BY <1>1, <2>1, QuietKeepsClaims
<1>5. QED
  BY <1>1, <1>2, <1>3, <1>4

\* Nothing is claimed, sent or recorded when the campaign was prepared.
THEOREM ClaimsInit == Init => SenderInv
  BY ConstantsAssumption
  DEF Init, SenderInv, SentRecorded, SendingUnrecorded, ClaimExclusive,
      WaitingUnsent, HeldUnsent, NoBlindResend, Holds, Blank

\* The inductive invariant of the send worker holds in every behaviour.
THEOREM Claims == Spec => [](TypeInv /\ SenderInv)
  BY InitType, ClaimsInit, ClaimsStep, PTL DEF Spec

\* Whatever the interleaving of workers, requests, queue events and faults,
\* at most one thread holds a row between its claim and its result, and a held
\* row is PROCESSING or was cancelled under its holder.
THEOREM ClaimsExclude == Spec => []ClaimExclusive
  BY Claims, PTL DEF SenderInv

\* For any budget of crashes, faults and stalled jobs, a row is sent again only
\* after the program lost the outcome of an accepted send.
THEOREM NoBlindResends == Spec => []NoBlindResend
  BY Claims, PTL DEF SenderInv

\* For any budget of failing calls, crashes, stalls, commands and receipts, the
\* provider is never asked again for a row whose send was recorded: a thread
\* about to send holds an unrecorded row, from the claim to the result.
THEOREM SentRowsStay == Spec => SentIsFinal
<1>1. TypeInv /\ SenderInv /\ [Next]_vars =>
        [\A r \in Recipients : recorded[r] => accepted'[r] = accepted[r]]_vars
  <2> SUFFICES ASSUME TypeInv, SenderInv, Next
               PROVE  \A r \in Recipients : recorded[r] => accepted'[r] = accepted[r]
    OBVIOUS
  <2>1. CASE \E t \in Threads : SendAccepted(t) \/ AnswerLost(t)
    <3>1. PICK t \in Threads : SendAccepted(t) \/ AnswerLost(t)
      BY <2>1
    <3>2. rec[t] \in Recipients /\ ~recorded[rec[t]]
      BY <3>1, OwnRow
      DEF SendAccepted, AnswerLost, WorkerSteps, SenderInv, SendingUnrecorded
    <3>3. \A r \in Recipients : r # rec[t] => accepted'[r] = accepted[r]
      BY <3>1 DEF SendAccepted, AnswerLost, TypeInv, TypeOK
    <3>4. QED
      BY <3>2, <3>3
  <2>2. CASE \E t \in Threads : Claim(t) \/ Commit(t) \/ CommitFails(t)
    BY <2>2 DEF Claim, Commit, CommitFails
  <2>3. CASE ~\E t \in Threads : Loud(t)
    <3>1. Quiet
      BY <2>3, DispatchQuiet, RefreshQuiet, CarryQuiet, AskQuiet,
         OutsideQuiet, SendQuiet
      DEF Next, Step
    <3>2. QED
      BY <3>1 DEF Quiet
  <2>4. QED
    BY <2>1, <2>2, <2>3 DEF Loud
<1>2. QED
  BY <1>1, Claims, PTL DEF Spec, SentIsFinal

\* A cancelled row that nobody holds and that was never recorded is not revived
\* by any step of the program.
THEOREM CancelledRowsStay == Spec => CancelledStays
<1>1. TypeInv /\ SenderInv /\ [Next]_vars =>
        [\A r \in Recipients :
           /\ row[r] = "CANCELLED" /\ ~recorded[r]
           /\ \A t \in Threads : ~Holds(t, r)
           => row'[r] = "CANCELLED"]_vars
  <2> SUFFICES ASSUME TypeInv, SenderInv, [Next]_vars
               PROVE  [\A r \in Recipients :
                         /\ row[r] = "CANCELLED" /\ ~recorded[r]
                         /\ \A t \in Threads : ~Holds(t, r)
                         => row'[r] = "CANCELLED"]_vars
    OBVIOUS
  <2>1. CASE UNCHANGED vars
    BY <2>1
  <2>2. ASSUME NEW t \in Threads, Loud(t), NEW r \in Recipients,
               row[r] = "CANCELLED", \A u \in Threads : ~Holds(u, r), ~recorded[r]
        PROVE  row'[r] = "CANCELLED"
    BY <2>2, OwnRow
    DEF Loud, Claim, Claimable, SendAccepted, AnswerLost, Commit, CommitFails,
        WorkerSteps, SenderInv, SendingUnrecorded, Holds, TypeInv, TypeOK
  <2>3. CASE Next /\ ~\E t \in Threads : Loud(t)
    <3>1. Quiet
      BY <2>3, DispatchQuiet, RefreshQuiet, CarryQuiet, AskQuiet,
         OutsideQuiet, SendQuiet
      DEF Next, Step
    <3>2. QED
      BY <3>1 DEF Quiet, QuietRow
  <2>4. QED
    BY <2>1, <2>2, <2>3
<1>2. QED
  BY <1>1, Claims, PTL DEF Spec, CancelledStays

(***************************************************************************)
(* The dispatch lock.  While locks do not expire under their holders, the   *)
(* thread that leases a campaign is the one its lock names.                 *)
(***************************************************************************)
LockInv ==
  /\ left["expiry"] = 0
  /\ \A t \in Threads, c \in Campaigns : Leases(t, c) => lock[c] = t

\* A step that neither takes nor releases a lock.
Lockless ==
  /\ lock' = lock /\ left'["expiry"] = left["expiry"]
  /\ \A t \in Threads, c \in Campaigns : Leases(t, c)' => Leases(t, c)

\* A step that leaves the locks alone keeps the lock's holder the only dispatcher.
LEMMA LocklessStep == LockInv /\ Lockless => LockInv'
  BY DEF LockInv, Lockless

\* Between taking and deleting its lock a dispatch stays on its campaign.
LEMMA DispatchLockless ==
  ASSUME TypeInv, NEW t \in Threads, Dispatch(t), ~AcquireLock(t), ~DeleteLock(t)
  PROVE  Lockless
<1> USE DEF Lockless, Leases, LeaseSteps, TypeInv, TypeOK, Spend, Events, Locals
<1>1. CASE List(t)
  BY <1>1 DEF List
<1>2. CASE SkipLocked(t)
  BY <1>2 DEF SkipLocked
<1>3. CASE NoMoreCampaigns(t)
  BY <1>3 DEF NoMoreCampaigns
<1>4. CASE FetchCampaign(t)
  BY <1>4 DEF FetchCampaign
<1>5. CASE CheckCompetitor(t)
  BY <1>5 DEF CheckCompetitor
<1>6. CASE CountInFlight(t)
  BY <1>6 DEF CountInFlight
<1>7. CASE PickBatch(t)
  BY <1>7 DEF PickBatch
<1>8. CASE Enqueue(t)
  BY <1>8 DEF Enqueue
<1>9. CASE MarkQueued(t)
  BY <1>9 DEF MarkQueued, NextOfBatch
<1>10. CASE QueueingFails(t)
  BY <1>10 DEF QueueingFails, NextOfBatch
<1>11. CASE Promote(t)
  BY <1>11 DEF Promote
<1>12. CASE CompareToken(t)
  BY <1>12 DEF CompareToken
<1>13. QED
  BY <1>1, <1>2, <1>3, <1>4, <1>5, <1>6, <1>7, <1>8, <1>9, <1>10, <1>11, <1>12 DEF Dispatch

\* A send never enters a dispatch without taking its lock.
LEMMA SendLockless ==
  ASSUME TypeInv, NEW t \in Threads, Send(t)
  PROVE  Lockless
<1> USE DEF Lockless, Leases, LeaseSteps, TypeInv, TypeOK, Spend, Events, Locals
<1>1. CASE ReadRow(t)
  BY <1>1 DEF ReadRow
<1>2. CASE CancelRow(t)
  BY <1>2 DEF CancelRow
<1>3. CASE RestoreRow(t)
  BY <1>3 DEF RestoreRow
<1>4. CASE Claim(t)
  BY <1>4 DEF Claim
<1>5. CASE Recheck(t)
  BY <1>5 DEF Recheck
<1>6. CASE Drop(t)
  BY <1>6 DEF Drop
<1>7. CASE SendAccepted(t)
  BY <1>7 DEF SendAccepted
<1>8. CASE SendRejected(t)
  BY <1>8 DEF SendRejected, Handle
<1>9. CASE AnswerLost(t)
  BY <1>9 DEF AnswerLost, Handle
<1>10. CASE Commit(t)
  BY <1>10 DEF Commit
<1>11. CASE CommitFails(t)
  BY <1>11 DEF CommitFails, Handle
<1>12. CASE RefreshFails(t)
  BY <1>12 DEF RefreshFails, Handle
<1>13. CASE Requeue(t)
  BY <1>13 DEF Requeue
<1>14. CASE Redelay(t)
  BY <1>14 DEF Redelay, LeaveJob
<1>15. CASE Fail(t)
  BY <1>15 DEF Fail
<1>16. CASE PausePhone(t)
  BY <1>16 DEF PausePhone
<1>17. CASE Finish(t)
  BY <1>17 DEF Finish, LeaveJob
<1>18. QED
  BY <1>1, <1>2, <1>3, <1>4, <1>5, <1>6, <1>7, <1>8, <1>9, <1>10, <1>11, <1>12, <1>13, <1>14, <1>15, <1>16, <1>17 DEF Send

\* Nor does a refresh.
LEMMA RefreshLockless ==
  ASSUME TypeInv, NEW t \in Threads, Refresh(t)
  PROVE  Lockless
<1> USE DEF Lockless, Leases, LeaseSteps, TypeInv, TypeOK, Spend, Events, Locals
<1>1. CASE EvaluateAutoPause(t)
  BY <1>1 DEF EvaluateAutoPause
<1>2. CASE PauseRead(t)
  BY <1>2 DEF PauseRead
<1>3. CASE PauseWrite(t)
  BY <1>3 DEF PauseWrite
<1>4. CASE GroupRows(t)
  BY <1>4 DEF GroupRows
<1>5. CASE ReadStatus(t)
  BY <1>5 DEF ReadStatus
<1>6. CASE StoreStatus(t)
  BY <1>6 DEF StoreStatus
<1>7. QED
  BY <1>1, <1>2, <1>3, <1>4, <1>5, <1>6 DEF Refresh

\* Nor does a command.
LEMMA CarryLockless ==
  ASSUME TypeInv, NEW t \in Threads, Carry(t)
  PROVE  Lockless
<1> USE DEF Lockless, Leases, LeaseSteps, TypeInv, TypeOK, Spend, Events, Locals
<1>1. CASE StartWrite(t)
  BY <1>1 DEF StartWrite
<1>2. CASE UserPause(t)
  BY <1>2 DEF UserPause
<1>3. CASE ResumeRows(t)
  BY <1>3 DEF ResumeRows
<1>4. CASE ResumeWrite(t)
  BY <1>4 DEF ResumeWrite
<1>5. CASE CancelTx(t)
  BY <1>5 DEF CancelTx
<1>6. CASE Purge(t)
  BY <1>6 DEF Purge
<1>7. CASE PauseAll(t)
  BY <1>7 DEF PauseAll
<1>8. QED
  BY <1>1, <1>2, <1>3, <1>4, <1>5, <1>6, <1>7 DEF Carry

\* Requests, ticks, deliveries and crashes take no dispatch lock.
LEMMA AskLockless ==
  ASSUME TypeInv, NEW t \in Threads,
         \/ Tick(t) \/ Crash(t)
         \/ \E c \in Campaigns : Ask(t, c)
         \/ \E r \in Recipients : TakeJob(t, r) \/ Receipt(t, r)
  PROVE  Lockless
<1> USE DEF Lockless, Leases, LeaseSteps, TypeInv, TypeOK, Spend, Events, Locals
<1>1. CASE Tick(t) \/ Crash(t)
  BY <1>1 DEF Tick, Crash
<1>2. ASSUME NEW c \in Campaigns, Ask(t, c)
      PROVE  Lockless
  <2>1. CASE DisablePhone(t, c)
    BY <2>1 DEF DisablePhone
  <2>2. CASE ~DisablePhone(t, c)
    <3>1. PICK p \in {"startWrite", "userPause", "resumeRows", "cancelTx", "group"} :
             Begin(t, c, p) /\ Spend("command")
      BY <1>2, <2>2
      DEF Ask, AskStart, AskPause, AskResume, AskCancel, AskProgress
    <3>2. QED
      BY <3>1 DEF Begin
  <2>3. QED
    BY <2>1, <2>2
<1>3. ASSUME NEW r \in Recipients, TakeJob(t, r) \/ Receipt(t, r)
      PROVE  Lockless
  BY <1>3 DEF TakeJob, Receipt
<1>4. QED
  BY <1>1, <1>2, <1>3

\* The queue, the phone switch and opt-outs take no dispatch lock.
LEMMA OutsideLockless ==
  ASSUME TypeInv,
         \/ \E r \in Recipients : JobDue(r) \/ JobStalls(r)
         \/ \E p \in Phones : EnablePhone(p)
         \/ \E customer \in Customers : OptOut(customer)
  PROVE  Lockless
  BY DEF Lockless, Leases, TypeInv, TypeOK, Spend, Events, JobDue, JobStalls,
     EnablePhone, OptOut

\* Every step keeps a leasing thread the holder of its campaign's lock.
LEMMA LockStep ==
  ASSUME TypeInv, LockInv, [Next]_vars
  PROVE  LockInv'
<1>1. CASE UNCHANGED vars
  BY <1>1 DEF vars, LockInv, Leases
<1>2. ASSUME NEW t \in Threads, AcquireLock(t)
      PROVE  LockInv'
  BY <1>2, ConstantsAssumption
  DEF AcquireLock, LockInv, Leases, LeaseSteps, TypeInv, TypeOK, Locals
<1>3. ASSUME NEW t \in Threads, DeleteLock(t)
      PROVE  LockInv'
  BY <1>3 DEF DeleteLock, LockInv, Leases, LeaseSteps, TypeInv, TypeOK
<1>4. ASSUME NEW c \in Campaigns, LockExpires(c)
      PROVE  LockInv'
  BY <1>4 DEF LockExpires, LockInv, Leases, TypeInv, TypeOK, Spend
<1>5. CASE /\ Next
           /\ \A t \in Threads : ~AcquireLock(t) /\ ~DeleteLock(t) /\ ~Throws(t)
           /\ \A c \in Campaigns : ~LockExpires(c)
  <2>1. Lockless
    BY <1>5, DispatchLockless, SendLockless, RefreshLockless, CarryLockless,
       AskLockless, OutsideLockless
    DEF Next, Step
  <2>2. QED
    BY <2>1, LocklessStep
<1>6. ASSUME NEW t \in Threads, Throws(t)
      PROVE  LockInv'
  BY <1>6
  DEF Throws, LeaveJob, LockInv, Leases, LeaseSteps, TypeInv, TypeOK, Spend,
      Events
<1>7. QED
  BY <1>1, <1>2, <1>3, <1>4, <1>5, <1>6

\* While no dispatch outlives its lock, at most one thread is dispatching a
\* campaign, whatever crashes, faults and stalls happen: a dead holder's lock
\* expires, and the release compares the token before it deletes.
THEOREM OneDispatches == Budget["expiry"] = 0 /\ Spec => []OneDispatcher
<1>1. Budget["expiry"] = 0 /\ Init => LockInv
  BY DEF Init, LockInv, Leases, LeaseSteps
<1>2. TypeInv /\ LockInv /\ [Next]_vars => LockInv'
  BY LockStep
<1>3. LockInv => OneDispatcher
  BY DEF LockInv, OneDispatcher
<1>4. QED
  BY <1>1, <1>2, <1>3, InitType, TypeStep, PTL DEF Spec

(***************************************************************************)
(* Finality of a send.  While no call of the program fails, the catch block *)
(* is reached only before the commit, so that no thread about to retry or   *)
(* fail a row finds it recorded.                                           *)
(***************************************************************************)
Sent == {"SENT", "DELIVERED"}

FinalInv ==
  /\ left["fault"] = 0
  /\ \A t \in Threads : pc[t] \in {"requeue", "fail"} => ~recorded[rec[t]]
  /\ \A r \in Recipients : row[r] \in Sent => recorded[r]

\* A step that records nothing, leads no thread that holds a recorded row to a
\* retry, and reopens no row that was sent.
Sealed ==
  /\ UNCHANGED recorded /\ left'["fault"] = left["fault"]
  /\ \A t \in Threads :
       pc'[t] \in {"requeue", "fail"} => ~recorded[rec'[t]]
  /\ \A r \in Recipients :
       /\ row'[r] \in Sent => row[r] \in Sent \/ recorded[r]
       /\ row[r] \in Sent => row'[r] \notin Open

\* A sealed step keeps the threads about to retry away from recorded rows.
LEMMA SealedStep == FinalInv /\ Sealed => FinalInv'
  BY DEF FinalInv, Sealed

\* The dispatcher marks PENDING rows only.
LEMMA DispatchSealed ==
  ASSUME TypeInv, SenderInv, FinalInv, NEW t \in Threads, Dispatch(t)
  PROVE  Sealed
<1> USE DEF Sealed, Sent, Open, FinalInv, TypeInv, TypeOK, Spend, Events
<1>1. CASE List(t)
  BY <1>1 DEF List
<1>2. CASE AcquireLock(t)
  BY <1>2 DEF AcquireLock
<1>3. CASE SkipLocked(t)
  BY <1>3 DEF SkipLocked
<1>4. CASE NoMoreCampaigns(t)
  BY <1>4 DEF NoMoreCampaigns
<1>5. CASE FetchCampaign(t)
  BY <1>5 DEF FetchCampaign
<1>6. CASE CheckCompetitor(t)
  BY <1>6 DEF CheckCompetitor
<1>7. CASE CountInFlight(t)
  BY <1>7 DEF CountInFlight
<1>8. CASE PickBatch(t)
  BY <1>8 DEF PickBatch
<1>9. CASE Enqueue(t)
  BY <1>9 DEF Enqueue
<1>10. CASE MarkQueued(t)
  BY <1>10 DEF MarkQueued, NextOfBatch
<1>11. CASE QueueingFails(t)
  BY <1>11 DEF QueueingFails, NextOfBatch
<1>12. CASE Promote(t)
  BY <1>12 DEF Promote
<1>13. CASE CompareToken(t)
  BY <1>13 DEF CompareToken
<1>14. CASE DeleteLock(t)
  BY <1>14 DEF DeleteLock
<1>15. QED
  BY <1>1, <1>2, <1>3, <1>4, <1>5, <1>6, <1>7, <1>8, <1>9, <1>10, <1>11, <1>12, <1>13, <1>14 DEF Dispatch

\* A send reopens only rows that were never recorded.
LEMMA SendSealed ==
  ASSUME TypeInv, SenderInv, FinalInv, NEW t \in Threads, Send(t), ~Commit(t)
  PROVE  Sealed
<1> USE DEF Sealed, Sent, Open, FinalInv, TypeInv, TypeOK, Spend, Events
<1>1. CASE ReadRow(t)
  BY <1>1 DEF ReadRow
<1>2. CASE CancelRow(t)
  BY <1>2 DEF CancelRow
<1>3. CASE RestoreRow(t)
  BY <1>3 DEF RestoreRow
<1>4. CASE Claim(t)
  BY <1>4 DEF Claim, Claimable
<1>5. CASE Recheck(t)
  BY <1>5 DEF Recheck
<1>6. CASE Drop(t)
  BY <1>6, OwnRow DEF Drop, SenderInv, SendingUnrecorded, WorkerSteps
<1>7. CASE SendAccepted(t)
  BY <1>7 DEF SendAccepted
<1>8. CASE SendRejected(t)
  BY <1>8 DEF SendRejected, Handle, SenderInv, SendingUnrecorded
<1>9. CASE AnswerLost(t)
  BY <1>9 DEF AnswerLost, Handle, SenderInv, SendingUnrecorded
<1>10. CASE CommitFails(t)
  BY <1>10 DEF CommitFails, Handle, SenderInv, SendingUnrecorded
<1>11. CASE RefreshFails(t)
  BY <1>11 DEF RefreshFails, Handle, SenderInv, SendingUnrecorded
<1>12. CASE Requeue(t)
  BY <1>12, OwnRow DEF Requeue, WorkerSteps
<1>13. CASE Redelay(t)
  BY <1>13 DEF Redelay, LeaveJob
<1>14. CASE Fail(t)
  BY <1>14, OwnRow DEF Fail, WorkerSteps
<1>15. CASE PausePhone(t)
  BY <1>15 DEF PausePhone
<1>16. CASE Finish(t)
  BY <1>16 DEF Finish, LeaveJob
<1>17. QED
  BY <1>1, <1>2, <1>3, <1>4, <1>5, <1>6, <1>7, <1>8, <1>9, <1>10, <1>11, <1>12, <1>13, <1>14, <1>15, <1>16 DEF Send

\* A refresh and an automatic pause touch no row.
LEMMA RefreshSealed ==
  ASSUME TypeInv, SenderInv, FinalInv, NEW t \in Threads, Refresh(t)
  PROVE  Sealed
<1> USE DEF Sealed, Sent, Open, FinalInv, TypeInv, TypeOK, Spend, Events
<1>1. CASE EvaluateAutoPause(t)
  BY <1>1 DEF EvaluateAutoPause
<1>2. CASE PauseRead(t)
  BY <1>2 DEF PauseRead
<1>3. CASE PauseWrite(t)
  BY <1>3 DEF PauseWrite
<1>4. CASE GroupRows(t)
  BY <1>4 DEF GroupRows
<1>5. CASE ReadStatus(t)
  BY <1>5 DEF ReadStatus
<1>6. CASE StoreStatus(t)
  BY <1>6 DEF StoreStatus
<1>7. QED
  BY <1>1, <1>2, <1>3, <1>4, <1>5, <1>6 DEF Refresh

\* A command touches no row that was sent.
LEMMA CarrySealed ==
  ASSUME TypeInv, SenderInv, FinalInv, NEW t \in Threads, Carry(t)
  PROVE  Sealed
<1> USE DEF Sealed, Sent, Open, FinalInv, TypeInv, TypeOK, Spend, Events
<1>1. CASE StartWrite(t)
  BY <1>1 DEF StartWrite
<1>2. CASE UserPause(t)
  BY <1>2 DEF UserPause
<1>3. CASE ResumeRows(t)
  BY <1>3 DEF ResumeRows
<1>4. CASE ResumeWrite(t)
  BY <1>4 DEF ResumeWrite
<1>5. CASE CancelTx(t)
  BY <1>5 DEF CancelTx
<1>6. CASE Purge(t)
  BY <1>6 DEF Purge
<1>7. CASE PauseAll(t)
  BY <1>7 DEF PauseAll
<1>8. QED
  BY <1>1, <1>2, <1>3, <1>4, <1>5, <1>6, <1>7 DEF Carry

\* A receipt moves a recorded row to DELIVERED or FAILED.
LEMMA AskSealed ==
  ASSUME TypeInv, SenderInv, FinalInv, NEW t \in Threads,
         \/ Tick(t) \/ Crash(t) \/ Throws(t)
         \/ \E c \in Campaigns : Ask(t, c)
         \/ \E r \in Recipients : TakeJob(t, r) \/ Receipt(t, r)
  PROVE  Sealed
<1> USE DEF Sealed, Sent, Open, FinalInv, TypeInv, TypeOK, Spend, Events
<1>1. CASE Tick(t) \/ Crash(t) \/ Throws(t)
  BY <1>1 DEF Tick, Crash, Throws
<1>2. ASSUME NEW c \in Campaigns, Ask(t, c)
      PROVE  Sealed
  <2>1. CASE DisablePhone(t, c)
    BY <2>1 DEF DisablePhone
  <2>2. CASE ~DisablePhone(t, c)
    <3>1. PICK p \in {"startWrite", "userPause", "resumeRows", "cancelTx", "group"} :
             Begin(t, c, p) /\ Spend("command")
      BY <1>2, <2>2
      DEF Ask, AskStart, AskPause, AskResume, AskCancel, AskProgress
    <3>2. QED
      BY <3>1 DEF Begin
  <2>3. QED
    BY <2>1, <2>2
<1>3. ASSUME NEW r \in Recipients, TakeJob(t, r) \/ Receipt(t, r)
      PROVE  Sealed
  BY <1>3 DEF TakeJob, Receipt
<1>4. QED
  BY <1>1, <1>2, <1>3

\* The queue, the lock's expiry, the phone switch and opt-outs are sealed.
LEMMA OutsideSealed ==
  ASSUME TypeInv, SenderInv, FinalInv,
         \/ \E r \in Recipients : JobDue(r) \/ JobStalls(r)
         \/ \E c \in Campaigns : LockExpires(c)
         \/ \E p \in Phones : EnablePhone(p)
         \/ \E customer \in Customers : OptOut(customer)
  PROVE  Sealed
  BY DEF Sealed, Sent, Open, FinalInv, TypeInv, TypeOK, Spend, Events, JobDue,
     JobStalls, LockExpires, EnablePhone, OptOut

\* The commit is made by the one thread that holds the row.
LEMMA CommitFinal ==
  ASSUME TypeInv, SenderInv, FinalInv, NEW t \in Threads, Commit(t)
  PROVE  /\ FinalInv'
         /\ \A r \in Recipients : row[r] \in Sent => row'[r] \notin Open
<1>1. rec[t] \in Recipients /\ Holds(t, rec[t])
  BY OwnRow DEF Commit, WorkerSteps, SenderInv, SendingUnrecorded, Holds
<1>2. \A u \in Threads \ {t} :
        pc[u] \in {"requeue", "fail"} => rec[u] # rec[t]
  BY <1>1 DEF SenderInv, ClaimExclusive, FinalInv, Holds
<1>3. QED
  BY <1>1, <1>2 DEF Commit, FinalInv, Sent, Open, TypeInv, TypeOK

\* Every step keeps FinalInv, and reopens no row that was sent.
LEMMA FinalStep ==
  ASSUME TypeInv, SenderInv, FinalInv, [Next]_vars
  PROVE  /\ FinalInv'
         /\ \A r \in Recipients : row[r] \in Sent => row'[r] \notin Open
<1>1. CASE UNCHANGED vars
  BY <1>1 DEF vars, FinalInv, Sent, Open
<1>2. CASE \E t \in Threads : Commit(t)
  BY <1>2, CommitFinal
<1>3. CASE Next /\ ~\E t \in Threads : Commit(t)
  <2>1. Sealed
    BY <1>3, DispatchSealed, SendSealed, RefreshSealed, CarrySealed, AskSealed,
       OutsideSealed
    DEF Next, Step
  <2>2. QED
    BY <2>1, SealedStep DEF Sealed
<1>4. QED
  BY <1>1, <1>2, <1>3

(***************************************************************************)
(* The bound on the rows in flight.  A row goes in flight by the mark of a  *)
(* dispatch that counted none before; a retry finds its row still there,    *)
(* since while no job stalls under its worker a job has one run, and while  *)
(* no call fails that run's row is PROCESSING.                             *)
(***************************************************************************)

\* A finite set of numbers has a least one: what orderBy createdAt returns first.
LEMMA OldestIsFirst ==
  ASSUME NEW S \in SUBSET Nat, S # {}
  PROVE  Oldest(S) \in S
<1>1. \E x \in S : \A y \in S : ~(<<y, x>> \in OpToRel(<, Nat))
  BY NatLessThanWellFounded, WFMin
<1>2. PICK x \in S : \A y \in S : ~(<<y, x>> \in OpToRel(<, Nat))
  BY <1>1
<1>3. ASSUME NEW y \in S PROVE x <= y
  <2>1. x \in Nat /\ y \in Nat
    OBVIOUS
  <2>2. ~(y < x)
    BY <1>2, <2>1 DEF OpToRel
  <2>3. QED
    BY <2>1, <2>2
<1>4. QED
  BY <1>3 DEF Oldest

\* The rows of S that are older than r.
Older(S, r) == {q \in S : q < r}

\* `take: n` returns n rows at most: a row has fewer older ones than any younger row.
LEMMA FirstAreFew ==
  ASSUME NEW S \in SUBSET Nat, IsFiniteSet(S), NEW n \in Nat
  PROVE  FirstOf(S, n) \subseteq S /\ Cardinality(FirstOf(S, n)) <= n
<1> DEFINE F == FirstOf(S, n)
           f == [r \in F |-> Cardinality(Older(S, r))]
<1>1. \A r \in S : r \in Nat
  OBVIOUS
<1>2. ASSUME NEW r \in S
      PROVE  /\ Older(S, r) \in SUBSET S
             /\ IsFiniteSet(Older(S, r)) /\ Cardinality(Older(S, r)) \in Nat
  <2>1. Older(S, r) \in SUBSET S
    BY DEF Older
  <2>2. QED
    BY <2>1, FS_Subset, FS_CardinalityType
<1>3. ASSUME NEW p \in S, NEW r \in S, p < r
      PROVE  Cardinality(Older(S, p)) < Cardinality(Older(S, r))
  <2>1. p \in Nat /\ r \in Nat
    BY <1>1
  <2>2. Older(S, p) \in SUBSET Older(S, r) /\ Older(S, p) # Older(S, r)
    <3>1. ASSUME NEW q \in S, q < p PROVE q < r
      BY <1>1, <1>3, <2>1, <3>1
    <3>2. p \in Older(S, r) /\ p \notin Older(S, p)
      BY <1>3, <2>1 DEF Older
    <3>3. QED
      BY <3>1, <3>2 DEF Older
  <2>3. /\ Cardinality(Older(S, p)) <= Cardinality(Older(S, r))
        /\ Cardinality(Older(S, p)) # Cardinality(Older(S, r))
    BY <1>2, <2>2, FS_Subset
  <2>4. QED
    BY <1>2, <2>3
<1>4. F \subseteq S
  BY DEF FirstOf
<1>5. \A r \in F : Cardinality(Older(S, r)) \in 0..(n - 1)
  BY <1>2, <1>4 DEF FirstOf, Older
<1>6. ASSUME NEW p \in F, NEW r \in F, p # r
      PROVE  Cardinality(Older(S, p)) # Cardinality(Older(S, r))
  <2>1. p \in S /\ r \in S /\ p \in Nat /\ r \in Nat
    BY <1>1, <1>4
  <2>2. p < r \/ r < p
    BY <1>6, <2>1
  <2>3. Cardinality(Older(S, p)) \in Nat /\ Cardinality(Older(S, r)) \in Nat
    BY <1>2, <2>1
  <2>4. QED
    BY <1>3, <2>1, <2>2, <2>3
<1>7. f \in Injection(F, 0..(n - 1))
  BY <1>5, <1>6 DEF Injection, IsInjective
<1>8. IsFiniteSet(0..(n - 1)) /\ Cardinality(0..(n - 1)) = n
  BY FS_Interval
<1>9. QED
  BY <1>4, <1>7, <1>8, FS_Injection

InFlightStatus == {"QUEUED", "PROCESSING"}
Leasing == {"enqueue", "mark"}

\* A job has one run while no job stalls under its worker.
OneRun ==
  /\ left["stall"] = 0
  /\ \A t \in Threads : rec[t] # NoRow => owner[rec[t]] = t /\ job[rec[t]] = "active"

\* The row of a sender is PROCESSING.
InHand == \A t \in Threads : pc[t] \in SenderSteps => row[rec[t]] = "PROCESSING"

\* What a dispatch has yet to mark, with what is in flight, is one batch.
Leased(t) ==
  LET l == loc[t]
  IN /\ pc[t] = "pick" => InFlight(l.camp) = {}
     /\ pc[t] \in Leasing =>
          /\ l.batch # {} /\ l.batch \subseteq RowsOf(l.camp)
          /\ Cardinality(InFlight(l.camp) \union l.batch) <= BatchSize

BatchInv == OneRun /\ InHand /\ BatchBound /\ \A t \in Threads : Leased(t)

\* What is used of the other invariants: locks do not expire under their holders,
\* and no call fails.
Calm == TypeInv /\ SenderInv /\ LockInv /\ FinalInv

\* A step after which no thread has a new job, no running job has moved, no row is
\* newly in flight and no thread has a new batch.
Tame ==
  /\ left'["stall"] = left["stall"]
  /\ \A t \in Threads : rec'[t] # NoRow =>
       /\ rec'[t] = rec[t]
       /\ job[rec[t]] = "active" /\ owner[rec[t]] = t =>
            job'[rec[t]] = "active" /\ owner'[rec[t]] = t
  /\ InHand'
  /\ \A r \in Recipients : row'[r] \in InFlightStatus => row[r] \in InFlightStatus
  /\ \A t \in Threads : pc'[t] \in Leasing \union {"pick"} =>
       /\ loc'[t] = loc[t]
       /\ pc'[t] = "pick" => pc[t] = "pick"
       /\ pc'[t] \in Leasing => pc[t] \in Leasing

\* The rows in flight are among finitely many.
LEMMA FlightsFinite ==
  /\ \A c \in Campaigns : InFlight(c) \in SUBSET RowsOf(c)
  /\ \A c \in Campaigns : RowsOf(c) \in SUBSET Recipients /\ IsFiniteSet(RowsOf(c))
<1>1. \A c \in Campaigns : RowsOf(c) \in SUBSET Recipients
  BY DEF RowsOf
<1>2. QED
  BY <1>1, ConstantsAssumption, FS_Subset DEF ConstantsAssumption, InFlight

\* A dispatcher is on a campaign.
LEMMA OnItsCampaign ==
  ASSUME TypeInv, NEW t \in Threads, pc[t] \in Leasing \union {"count", "pick"}
  PROVE  loc[t].camp \in Campaigns /\ loc[t] \in Locals
  BY DEF TypeInv, ThreadsOK, ThreadOK, OnCampaign, LeaseSteps, Leasing

\* What leaves fewer rows in flight and a smaller batch leaves the bound.
LEMMA Shrunk ==
  ASSUME NEW S, NEW T, IsFiniteSet(S), T \subseteq S, Cardinality(S) <= BatchSize
  PROVE  Cardinality(T) <= BatchSize
<1>1. /\ Cardinality(T) <= Cardinality(S) /\ Cardinality(T) \in Nat
      /\ Cardinality(S) \in Nat /\ BatchSize \in Nat
  BY ConstantsAssumption, FS_Subset, FS_CardinalityType DEF ConstantsAssumption
<1>2. QED
  BY <1>1

\* A tame step keeps the bound.
LEMMA TameStep ==
  ASSUME TypeInv, TypeInv', BatchInv, Tame
  PROVE  BatchInv'
<1>1. OneRun' /\ InHand'
  BY DEF BatchInv, OneRun, Tame
<1>2. \A c \in Campaigns : InFlight(c)' \subseteq InFlight(c) /\ RowsOf(c)' = RowsOf(c)
  BY DEF Tame, InFlight, RowsOf, InFlightStatus
<1>3. BatchBound'
  <2> SUFFICES ASSUME NEW c \in Campaigns PROVE Cardinality(InFlight(c)') <= BatchSize
    BY DEF BatchBound
  <2>1. IsFiniteSet(InFlight(c)) /\ Cardinality(InFlight(c)) <= BatchSize
    BY FlightsFinite, FS_Subset DEF BatchInv, BatchBound
  <2>2. QED
    BY <1>2, <2>1, Shrunk
<1>4. ASSUME NEW t \in Threads PROVE Leased(t)'
  <2>1. CASE pc'[t] = "pick"
    <3>1. pc[t] = "pick" /\ loc'[t] = loc[t] /\ loc[t].camp \in Campaigns
      BY <2>1, OnItsCampaign DEF Tame
    <3>2. InFlight(loc[t].camp) = {}
      BY <3>1 DEF BatchInv, Leased
    <3>3. \A c \in Campaigns : c = loc[t].camp => InFlight(c)' = {}
      BY <1>2, <3>2
    <3>4. QED
      BY <2>1, <3>1, <3>3 DEF Leased, Leasing
  <2>2. CASE pc'[t] \in Leasing
    <3>1. pc[t] \in Leasing /\ loc'[t] = loc[t] /\ loc[t].camp \in Campaigns
      BY <2>2, OnItsCampaign DEF Tame
    <3> SUFFICES ASSUME NEW c \in Campaigns, NEW B, c = loc[t].camp, B = loc[t].batch
                 PROVE  /\ B # {} /\ B \subseteq RowsOf(c)
                        /\ Cardinality(InFlight(c)' \union B) <= BatchSize
      BY <1>2, <2>2, <3>1 DEF Leased, Leasing
    <3>2. /\ B # {} /\ B \subseteq RowsOf(c)
          /\ Cardinality(InFlight(c) \union B) <= BatchSize
      BY <3>1 DEF BatchInv, Leased
    <3>3. InFlight(c) \union B \in SUBSET RowsOf(c) /\ IsFiniteSet(InFlight(c) \union B)
      BY <3>2, FlightsFinite, FS_Subset
    <3>4. (InFlight(c)' \union B) \subseteq (InFlight(c) \union B)
      BY <1>2
    <3>5. QED
      BY <3>2, <3>3, <3>4, Shrunk
  <2>3. QED
    BY <2>1, <2>2 DEF Leased
<1>5. QED
  BY <1>1, <1>3, <1>4 DEF BatchInv

\* Two threads never run the same job, and a sender's row is unrecorded and PROCESSING.
LEMMA AloneInHand ==
  ASSUME Calm, BatchInv, NEW t \in Threads
  PROVE  /\ \A u \in Threads \ {t} : rec[t] # NoRow => rec[u] # rec[t]
         /\ pc[t] \in SenderSteps =>
              rec[t] # NoRow /\ rec[t] \in Recipients /\ row[rec[t]] = "PROCESSING"
              /\ ~recorded[rec[t]]
<1>1. \A u \in Threads \ {t} : rec[t] # NoRow => rec[u] # rec[t]
  BY DEF BatchInv, OneRun
<1>2. ASSUME pc[t] \in SenderSteps
      PROVE  /\ rec[t] # NoRow /\ rec[t] \in Recipients /\ row[rec[t]] = "PROCESSING"
             /\ ~recorded[rec[t]]
  <2>1. rec[t] \in Recipients
    BY <1>2, OwnRow DEF Calm, SenderSteps, WorkerSteps
  <2>2. rec[t] # NoRow
    BY <2>1, ConstantsAssumption DEF ConstantsAssumption, NoRow
  <2>3. ~recorded[rec[t]]
    BY <1>2 DEF Calm, SenderInv, SendingUnrecorded, FinalInv, SenderSteps
  <2>4. QED
    BY <1>2, <2>1, <2>2, <2>3 DEF BatchInv, InHand
<1>3. QED
  BY <1>1, <1>2

\* Only three steps of a dispatch are about the batch.
LEMMA DispatchTame ==
  ASSUME Calm, BatchInv, NEW t \in Threads, Dispatch(t),
         ~CountInFlight(t), ~PickBatch(t), ~MarkQueued(t)
  PROVE  Tame
<1> USE DEF Tame, InHand, Leasing, SenderSteps, InFlightStatus, TypeInv, TypeOK, Calm,
            Spend, Events, Locals
<1>0. InHand
  BY DEF BatchInv
<1>1. CASE List(t)
  BY <1>0, <1>1 DEF List
<1>2. CASE AcquireLock(t)
  BY <1>0, <1>2 DEF AcquireLock
<1>3. CASE SkipLocked(t)
  BY <1>0, <1>3 DEF SkipLocked
<1>4. CASE NoMoreCampaigns(t)
  BY <1>0, <1>4 DEF NoMoreCampaigns
<1>5. CASE FetchCampaign(t)
  BY <1>0, <1>5 DEF FetchCampaign
<1>6. CASE CheckCompetitor(t)
  BY <1>0, <1>6 DEF CheckCompetitor
<1>7. CASE Enqueue(t)
  BY <1>0, <1>7 DEF Enqueue
<1>8. CASE QueueingFails(t)
  BY <1>8 DEF QueueingFails, FinalInv
<1>9. CASE Promote(t)
  BY <1>0, <1>9 DEF Promote
<1>10. CASE CompareToken(t)
  BY <1>0, <1>10 DEF CompareToken
<1>11. CASE DeleteLock(t)
  BY <1>0, <1>11 DEF DeleteLock
<1>12. QED
  BY <1>1, <1>2, <1>3, <1>4, <1>5, <1>6, <1>7, <1>8, <1>9, <1>10, <1>11 DEF Dispatch

\* A send brings no row in flight that was not: its retry writes a PROCESSING row.
LEMMA SendTame ==
  ASSUME Calm, BatchInv, NEW t \in Threads, Send(t)
  PROVE  Tame
<1> USE DEF Tame, InHand, Leasing, SenderSteps, InFlightStatus, TypeInv, TypeOK, Calm,
            Spend, Events, Locals
<1>0. /\ InHand
      /\ \A u \in Threads \ {t} : rec[t] # NoRow => rec[u] # rec[t]
      /\ pc[t] \in SenderSteps => rec[t] \in Recipients /\ row[rec[t]] = "PROCESSING"
      /\ pc[t] \in WorkerSteps => rec[t] \in Recipients /\ rec[t] # NoRow
      /\ \A u \in Threads : pc[u] \in SenderSteps => row[rec[u]] = "PROCESSING"
  <2>1. pc[t] \in WorkerSteps => rec[t] \in Recipients /\ rec[t] # NoRow
    BY OwnRow, ConstantsAssumption DEF ConstantsAssumption, NoRow
  <2>2. QED
    BY <2>1, AloneInHand DEF BatchInv
<1>1. CASE ReadRow(t)
  BY <1>0, <1>1 DEF ReadRow
<1>2. CASE CancelRow(t)
  BY <1>0, <1>2 DEF CancelRow, WorkerSteps
<1>3. CASE RestoreRow(t)
  BY <1>0, <1>3 DEF RestoreRow, WorkerSteps
<1>4. CASE Claim(t)
  <2> DEFINE r == rec[t]
  <2>1. r \in Recipients /\ pc[t] = "claim" /\ UNCHANGED <<job, owner, rec, loc, left>>
    BY <1>0, <1>4 DEF Claim, WorkerSteps
  <2>2. CASE ~Claimable(r)
    <3>1. row' = row /\ pc' = [pc EXCEPT ![t] = "list"]
      BY <1>4, <2>2 DEF Claim
    <3>2. QED
      BY <1>0, <2>1, <3>1
  <2>3. CASE Claimable(r)
    <3>1. /\ row' = [row EXCEPT ![r] = "PROCESSING"] /\ row[r] = "QUEUED"
          /\ pc' = [pc EXCEPT ![t] = "recheck"]
      BY <1>4, <2>3 DEF Claim, Claimable
    <3>2. InHand'
      BY <1>0, <2>1, <3>1
    <3>3. QED
      BY <2>1, <3>1, <3>2
  <2>4. QED
    BY <2>2, <2>3
<1>5. CASE Recheck(t)
  BY <1>0, <1>5 DEF Recheck
<1>6. CASE Drop(t)
  BY <1>0, <1>6 DEF Drop, WorkerSteps
<1>7. CASE SendAccepted(t)
  BY <1>0, <1>7 DEF SendAccepted
<1>8. CASE SendRejected(t)
  BY <1>0, <1>8 DEF SendRejected, Handle
<1>9. CASE AnswerLost(t)
  BY <1>0, <1>9 DEF AnswerLost, Handle
<1>10. CASE Commit(t)
  BY <1>0, <1>10 DEF Commit, WorkerSteps
<1>11. CASE CommitFails(t) \/ RefreshFails(t)
  BY <1>11 DEF CommitFails, RefreshFails, FinalInv
<1>12. CASE Requeue(t)
  BY <1>0, <1>12 DEF Requeue, WorkerSteps
<1>13. CASE Redelay(t)
  BY <1>0, <1>13 DEF Redelay, LeaveJob
<1>14. CASE Fail(t)
  BY <1>0, <1>14 DEF Fail, WorkerSteps
<1>15. CASE PausePhone(t)
  BY <1>0, <1>15 DEF PausePhone
<1>16. CASE Finish(t)
  BY <1>0, <1>16 DEF Finish, LeaveJob
<1>17. QED
  BY <1>1, <1>2, <1>3, <1>4, <1>5, <1>6, <1>7, <1>8, <1>9, <1>10, <1>11, <1>12, <1>13, <1>14, <1>15, <1>16 DEF Send

\* A refresh changes no row and no job.
LEMMA RefreshTame ==
  ASSUME Calm, BatchInv, NEW t \in Threads, Refresh(t)
  PROVE  Tame
<1> USE DEF Tame, InHand, Leasing, SenderSteps, InFlightStatus, TypeInv, TypeOK, Calm,
            Spend, Events, Locals
<1>0. InHand
  BY DEF BatchInv
<1>1. CASE EvaluateAutoPause(t)
  BY <1>0, <1>1 DEF EvaluateAutoPause
<1>2. CASE PauseRead(t)
  BY <1>0, <1>2 DEF PauseRead
<1>3. CASE PauseWrite(t)
  BY <1>0, <1>3 DEF PauseWrite
<1>4. CASE GroupRows(t)
  BY <1>0, <1>4 DEF GroupRows
<1>5. CASE ReadStatus(t)
  BY <1>0, <1>5 DEF ReadStatus
<1>6. CASE StoreStatus(t)
  BY <1>0, <1>6 DEF StoreStatus
<1>7. QED
  BY <1>1, <1>2, <1>3, <1>4, <1>5, <1>6 DEF Refresh

\* A command takes rows out of flight and jobs out of the queue that nobody runs.
LEMMA CarryTame ==
  ASSUME Calm, BatchInv, NEW t \in Threads, Carry(t)
  PROVE  Tame
<1> USE DEF Tame, InHand, Leasing, SenderSteps, InFlightStatus, TypeInv, TypeOK, Calm,
            Spend, Events, Locals
<1>0. /\ InHand
      /\ \A u \in Threads : pc[u] \in SenderSteps => rec[u] \in Recipients
  BY AloneInHand DEF BatchInv
<1>1. CASE StartWrite(t)
  BY <1>0, <1>1 DEF StartWrite
<1>2. CASE UserPause(t)
  BY <1>0, <1>2 DEF UserPause
<1>3. CASE ResumeRows(t)
  BY <1>0, <1>3 DEF ResumeRows
<1>4. CASE ResumeWrite(t)
  BY <1>0, <1>4 DEF ResumeWrite
<1>5. CASE CancelTx(t)
  BY <1>0, <1>5 DEF CancelTx
<1>6. CASE Purge(t)
  <2>1. \A r \in Recipients : job[r] = "active" => job'[r] = "active"
    BY <1>6 DEF Purge
  <2>2. \A u \in Threads : rec[u] # NoRow => rec[u] \in Recipients
    OBVIOUS
  <2>3. QED
    BY <1>0, <1>6, <2>1, <2>2 DEF Purge
<1>7. CASE PauseAll(t)
  BY <1>0, <1>7 DEF PauseAll
<1>8. QED
  BY <1>1, <1>2, <1>3, <1>4, <1>5, <1>6, <1>7 DEF Carry

\* A request begins without a row; a receipt is about a row nobody holds, and leaves
\* it out of flight.
LEMMA AskTame ==
  ASSUME Calm, BatchInv, NEW t \in Threads,
         \/ Tick(t) \/ Crash(t) \/ Throws(t)
         \/ \E c \in Campaigns : Ask(t, c)
         \/ \E r \in Recipients : Receipt(t, r)
  PROVE  Tame
<1> USE DEF Tame, InHand, Leasing, SenderSteps, InFlightStatus, TypeInv, TypeOK, Calm,
            Spend, Events, Locals
<1>0. /\ InHand
      /\ \A u \in Threads : pc[u] \in SenderSteps => ~recorded[rec[u]]
  BY AloneInHand DEF BatchInv
<1>1. CASE Tick(t) \/ Crash(t)
  BY <1>0, <1>1 DEF Tick, Crash
<1>2. CASE Throws(t)
  BY <1>2 DEF Throws, FinalInv
<1>3. ASSUME NEW c \in Campaigns, Ask(t, c)
      PROVE  Tame
  <2>1. CASE DisablePhone(t, c)
    BY <1>0, <2>1 DEF DisablePhone
  <2>2. CASE ~DisablePhone(t, c)
    <3>1. PICK p \in {"startWrite", "userPause", "resumeRows", "cancelTx", "group"} :
             Begin(t, c, p) /\ Spend("command")
      BY <1>3, <2>2
      DEF Ask, AskStart, AskPause, AskResume, AskCancel, AskProgress
    <3>2. QED
      BY <1>0, <3>1 DEF Begin
  <2>3. QED
    BY <2>1, <2>2
<1>4. ASSUME NEW r \in Recipients, Receipt(t, r)
      PROVE  Tame
  BY <1>0, <1>4 DEF Receipt
<1>5. QED
  BY <1>1, <1>2, <1>3, <1>4

\* Nor do Redis, the phone switch, an opt-out or the end of a delay bring a row in flight.
LEMMA OutsideTame ==
  ASSUME Calm, BatchInv,
         \/ \E r \in Recipients : JobDue(r)
         \/ \E c \in Campaigns : LockExpires(c)
         \/ \E p \in Phones : EnablePhone(p)
         \/ \E customer \in Customers : OptOut(customer)
  PROVE  Tame
<1> USE DEF Tame, InHand, Leasing, SenderSteps, InFlightStatus, TypeInv, TypeOK, Calm,
            Spend, Events, Locals
<1>0. /\ InHand
      /\ \A u \in Threads : pc[u] \in SenderSteps => rec[u] \in Recipients
  BY AloneInHand DEF BatchInv
<1>1. ASSUME NEW r \in Recipients, JobDue(r) PROVE Tame
  BY <1>0, <1>1 DEF JobDue
<1>2. ASSUME NEW c \in Campaigns, LockExpires(c) PROVE Tame
  BY <1>0, <1>2 DEF LockExpires
<1>3. ASSUME NEW p \in Phones, EnablePhone(p) PROVE Tame
  BY <1>0, <1>3 DEF EnablePhone
<1>4. ASSUME NEW customer \in Customers, OptOut(customer) PROVE Tame
  BY <1>0, <1>4 DEF OptOut
<1>5. QED
  BY <1>1, <1>2, <1>3, <1>4

\* A job that is handed out, or taken from a dead worker, is nobody's.
LEMMA JobStep ==
  ASSUME Calm, BatchInv, NEW r \in Recipients,
         JobStalls(r) \/ \E t \in Threads : TakeJob(t, r)
  PROVE  OneRun' /\ InHand' /\ BatchBound' /\ \A t \in Threads : Leased(t)'
<1> USE DEF TypeInv, TypeOK, Calm, Spend, Events
<1>1. OneRun'
  BY ConstantsAssumption DEF ConstantsAssumption, NoRow, BatchInv, OneRun, JobStalls, TakeJob
<1>2. InHand'
  BY DEF BatchInv, InHand, JobStalls, TakeJob, SenderSteps
<1>3. row' = row /\ \A t \in Threads : pc'[t] \in Leasing \union {"pick"} =>
                      pc'[t] = pc[t] /\ loc'[t] = loc[t]
  BY DEF JobStalls, TakeJob, Leasing
<1>4. \A c : InFlight(c)' = InFlight(c) /\ RowsOf(c)' = RowsOf(c)
  BY <1>3 DEF InFlight, RowsOf
<1>5. BatchBound'
  BY <1>4 DEF BatchInv, BatchBound
<1>6. \A t \in Threads : Leased(t)'
  BY <1>3, <1>4 DEF BatchInv, Leased, Leasing
<1>7. QED
  BY <1>1, <1>2, <1>5, <1>6

\* The dispatch that goes on to pick has found no row of its campaign in flight.
LEMMA CountStep ==
  ASSUME Calm, BatchInv, NEW t \in Threads, CountInFlight(t)
  PROVE  BatchInv'
<1> USE DEF TypeInv, TypeOK, Calm, SenderSteps, Leasing
<1>1. /\ pc[t] = "count" /\ UNCHANGED <<row, job, owner, rec, loc, left>>
      /\ \A u \in Threads \ {t} : pc'[u] = pc[u]
      /\ \/ pc'[t] = "unlock"
         \/ pc'[t] = "pick" /\ InFlight(loc[t].camp) = {}
  BY DEF CountInFlight
<1>2. \A c : InFlight(c)' = InFlight(c) /\ RowsOf(c)' = RowsOf(c)
  BY <1>1 DEF InFlight, RowsOf
<1>3. OneRun' /\ InHand' /\ BatchBound'
  BY <1>1, <1>2 DEF BatchInv, OneRun, InHand, BatchBound
<1>4. \A u \in Threads : Leased(u)'
  BY <1>1, <1>2 DEF BatchInv, Leased
<1>5. QED
  BY <1>3, <1>4 DEF BatchInv

\* The rows picked are one batch, and none is in flight beside them.
LEMMA PickStep ==
  ASSUME Calm, BatchInv, NEW t \in Threads, PickBatch(t)
  PROVE  BatchInv'
<1> USE DEF TypeInv, TypeOK, Calm, SenderSteps, Leasing
<1>1. /\ pc[t] = "pick" /\ loc[t].camp \in Campaigns /\ loc[t] \in Locals
      /\ InFlight(loc[t].camp) = {}
  BY OnItsCampaign DEF PickBatch, BatchInv, Leased
<1> SUFFICES ASSUME NEW c \in Campaigns, c = loc[t].camp PROVE BatchInv'
  BY <1>1
<1>2. PICK B : /\ B \subseteq RowsOf(c) /\ Cardinality(B) <= BatchSize
               /\ loc' = [loc EXCEPT ![t] = [loc[t] EXCEPT !.batch = B]]
               /\ pc' = [pc EXCEPT ![t] = IF B = {} THEN "unlock" ELSE "enqueue"]
  <2> DEFINE pending == {r \in RowsOf(c) : row[r] = "PENDING"}
             rows(due) == (pending \ retried) \union due
  <2>1. PICK due \in SUBSET (pending \intersect retried) :
          LET B == FirstOf(rows(due), BatchSize)
          IN /\ loc' = [loc EXCEPT ![t] = [loc[t] EXCEPT !.batch = B]]
             /\ pc' = [pc EXCEPT ![t] = IF B = {} THEN "unlock" ELSE "enqueue"]
    BY DEF PickBatch
  <2>2. rows(due) \in SUBSET RowsOf(c)
    OBVIOUS
  <2>3. rows(due) \in SUBSET Nat /\ IsFiniteSet(rows(due))
    BY <2>2, FlightsFinite, FS_Subset, ConstantsAssumption DEF ConstantsAssumption
  <2>4. /\ FirstOf(rows(due), BatchSize) \subseteq rows(due)
        /\ Cardinality(FirstOf(rows(due), BatchSize)) <= BatchSize
    BY <2>3, FirstAreFew, ConstantsAssumption DEF ConstantsAssumption
  <2>5. QED
    BY <2>1, <2>2, <2>4
<1>3. UNCHANGED <<row, job, owner, rec, left>>
  BY DEF PickBatch
<1>4. \A d : InFlight(d)' = InFlight(d) /\ RowsOf(d)' = RowsOf(d)
  BY <1>3 DEF InFlight, RowsOf
<1>5. OneRun' /\ InHand' /\ BatchBound'
  BY <1>2, <1>3, <1>4 DEF BatchInv, OneRun, InHand, BatchBound
<1>6. Leased(t)'
  <2>1. loc'[t].camp = c /\ loc'[t].batch = B
        /\ (pc'[t] = "unlock" \/ (B # {} /\ pc'[t] = "enqueue"))
    <3> DEFINE l == [loc[t] EXCEPT !.batch = B]
    <3>1. l.camp = c /\ l.batch = B
      BY <1>1 DEF Locals
    <3>2. loc'[t] = l
      BY <1>2
    <3>3. pc'[t] = IF B = {} THEN "unlock" ELSE "enqueue"
      BY <1>2
    <3>4. QED
      BY <3>1, <3>2, <3>3
  <2>2. InFlight(c)' = {} /\ Cardinality(InFlight(c)' \union B) <= BatchSize
    BY <1>1, <1>2, <1>4
  <2>3. QED
    BY <1>2, <1>4, <2>1, <2>2 DEF Leased
<1>7. \A u \in Threads \ {t} : Leased(u)'
  BY <1>2, <1>4 DEF BatchInv, Leased
<1>8. QED
  BY <1>5, <1>6, <1>7 DEF BatchInv

\* A row that is marked was in the batch, and nobody else leases its campaign.
LEMMA MarkStep ==
  ASSUME Calm, BatchInv, NEW t \in Threads, MarkQueued(t)
  PROVE  BatchInv'
<1> USE DEF TypeInv, TypeOK, Calm
<1>1. /\ pc[t] = "mark" /\ loc[t].camp \in Campaigns /\ loc[t] \in Locals
      /\ UNCHANGED <<job, owner, rec, left>>
  BY OnItsCampaign DEF MarkQueued, Leasing
<1> SUFFICES ASSUME NEW c \in Campaigns, NEW B, NEW r,
                    c = loc[t].camp, B = loc[t].batch, r = Oldest(B)
             PROVE  BatchInv'
  BY <1>1
<1>2. B # {} /\ B \subseteq RowsOf(c) /\ Cardinality(InFlight(c) \union B) <= BatchSize
  BY <1>1 DEF BatchInv, Leased, Leasing
<1>3. B \in SUBSET Nat
  BY <1>2, ConstantsAssumption DEF ConstantsAssumption, RowsOf
<1>4. r \in B /\ r \in Recipients /\ CampaignOf[r] = c
  BY <1>2, <1>3, OldestIsFirst DEF RowsOf
<1>5. /\ row' = [row EXCEPT ![r] = IF @ = "PENDING" THEN "QUEUED" ELSE @]
      /\ loc' = [loc EXCEPT ![t] = [loc[t] EXCEPT !.batch = B \ {r}]]
      /\ pc' = [pc EXCEPT ![t] = IF B \ {r} = {} THEN "promote" ELSE "enqueue"]
  BY DEF MarkQueued, NextOfBatch
<1>6. /\ InFlight(c)' \subseteq InFlight(c) \union {r}
      /\ \A d \in Campaigns \ {c} : InFlight(d)' = InFlight(d)
      /\ \A d : RowsOf(d)' = RowsOf(d)
  BY <1>4, <1>5 DEF InFlight, RowsOf
<1>7. InFlight(c) \union B \in SUBSET RowsOf(c) /\ IsFiniteSet(InFlight(c) \union B)
  BY <1>2, FlightsFinite, FS_Subset
<1>8. OneRun' /\ InHand'
  <2>1. OneRun'
    BY <1>1 DEF BatchInv, OneRun
  <2>2. ASSUME NEW u \in Threads, pc'[u] \in SenderSteps PROVE row'[rec'[u]] = "PROCESSING"
    <3>1. pc[u] \in SenderSteps
      BY <1>5, <2>2 DEF SenderSteps
    <3>2. QED
      BY <1>1, <1>4, <1>5, <3>1, AloneInHand
  <2>3. QED
    BY <2>1, <2>2 DEF InHand
<1>9. BatchBound'
  <2>1. Cardinality(InFlight(c)') <= BatchSize
    BY <1>2, <1>4, <1>6, <1>7, Shrunk
  <2>2. QED
    BY <1>6, <2>1 DEF BatchInv, BatchBound
<1>10. Leased(t)'
  <2>1. loc'[t].camp = c /\ loc'[t].batch = B \ {r}
        /\ (pc'[t] = "promote" \/ (B \ {r} # {} /\ pc'[t] = "enqueue"))
    <3> DEFINE rest == B \ {r}
               l == [loc[t] EXCEPT !.batch = rest]
    <3>1. l.camp = c /\ l.batch = rest
      BY <1>1 DEF Locals
    <3>2. loc'[t] = l
      BY <1>5
    <3>3. pc'[t] = IF rest = {} THEN "promote" ELSE "enqueue"
      BY <1>5
    <3>4. QED
      BY <3>1, <3>2, <3>3
  <2>2. (InFlight(c)' \union (B \ {r})) \subseteq (InFlight(c) \union B)
    BY <1>4, <1>6
  <2>3. Cardinality(InFlight(c)' \union (B \ {r})) <= BatchSize
    BY <1>2, <1>7, <2>2, Shrunk
  <2>4. QED
    BY <1>2, <1>6, <2>1, <2>3 DEF Leased, Leasing
<1>11. ASSUME NEW u \in Threads \ {t} PROVE Leased(u)'
  <2>1. pc'[u] = pc[u] /\ loc'[u] = loc[u]
    BY <1>5
  <2>2. CASE pc[u] \in Leasing \union {"pick"}
    <3>1. loc[u].camp \in Campaigns /\ loc[u].camp # c
      BY <1>1, <2>2, OnItsCampaign DEF LockInv, Leases, LeaseSteps, Leasing
    <3>2. QED
      BY <1>6, <2>1, <3>1 DEF BatchInv, Leased
  <2>3. CASE pc[u] \notin Leasing \union {"pick"}
    BY <2>1, <2>3 DEF Leased
  <2>4. QED
    BY <2>2, <2>3
<1>12. QED
  BY <1>8, <1>9, <1>10, <1>11 DEF BatchInv

\* Every step keeps the bound.
LEMMA BatchStep ==
  ASSUME Calm, TypeInv', BatchInv, [Next]_vars
  PROVE  BatchInv'
<1>1. CASE UNCHANGED vars
  <2>1. Tame
    BY <1>1 DEF vars, Tame, BatchInv, InHand
  <2>2. QED
    BY <2>1, TameStep DEF Calm
<1>2. ASSUME NEW t \in Threads, CountInFlight(t) \/ PickBatch(t) \/ MarkQueued(t)
      PROVE  BatchInv'
  BY <1>2, CountStep, PickStep, MarkStep
<1>3. ASSUME NEW r \in Recipients, JobStalls(r) \/ \E t \in Threads : TakeJob(t, r)
      PROVE  BatchInv'
  BY <1>3, JobStep DEF BatchInv
<1>4. CASE /\ Next
           /\ \A t \in Threads : ~CountInFlight(t) /\ ~PickBatch(t) /\ ~MarkQueued(t)
           /\ \A r \in Recipients : ~JobStalls(r) /\ \A t \in Threads : ~TakeJob(t, r)
  <2>1. Tame
    BY <1>4, DispatchTame, SendTame, RefreshTame, CarryTame, AskTame, OutsideTame
    DEF Next, Step
  <2>2. QED
    BY <2>1, TameStep DEF Calm
<1>5. QED
  BY <1>1, <1>2, <1>3, <1>4

\* While no dispatch outlives its lock, no job stalls under its worker and no call of
\* the program fails, at most one batch of a campaign is queued or processing, however
\* many workers, ticks and requests dispatch it, and whatever crashes, is paused,
\* cancelled, resumed, retried or received meanwhile.
THEOREM OneBatchInFlight ==
  Budget["expiry"] = 0 /\ Budget["fault"] = 0 /\ Budget["stall"] = 0 /\ Spec => []BatchBound
<1>1. Budget["expiry"] = 0 /\ Budget["fault"] = 0 /\ Budget["stall"] = 0 /\ Init
        => LockInv /\ FinalInv /\ BatchInv
  <2> SUFFICES ASSUME Budget["expiry"] = 0, Budget["fault"] = 0, Budget["stall"] = 0, Init
               PROVE  LockInv /\ FinalInv /\ BatchInv
    OBVIOUS
  <2>1. LockInv /\ FinalInv
    BY DEF Init, LockInv, FinalInv, Leases, LeaseSteps, Sent
  <2>2. OneRun /\ InHand /\ \A t \in Threads : Leased(t)
    BY DEF Init, OneRun, InHand, Leased, Leasing, SenderSteps
  <2>3. \A c \in Campaigns : InFlight(c) = {}
    BY DEF Init, InFlight, RowsOf
  <2>4. BatchBound
    BY <2>3, FS_EmptySet, ConstantsAssumption DEF BatchBound, ConstantsAssumption
  <2>5. QED
    BY <2>1, <2>2, <2>4 DEF BatchInv
<1>2. TypeInv /\ LockInv /\ [Next]_vars => LockInv'
  BY LockStep
<1>3. TypeInv /\ SenderInv /\ FinalInv /\ [Next]_vars => FinalInv'
  BY FinalStep
<1>4. TypeInv /\ SenderInv /\ LockInv /\ FinalInv /\ TypeInv' /\ BatchInv /\ [Next]_vars
        => BatchInv'
  BY BatchStep DEF Calm
<1>5. BatchInv => BatchBound
  BY DEF BatchInv
<1>6. QED
  BY <1>1, <1>2, <1>3, <1>4, <1>5, Claims, PTL DEF Spec
===============================================================================
