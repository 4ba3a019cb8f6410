------------------------------ MODULE JobQueue ------------------------------
(***************************************************************************)
(* The life cycle of BullMQ jobs as the queues and workers under src/       *)
(* configure them: a job waits, is taken by a worker slot that holds its    *)
(* lock, and leaves it completed, failed or waiting for its next attempt.   *)
(* BullMQ itself is not in the repository; every operator is a step of it   *)
(* that the modules which INSTANCE this one conjoin with their own.         *)
(***************************************************************************)
EXTENDS Naturals

CONSTANTS Jobs, Slots, NoSlot, MaxAttempts

VARIABLES
  job,       \* per job: its state
  owner,     \* the slot that holds its lock
  tries,     \* attempts that ended in an error
  stalled    \* jobs that were found stalled once

State == {"none", "waiting", "active", "done", "failed"}

TypeOK ==
  /\ job \in [Jobs -> State]
  /\ owner \in [Jobs -> Slots \union {NoSlot}]
  /\ tries \in [Jobs -> Nat] /\ stalled \subseteq Jobs
  /\ \A j \in Jobs : owner[j] # NoSlot <=> job[j] = "active"

Init ==
  /\ job = [j \in Jobs |-> "none"] /\ owner = [j \in Jobs |-> NoSlot]
  /\ tries = [j \in Jobs |-> 0] /\ stalled = {}

\* A job id is added once: a second add of the same id changes nothing.
Add(j) ==
  /\ job' = IF job[j] = "none" THEN [job EXCEPT ![j] = "waiting"] ELSE job
  /\ UNCHANGED <<owner, tries, stalled>>

Take(s, j) ==
  /\ job[j] = "waiting"
  /\ job' = [job EXCEPT ![j] = "active"] /\ owner' = [owner EXCEPT ![j] = s]
  /\ UNCHANGED <<tries, stalled>>

\* The slot gives the job up: it moves only if the slot still holds its lock.
Move(s, j, state) ==
  IF owner[j] = s
  THEN job' = [job EXCEPT ![j] = state] /\ owner' = [owner EXCEPT ![j] = NoSlot]
  ELSE UNCHANGED <<job, owner>>

Complete(s, j) == Move(s, j, "done") /\ UNCHANGED <<tries, stalled>>

LastAttempt(j) == tries[j] + 1 >= MaxAttempts

\* The processor threw: the job waits again while it has attempts left.
Fail(s, j) ==
  /\ Move(s, j, IF LastAttempt(j) THEN "failed" ELSE "waiting")
  /\ tries' = IF owner[j] = s THEN [tries EXCEPT ![j] = @ + 1] ELSE tries
  /\ UNCHANGED stalled

\* An active job whose lock was not renewed goes back to waiting once, and
\* fails the second time (maxStalledCount is 1). Its holder may be alive.
Stall(j) ==
  /\ job[j] = "active"
  /\ job' = [job EXCEPT ![j] = IF j \in stalled THEN "failed" ELSE "waiting"]
  /\ owner' = [owner EXCEPT ![j] = NoSlot]
  /\ stalled' = stalled \union {j}
  /\ UNCHANGED tries
=============================================================================
