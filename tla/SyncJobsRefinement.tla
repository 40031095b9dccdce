------------------------- MODULE SyncJobsRefinement -------------------------
(***************************************************************************)
(* The synchronization queue implements JobLifecycle, for any number of    *)
(* jobs, workers, users and attempts.  A step of a worker, a producer or a *)
(* cascade is one step of the life cycle or changes none of its phases.    *)
(***************************************************************************)
EXTENDS SyncJobsProofs

ExecutingPlaces == {"execute", "complete", "fail"}

\* A job's phase depends on its row and on who holds it.
LEMMA PhaseFrame ==
  ASSUME NEW i \in Jobs, status[i] \in Statuses,
         Executing(i)' <=> Executing(i),
         status[i] = "running" => (Owned(i)' <=> Owned(i)),
         status'[i] = status[i], attempt'[i] = attempt[i]
  PROVE  PhaseOf(i)' = PhaseOf(i)
<1>1. CASE status[i] = "running"
  BY <1>1 DEF PhaseOf
<1>2. CASE status[i] # "running"
  BY <1>2 DEF PhaseOf, Statuses
<1> QED BY <1>1, <1>2

\* Who holds a job depends on the workers alone.
LEMMA HoldersFrame ==
  ASSUME UNCHANGED workerVars, NEW i \in Jobs
  PROVE  (Executing(i)' <=> Executing(i)) /\ (Owned(i)' <=> Owned(i))
<1>1. pc' = pc /\ job' = job
  BY DEF workerVars
<1> QED BY <1>1 DEF Executing, Owned

\* A step of one worker leaves the holders of every other job as they are, and those of
\* its own job too unless it crosses the border of the places in question.
LEMMA WorkerFrame ==
  ASSUME WorkerTypes, NEW w \in Workers, NEW place \in Places, NEW i \in Jobs,
         pc' = [pc EXCEPT ![w] = place], job' = job
  PROVE  /\ job[w] # i => (Executing(i)' <=> Executing(i)) /\ (Owned(i)' <=> Owned(i))
         /\ (pc[w] \in ExecutingPlaces <=> place \in ExecutingPlaces)
               => (Executing(i)' <=> Executing(i))
         /\ (pc[w] \in Owning <=> place \in Owning) => (Owned(i)' <=> Owned(i))
<1>1. pc'[w] = place /\ \A v \in Workers : v # w => pc'[v] = pc[v]
  BY DEF WorkerTypes
<1> QED BY <1>1 DEF Executing, Owned, ExecutingPlaces

\* The same when the worker leaves run_once.
LEMMA LeaveFrame ==
  ASSUME WorkerTypes, NEW w \in Workers, Leave(w), NEW i \in Jobs, NoJob \notin Jobs
  PROVE  /\ job[w] # i => (Executing(i)' <=> Executing(i)) /\ (Owned(i)' <=> Owned(i))
         /\ pc[w] \notin ExecutingPlaces => (Executing(i)' <=> Executing(i))
         /\ pc[w] \notin Owning => (Owned(i)' <=> Owned(i))
<1>1. /\ pc'[w] = "idle" /\ job'[w] = NoJob
      /\ \A v \in Workers : v # w => pc'[v] = pc[v] /\ job'[v] = job[v]
  BY DEF WorkerTypes, Leave
<1> QED BY <1>1 DEF Executing, Owned, ExecutingPlaces, Owning

\* Only a row that runs, or was deleted while it ran, is held.
LEMMA HeldRows ==
  ASSUME OwnerInv, NEW i \in Jobs
  PROVE  /\ Executing(i) => Owned(i)
         /\ Owned(i) => status[i] \in {"running", "deleted"}
BY DEF OwnerInv, Executing, Owned, Owning

\* A worker that holds a job is the only one.
LEMMA SoleHolder ==
  ASSUME WorkerTypes, ExclusiveInv, NEW w \in Workers, pc[w] \in Owning \cup {"claim"},
         NEW v \in Workers, pc[v] \in Owning, job[v] = job[w]
  PROVE  v = w
BY DEF ExclusiveInv

\* A step that changes no row and no holder is a stutter of the life cycle.
LEMMA PhasesKept ==
  ASSUME \A i \in Jobs : PhaseOf(i)' = PhaseOf(i), attempt' = attempt
  PROVE  UNCHANGED Lifecycle!lifecycleVars
BY DEF Lifecycle!lifecycleVars

\* enqueue_sync submits a job.
LEMMA EnqueueSubmits ==
  ASSUME TypeOK, QueueInv, NEW j \in Jobs, NEW offset \in Offsets, Enqueue(j, offset)
  PROVE  Lifecycle!Submit(j)
<1>1. /\ status[j] = "absent" /\ status' = [status EXCEPT ![j] = "pending"]
      /\ attempt' = attempt /\ UNCHANGED workerVars /\ status \in [Jobs -> Statuses]
  BY DEF Enqueue, TypeOK, RowTypes
<1>2. ~Executing(j) /\ ~Executing(j)'
  BY <1>1, HeldRows, HoldersFrame DEF QueueInv
<1>3. PhaseOf(j) = "none" /\ PhaseOf(j)' = "queued"
  BY <1>1, <1>2 DEF PhaseOf
<1>4. ASSUME NEW i \in Jobs, i # j PROVE PhaseOf(i)' = PhaseOf(i)
  BY <1>1, <1>4, HoldersFrame, PhaseFrame
<1> QED BY <1>1, <1>3, <1>4 DEF Lifecycle!Submit

\* ON DELETE CASCADE removes jobs, and does not stop the ones that are executed.
LEMMA CascadeRemoves ==
  ASSUME TypeOK, QueueInv, NEW S \in SUBSET Jobs, CascadeRows(S), UNCHANGED workerVars
  PROVE  Lifecycle!Remove(S)
<1>1. /\ status' = [i \in Jobs |-> IF i \in S /\ status[i] # "absent" THEN "deleted" ELSE status[i]]
      /\ attempt' = attempt /\ status \in [Jobs -> Statuses]
  BY DEF CascadeRows, TypeOK, RowTypes
<1>2. ASSUME NEW i \in Jobs
      PROVE  PhaseOf(i)' = IF i \in S /\ PhaseOf(i) \notin {"none", "active"} THEN "gone"
                           ELSE PhaseOf(i)
  <2>1. (Executing(i)' <=> Executing(i)) /\ (Owned(i)' <=> Owned(i))
    BY HoldersFrame
  <2>2. CASE status'[i] = status[i]
    <3>1. PhaseOf(i)' = PhaseOf(i)
      BY <2>1, <2>2, <1>1, PhaseFrame
    <3>2. i \in S => status[i] \in {"absent", "deleted"}
      BY <1>1, <2>2
    <3>3. i \in S => PhaseOf(i) \in {"none", "active", "gone"}
      BY <3>2 DEF PhaseOf
    <3> QED BY <3>1, <3>3
  <2>3. CASE i \in S /\ status[i] # "absent"
    <3>1. status'[i] = "deleted"
      BY <1>1, <2>3
    <3>2. CASE Executing(i)
      BY <3>2, <2>1 DEF PhaseOf
    <3>3. CASE ~Executing(i)
      <4>1. PhaseOf(i)' = "gone"
        BY <3>1, <3>3, <2>1 DEF PhaseOf
      <4>2. PhaseOf(i) \notin {"none", "active"}
        BY <3>3, <2>3, <1>1 DEF PhaseOf, Statuses
      <4> QED BY <4>1, <4>2, <2>3
    <3> QED BY <3>2, <3>3
  <2> QED BY <2>2, <2>3, <1>1
<1> QED BY <1>1, <1>2 DEF Lifecycle!Remove

\* claim_sync_job reserves the selected job and counts the attempt.
LEMMA ClaimReserves ==
  ASSUME TypeOK, QueueInv, NEW w \in Workers, ClaimCommit(w)
  PROVE  job[w] \in Jobs /\ Lifecycle!Reserve(job[w])
<1>j. PICK j \in Jobs : j = job[w]
  BY DEF ClaimCommit, QueueInv, ClaimInv
<1>1. /\ pc[w] = "claim" /\ status[j] \in {"pending", "failed"}
      /\ attempt[j] < MaxAttempts
  BY <1>j DEF ClaimCommit, QueueInv, ClaimInv
<1>2. /\ pc' = [pc EXCEPT ![w] = "lock"] /\ job' = job
      /\ status' = [status EXCEPT ![j] = "running"]
      /\ attempt' = [attempt EXCEPT ![j] = @ + 1]
      /\ status \in [Jobs -> Statuses] /\ attempt \in [Jobs -> 0..MaxAttempts]
      /\ WorkerTypes /\ OwnerInv /\ ExclusiveInv
  BY <1>j DEF ClaimCommit, TypeOK, RowTypes, QueueInv
<1>3. ~Owned(j) /\ ~Executing(j)
  BY <1>1, <1>2, HeldRows
<1>4. ~Executing(j)'
  BY <1>1, <1>2, <1>3, WorkerFrame DEF ExecutingPlaces, Places
<1>5. Owned(j)'
  <2>1. pc'[w] = "lock" /\ job'[w] = j
    BY <1>2, <1>j DEF WorkerTypes
  <2> QED BY <2>1 DEF Owned, Owning
<1>6. PhaseOf(j) = "queued" /\ PhaseOf(j)' = "reserved"
  BY <1>1, <1>2, <1>3, <1>4, <1>5 DEF PhaseOf
<1>7. ASSUME NEW i \in Jobs, i # j PROVE PhaseOf(i)' = PhaseOf(i)
  <2>1. (Executing(i)' <=> Executing(i)) /\ (Owned(i)' <=> Owned(i))
    BY <1>j, <1>2, <1>7, WorkerFrame DEF Places
  <2> QED BY <2>1, <1>2, <1>7, PhaseFrame
<1>8. Lifecycle!Reserve(j)
  BY <1>1, <1>2, <1>6, <1>7 DEF Lifecycle!Reserve
<1> QED BY <1>j, <1>8

\* The status check under the advisory lock starts a reserved job, at a time when no job
\* of its user is executed; a deleted job is passed over.
LEMMA CheckStarts ==
  ASSUME TypeOK, QueueInv, NEW w \in Workers, CheckStatus(w)
  PROVE  \/ job[w] \in Jobs /\ Lifecycle!Start(job[w])
         \/ UNCHANGED Lifecycle!lifecycleVars
<1>j. PICK j \in Jobs : j = job[w]
  BY DEF CheckStatus, QueueInv, OwnerInv, Owning
<1>1. pc[w] = "check" /\ status[j] \in {"running", "deleted"}
  BY <1>j DEF CheckStatus, QueueInv, OwnerInv, Owning
<1>2. /\ status' = status /\ attempt' = attempt
      /\ status \in [Jobs -> Statuses] /\ WorkerTypes
      /\ OwnerInv /\ ExclusiveInv /\ LockInv
  BY DEF CheckStatus, rows, TypeOK, RowTypes, QueueInv
<1>3. CASE status[j] = "running"
  <2>1. pc' = [pc EXCEPT ![w] = "execute"] /\ job' = job
    BY <1>j, <1>3 DEF CheckStatus
  <2>2. \A v \in Workers : pc[v] \in Owning /\ job[v] = j => v = w
    BY <1>j, <1>1, <1>2, SoleHolder DEF Owning
  <2>3. Owned(j) /\ ~Executing(j) /\ Executing(j)'
    <3>1. pc'[w] = "execute" /\ job'[w] = j
      BY <1>j, <2>1, <1>2 DEF WorkerTypes
    <3> QED BY <1>j, <1>1, <2>2, <3>1 DEF Owned, Executing, Owning
  <2>4. PhaseOf(j) = "reserved" /\ PhaseOf(j)' = "active"
    BY <1>3, <2>3 DEF PhaseOf
  <2>5. ASSUME NEW i \in Jobs, Owner[i] = Owner[j] PROVE PhaseOf(i) # "active"
    <3>1. ~Executing(i)
      <4> SUFFICES ASSUME NEW v \in Workers, pc[v] \in ExecutingPlaces, job[v] = i PROVE FALSE
        BY DEF Executing, ExecutingPlaces
      <4>1. syncLock[Owner[j]] = w /\ syncLock[Owner[i]] = v
        BY <1>j, <1>1, <1>2 DEF LockInv, Locked, ExecutingPlaces
      <4>2. v # w
        BY <1>1 DEF ExecutingPlaces
      <4> QED BY <4>1, <4>2, <2>5
    <3>2. status[i] \in Statuses
      BY <1>2
    <3> QED BY <3>1, <3>2 DEF PhaseOf, Statuses
  <2>6. ASSUME NEW i \in Jobs, i # j PROVE PhaseOf(i)' = PhaseOf(i)
    <3>1. (Executing(i)' <=> Executing(i)) /\ (Owned(i)' <=> Owned(i))
      BY <1>j, <2>1, <1>2, <2>6, WorkerFrame DEF Places
    <3> QED BY <3>1, <1>2, PhaseFrame
  <2>7. Lifecycle!Start(j)
    BY <1>1, <1>2, <2>4, <2>5, <2>6 DEF Lifecycle!Start
  <2> QED BY <1>j, <2>7, <1>1
<1>4. CASE status[j] # "running"
  <2>1. Leave(w)
    BY <1>j, <1>4 DEF CheckStatus
  <2>2. ASSUME NEW i \in Jobs PROVE PhaseOf(i)' = PhaseOf(i)
    <3>1. Executing(i)' <=> Executing(i)
      BY <1>1, <1>2, <2>1, LeaveFrame, DistinctAssumption DEF ExecutingPlaces
    <3>2. status[i] = "running" => (Owned(i)' <=> Owned(i))
      BY <1>j, <1>2, <1>4, <2>1, LeaveFrame, DistinctAssumption
    <3> QED BY <3>1, <3>2, <1>2, PhaseFrame
  <2> QED BY <1>2, <2>2, PhasesKept
<1> QED BY <1>3, <1>4

\* What an execution leaves behind: the step that stores or drops its outcome takes the
\* job out of every worker's hands.
LEMMA ExecutionEnds ==
  ASSUME TypeOK, QueueInv, NEW w \in Workers, pc[w] \in ExecutingPlaces,
         \/ \E place \in Places \ Owning : pc' = [pc EXCEPT ![w] = place] /\ job' = job
         \/ Leave(w),
         attempt' = attempt, \A i \in Jobs : i # job[w] => status'[i] = status[i],
         status'[job[w]] \in {"succeeded", "failed", "running", "deleted"}
  PROVE  job[w] \in Jobs /\ Lifecycle!Finish(job[w])
<1>j. PICK j \in Jobs : j = job[w]
  BY DEF ExecutingPlaces, Owning, QueueInv, OwnerInv
<1>1. /\ pc[w] \in Owning /\ WorkerTypes /\ ExclusiveInv
      /\ status \in [Jobs -> Statuses]
  BY DEF ExecutingPlaces, Owning, QueueInv, OwnerInv, TypeOK, RowTypes
<1>2. \A v \in Workers : pc[v] \in Owning /\ job[v] = j => v = w
  BY <1>j, <1>1, SoleHolder
<1>3. Executing(j) /\ ~Executing(j)' /\ ~Owned(j)'
  <2>1. Executing(j)
    BY <1>j DEF Executing, ExecutingPlaces
  <2>2. /\ pc'[w] \notin Owning \/ job'[w] # j
        /\ \A v \in Workers : v # w => pc'[v] = pc[v] /\ job'[v] = job[v]
    BY <1>1, DistinctAssumption DEF Leave, WorkerTypes
  <2> QED BY <1>2, <2>1, <2>2 DEF Executing, Owned, Owning
<1>4. ASSUME NEW i \in Jobs, i # j PROVE PhaseOf(i)' = PhaseOf(i)
  <2>1. (Executing(i)' <=> Executing(i)) /\ (Owned(i)' <=> Owned(i))
    <3>1. CASE Leave(w)
      BY <1>j, <1>1, <1>4, <3>1, LeaveFrame, DistinctAssumption
    <3>2. CASE ~Leave(w)
      <4>1. PICK place \in Places \ Owning : pc' = [pc EXCEPT ![w] = place] /\ job' = job
        BY <3>2
      <4> QED BY <1>j, <1>1, <1>4, <4>1, WorkerFrame
    <3> QED BY <3>1, <3>2
  <2> QED BY <1>j, <2>1, <1>1, <1>4, PhaseFrame
<1>5. PhaseOf(j) = "active"
  BY <1>3 DEF PhaseOf
<1>6. PhaseOf(j)' \in {"done", "lost", "gone"} \cup
                      {IF attempt[j] < MaxAttempts THEN "queued" ELSE "exhausted"}
  BY <1>j, <1>3 DEF PhaseOf
<1>7. Lifecycle!Finish(j)
  BY <1>1, <1>4, <1>5, <1>6 DEF Lifecycle!Finish
<1> QED BY <1>j, <1>1, <1>7

\* A step of a worker that neither takes nor gives up a job, and changes no row, is a stutter.
LEMMA WalkStutters ==
  ASSUME TypeOK, NEW w \in Workers, NEW place \in Places,
         pc' = [pc EXCEPT ![w] = place], job' = job, status' = status, attempt' = attempt,
         pc[w] \in ExecutingPlaces <=> place \in ExecutingPlaces,
         pc[w] \in Owning <=> place \in Owning
  PROVE  UNCHANGED Lifecycle!lifecycleVars
<1>1. WorkerTypes /\ status \in [Jobs -> Statuses]
  BY DEF TypeOK, RowTypes
<1>2. ASSUME NEW i \in Jobs PROVE PhaseOf(i)' = PhaseOf(i)
  <2>1. (Executing(i)' <=> Executing(i)) /\ (Owned(i)' <=> Owned(i))
    BY <1>1, WorkerFrame
  <2> QED BY <1>1, <2>1, PhaseFrame
<1> QED BY <1>2, PhasesKept

\* A step of anybody else that changes no row is a stutter.
LEMMA OtherStutters ==
  ASSUME TypeOK, UNCHANGED workerVars, status' = status, attempt' = attempt
  PROVE  UNCHANGED Lifecycle!lifecycleVars
<1>1. status \in [Jobs -> Statuses]
  BY DEF TypeOK, RowTypes
<1>2. ASSUME NEW i \in Jobs PROVE PhaseOf(i)' = PhaseOf(i)
  BY <1>1, HoldersFrame, PhaseFrame
<1> QED BY <1>2, PhasesKept

\* ClaimSelect takes a job in hand that it does not own yet.
LEMMA SelectStutters ==
  ASSUME TypeOK, NEW w \in Workers, NEW j \in Jobs, ClaimSelect(w, j)
  PROVE  UNCHANGED Lifecycle!lifecycleVars
<1>1. /\ pc[w] = "idle" /\ pc'[w] = "claim"
      /\ \A v \in Workers : v # w => pc'[v] = pc[v] /\ job'[v] = job[v]
      /\ status' = status /\ attempt' = attempt /\ status \in [Jobs -> Statuses]
  BY DEF TypeOK, RowTypes, WorkerTypes, ClaimSelect, rows
<1>2. ASSUME NEW i \in Jobs PROVE PhaseOf(i)' = PhaseOf(i)
  <2>1. (Executing(i)' <=> Executing(i)) /\ (Owned(i)' <=> Owned(i))
    BY <1>1 DEF Executing, Owned, Owning
  <2> QED BY <1>1, <2>1, PhaseFrame
<1> QED BY <1>1, <1>2, PhasesKept

\* A worker that leaves run_once loses the job it has reserved, ends the execution it is
\* in, or has nothing to lose.
LEMMA LeaveLoses ==
  ASSUME TypeOK, QueueInv, NEW w \in Workers, Leave(w), status' = status, attempt' = attempt
  PROVE  \/ job[w] \in Jobs /\ (Lifecycle!Lose(job[w]) \/ Lifecycle!Finish(job[w]))
         \/ UNCHANGED Lifecycle!lifecycleVars
<1>1. /\ WorkerTypes /\ status \in [Jobs -> Statuses] /\ OwnerInv /\ ExclusiveInv
      /\ NoJob \notin Jobs
  BY DistinctAssumption DEF TypeOK, RowTypes, QueueInv
<1>2. CASE pc[w] \in ExecutingPlaces
  <2>1. status[job[w]] \in {"running", "deleted"}
    BY <1>1, <1>2 DEF OwnerInv, Owning, ExecutingPlaces
  <2>2. job[w] \in Jobs /\ Lifecycle!Finish(job[w])
    BY <1>2, <2>1, ExecutionEnds
  <2> QED BY <2>2
<1>3. CASE pc[w] \notin Owning
  <2>1. ASSUME NEW i \in Jobs PROVE PhaseOf(i)' = PhaseOf(i)
    <3>1. (Executing(i)' <=> Executing(i)) /\ (Owned(i)' <=> Owned(i))
      BY <1>1, <1>3, LeaveFrame DEF ExecutingPlaces, Owning
    <3> QED BY <1>1, <3>1, PhaseFrame
  <2> QED BY <2>1, PhasesKept
<1>4. CASE pc[w] \in Owning \ ExecutingPlaces
  <2>j. PICK j \in Jobs : j = job[w]
    BY <1>1, <1>4 DEF OwnerInv
  <2>1. ASSUME NEW i \in Jobs, i # j \/ status[i] # "running" PROVE PhaseOf(i)' = PhaseOf(i)
    <3>1. Executing(i)' <=> Executing(i)
      BY <1>1, <1>4, LeaveFrame
    <3>2. i # j => (Owned(i)' <=> Owned(i))
      BY <1>1, <2>j, LeaveFrame
    <3> QED BY <1>1, <2>1, <3>1, <3>2, PhaseFrame
  <2>2. CASE status[j] = "running"
    <3>1. \A v \in Workers : pc[v] \in Owning /\ job[v] = j => v = w
      BY <1>1, <1>4, <2>j, SoleHolder
    <3>2. Owned(j) /\ ~Executing(j)
      BY <1>4, <2>j, <3>1 DEF Owned, Executing, Owning, ExecutingPlaces
    <3>3. ~Executing(j)'
      BY <1>1, <1>4, <3>2, LeaveFrame
    <3>4. ~Owned(j)'
      <4>1. /\ pc'[w] = "idle"
            /\ \A v \in Workers : v # w => pc'[v] = pc[v] /\ job'[v] = job[v]
        BY <1>1 DEF WorkerTypes, Leave
      <4> QED BY <3>1, <4>1 DEF Owned, Owning
    <3>5. PhaseOf(j) = "reserved" /\ PhaseOf(j)' = "lost"
      BY <2>2, <3>2, <3>3, <3>4 DEF PhaseOf
    <3>6. Lifecycle!Lose(j)
      BY <2>1, <3>5 DEF Lifecycle!Lose
    <3> QED BY <2>j, <3>6
  <2>3. CASE status[j] # "running"
    BY <2>1, <2>3, PhasesKept
  <2> QED BY <2>2, <2>3
<1> QED BY <1>2, <1>3, <1>4

\* Every step of the queue is a step of the life cycle or changes none of its phases.
LEMMA StepImplements ==
  ASSUME TypeOK, QueueInv, [Next]_vars
  PROVE  [Lifecycle!LifecycleNext]_(Lifecycle!lifecycleVars)
<1> DEFINE Goal == [Lifecycle!LifecycleNext]_(Lifecycle!lifecycleVars)
<1>0. /\ \A j \in Jobs : Lifecycle!Submit(j) \/ Lifecycle!Reserve(j) \/ Lifecycle!Start(j)
                             \/ Lifecycle!Finish(j) \/ Lifecycle!Lose(j) => Goal
      /\ \A S \in SUBSET Jobs : Lifecycle!Remove(S) => Goal
      /\ UNCHANGED Lifecycle!lifecycleVars => Goal
  BY DEF Lifecycle!LifecycleNext
<1> HIDE DEF Goal
<1>1. ASSUME NEW j \in Jobs, NEW offset \in Offsets, Enqueue(j, offset)
      PROVE  Goal
  BY <1>0, <1>1, EnqueueSubmits
<1>2. ASSUME NEW c \in Calendars, DeleteCalendar(c)
      PROVE  Goal
  <2>1. Lifecycle!Remove(RowsOfCalendar(c)) /\ RowsOfCalendar(c) \in SUBSET Jobs
    BY <1>2, CascadeRemoves DEF DeleteCalendar, RowsOfCalendar
  <2> QED BY <1>0, <2>1
<1>3. ASSUME NEW u \in Users, DeleteAccount(u)
      PROVE  Goal
  <2>1. Lifecycle!Remove(RowsOfUser(u)) /\ RowsOfUser(u) \in SUBSET Jobs
    BY <1>3, CascadeRemoves DEF DeleteAccount, RowsOfUser
  <2> QED BY <1>0, <2>1
<1>4. ASSUME NEW u \in Users, ApiLock(u) \/ ApiUnlock(u)
      PROVE  Goal
  BY <1>0, <1>4, OtherStutters DEF ApiLock, ApiUnlock, rows
<1>5. ASSUME NEW w \in Workers, NEW j \in Jobs, ClaimSelect(w, j)
      PROVE  Goal
  BY <1>0, <1>5, SelectStutters
<1>6. ASSUME NEW w \in Workers, ClaimCommit(w)
      PROVE  Goal
  BY <1>0, <1>6, ClaimReserves
<1>7. ASSUME NEW w \in Workers, AcquireUserLock(w)
      PROVE  Goal
  <2>1. /\ pc[w] = "lock" /\ pc' = [pc EXCEPT ![w] = "check"] /\ job' = job
        /\ status' = status /\ attempt' = attempt
    BY <1>7 DEF AcquireUserLock, rows
  <2> QED BY <1>0, <2>1, WalkStutters DEF Places, Owning, ExecutingPlaces
<1>8. ASSUME NEW w \in Workers, CheckStatus(w)
      PROVE  Goal
  BY <1>0, <1>8, CheckStarts
<1>9. ASSUME NEW w \in Workers, RevokeIntegration(w)
      PROVE  Goal
  <2>1. PICK S \in SUBSET Jobs : CascadeRows(S) /\ UNCHANGED workerVars
    <3> DEFINE u == Owner[job[w]]
               doomed == {CalendarOf[j] : j \in RowsOfUser(u)} \cap calendars
               S == {j \in RowsOfUser(u) : CalendarOf[j] \in doomed}
    <3>1. CascadeRows(S) /\ UNCHANGED workerVars
      BY <1>9 DEF RevokeIntegration
    <3>2. S \in SUBSET Jobs
      BY DEF RowsOfUser
    <3> HIDE DEF S
    <3> QED BY <3>1, <3>2
  <2> QED BY <1>0, <2>1, CascadeRemoves
<1>10. ASSUME NEW w \in Workers, NEW outcome \in {"complete", "fail"}, Execute(w, outcome)
       PROVE  Goal
  <2>1. /\ pc[w] = "execute" /\ pc' = [pc EXCEPT ![w] = outcome] /\ job' = job
        /\ status' = status /\ attempt' = attempt
    BY <1>10 DEF Execute, rows
  <2> QED BY <1>0, <2>1, WalkStutters DEF Places, Owning, ExecutingPlaces
<1>11. ASSUME NEW w \in Workers, CompleteJob(w)
       PROVE  Goal
  <2>1. /\ pc[w] \in ExecutingPlaces /\ job[w] \in Jobs /\ status \in [Jobs -> Statuses]
        /\ status[job[w]] \in {"running", "deleted"}
    BY <1>11 DEF CompleteJob, ExecutingPlaces, QueueInv, OwnerInv, Owning, TypeOK, RowTypes
  <2>2. /\ pc' = [pc EXCEPT ![w] = "succeeded"] /\ job' = job /\ attempt' = attempt
        /\ \A i \in Jobs : i # job[w] => status'[i] = status[i]
        /\ status'[job[w]] \in {"succeeded", "deleted"}
    BY <1>11, <2>1 DEF CompleteJob
  <2>3. job[w] \in Jobs /\ Lifecycle!Finish(job[w])
    BY <2>1, <2>2, ExecutionEnds DEF Places, Owning
  <2> QED BY <1>0, <2>3
<1>12. ASSUME NEW w \in Workers, FailJob(w)
       PROVE  Goal
  <2>1. /\ pc[w] \in ExecutingPlaces /\ job[w] \in Jobs /\ status \in [Jobs -> Statuses]
        /\ status[job[w]] \in {"running", "deleted"}
    BY <1>12 DEF FailJob, ExecutingPlaces, QueueInv, OwnerInv, Owning, TypeOK, RowTypes
  <2>2. /\ pc' = [pc EXCEPT ![w] = "failed"] /\ job' = job /\ attempt' = attempt
        /\ \A i \in Jobs : i # job[w] => status'[i] = status[i]
        /\ status'[job[w]] \in {"failed", "deleted"}
    BY <1>12, <2>1 DEF FailJob
  <2>3. job[w] \in Jobs /\ Lifecycle!Finish(job[w])
    BY <2>1, <2>2, ExecutionEnds DEF Places, Owning
  <2> QED BY <1>0, <2>3
<1>13. ASSUME NEW w \in Workers, RecordActivity(w) \/ Interrupt(w)
       PROVE  Goal
  BY <1>0, <1>13, LeaveLoses DEF RecordActivity, Interrupt, rows
<1>14. CASE Tick \/ UNCHANGED vars
  BY <1>0, <1>14, OtherStutters DEF Tick, vars, rows
<1> QED
  BY <1>1, <1>2, <1>3, <1>4, <1>5, <1>6, <1>7, <1>8, <1>9, <1>10, <1>11, <1>12, <1>13, <1>14
  DEF Next, WorkerStep, Goal

\* The queue with its workers, leases, advisory locks and cascades is an implementation of
\* the life cycle that JobLifecycle promises: run_once executes a job at most MaxAttempts
\* times, one job of a user at a time, and none that is finished or was deleted before.
THEOREM QueueImplementsLifecycle == Spec => ImplementsLifecycle
<1>1. Init => Lifecycle!LifecycleInit
  <2> SUFFICES ASSUME Init PROVE Lifecycle!LifecycleInit
    OBVIOUS
  <2>1. ASSUME NEW j \in Jobs PROVE PhaseOf(j) = "none"
    BY DEF Init, PhaseOf, Executing
  <2> QED BY <2>1 DEF Init, Lifecycle!LifecycleInit
<1>2. TypeOK /\ QueueInv /\ [Next]_vars
         => [Lifecycle!LifecycleNext]_(Lifecycle!lifecycleVars)
  BY StepImplements
<1>3. QED
  BY <1>1, <1>2, QueueInvariant, PTL DEF Spec, ImplementsLifecycle, Lifecycle!LifecycleSpec
=============================================================================
