--------------------------- MODULE SyncJobsProofs ---------------------------
(***************************************************************************)
(* Safety of the synchronization queue for any number of jobs, workers,    *)
(* users and attempts.  Each conjunct of the inductive invariant has a     *)
(* lemma with one step per action of SyncJobs.                             *)
(***************************************************************************)
EXTENDS SyncJobs, TLAPS

\* Rows keep their types: the only addition to attempt_count is the claim's, which
\* claim_sync_job makes below the limit, and every time stays a natural number.
LEMMA RowTypesStep ==
  ASSUME RowTypes, WorkerTypes, WorldTypes, ClaimInv, OwnerInv, [Next]_vars
  PROVE  RowTypes'
<1>types. /\ status \in [Jobs -> Statuses]
          /\ attempt \in [Jobs -> 0..MaxAttempts]
          /\ available \in [Jobs -> Nat]
          /\ created \in [Jobs -> Nat]
          /\ lease \in [Jobs -> Nat]
  BY DEF RowTypes
<1>now. now \in Nat
  BY DEF WorldTypes
<1>1. ASSUME NEW j \in Jobs, NEW offset \in Offsets, Enqueue(j, offset)
      PROVE  RowTypes'
  <2>1. status' \in [Jobs -> Statuses]
    BY <1>1, <1>types DEF Enqueue, Statuses
  <2>2. available' \in [Jobs -> Nat]
    BY <1>1, <1>types, <1>now, BoundsAssumption DEF Enqueue
  <2>3. created' \in [Jobs -> Nat]
    BY <1>1, <1>types, <1>now DEF Enqueue
  <2>4. attempt' \in [Jobs -> 0..MaxAttempts] /\ lease' \in [Jobs -> Nat]
    BY <1>1, <1>types DEF Enqueue
  <2>5. QED
    BY <2>1, <2>2, <2>3, <2>4 DEF RowTypes
<1>2. ASSUME NEW c \in Calendars, DeleteCalendar(c)
      PROVE  RowTypes'
  <2>1. status' \in [Jobs -> Statuses]
    BY <1>2, <1>types DEF DeleteCalendar, CascadeRows, Statuses
  <2>2. lease' \in [Jobs -> Nat]
    BY <1>2, <1>types DEF DeleteCalendar, CascadeRows, NoLease
  <2>3. /\ attempt' \in [Jobs -> 0..MaxAttempts]
        /\ available' \in [Jobs -> Nat]
        /\ created' \in [Jobs -> Nat]
    BY <1>2, <1>types DEF DeleteCalendar, CascadeRows
  <2>4. QED
    BY <2>1, <2>2, <2>3 DEF RowTypes
<1>3. ASSUME NEW u \in Users, DeleteAccount(u)
      PROVE  RowTypes'
  <2>1. status' \in [Jobs -> Statuses]
    BY <1>3, <1>types DEF DeleteAccount, CascadeRows, Statuses
  <2>2. lease' \in [Jobs -> Nat]
    BY <1>3, <1>types DEF DeleteAccount, CascadeRows, NoLease
  <2>3. /\ attempt' \in [Jobs -> 0..MaxAttempts]
        /\ available' \in [Jobs -> Nat]
        /\ created' \in [Jobs -> Nat]
    BY <1>3, <1>types DEF DeleteAccount, CascadeRows
  <2>4. QED
    BY <2>1, <2>2, <2>3 DEF RowTypes
<1>4. ASSUME NEW u \in Users, ApiLock(u)
      PROVE  RowTypes'
  BY <1>4 DEF ApiLock, RowTypes, rows
<1>5. ASSUME NEW u \in Users, ApiUnlock(u)
      PROVE  RowTypes'
  BY <1>5 DEF ApiUnlock, RowTypes, rows
<1>6. ASSUME NEW w \in Workers, NEW j \in Jobs, ClaimSelect(w, j)
      PROVE  RowTypes'
  BY <1>6 DEF ClaimSelect, RowTypes, rows
<1>7. ASSUME NEW w \in Workers, ClaimCommit(w)
      PROVE  RowTypes'
  <2>1. status' \in [Jobs -> Statuses]
    BY <1>7, <1>types DEF ClaimCommit, Statuses
  <2>2. /\ attempt' = [attempt EXCEPT ![job[w]] = @ + 1]
        /\ lease' = [lease EXCEPT ![job[w]] = now + LeaseTime]
        /\ job[w] \in Jobs /\ attempt[job[w]] < MaxAttempts
    BY <1>7 DEF ClaimCommit, ClaimInv
  <2>3. attempt[job[w]] + 1 \in 0..MaxAttempts /\ now + LeaseTime \in Nat
    BY <2>2, <1>types, <1>now, BoundsAssumption
  <2>4. attempt' \in [Jobs -> 0..MaxAttempts] /\ lease' \in [Jobs -> Nat]
    BY <2>2, <2>3, <1>types
  <2>5. available' \in [Jobs -> Nat] /\ created' \in [Jobs -> Nat]
    BY <1>7, <1>types DEF ClaimCommit
  <2>6. QED
    BY <2>1, <2>4, <2>5 DEF RowTypes
<1>8. ASSUME NEW w \in Workers, AcquireUserLock(w)
      PROVE  RowTypes'
  BY <1>8 DEF AcquireUserLock, RowTypes, rows
<1>9. ASSUME NEW w \in Workers, CheckStatus(w)
      PROVE  RowTypes'
  BY <1>9 DEF CheckStatus, Leave, RowTypes, rows
<1>10. ASSUME NEW w \in Workers, RevokeIntegration(w)
       PROVE  RowTypes'
  <2>1. status' \in [Jobs -> Statuses]
    BY <1>10, <1>types DEF RevokeIntegration, CascadeRows, Statuses
  <2>2. lease' \in [Jobs -> Nat]
    BY <1>10, <1>types DEF RevokeIntegration, CascadeRows, NoLease
  <2>3. /\ attempt' \in [Jobs -> 0..MaxAttempts]
        /\ available' \in [Jobs -> Nat]
        /\ created' \in [Jobs -> Nat]
    BY <1>10, <1>types DEF RevokeIntegration, CascadeRows
  <2>4. QED
    BY <2>1, <2>2, <2>3 DEF RowTypes
<1>11. ASSUME NEW w \in Workers, NEW outcome \in {"complete", "fail"}, Execute(w, outcome)
       PROVE  RowTypes'
  BY <1>11 DEF Execute, RowTypes, rows
<1>12. ASSUME NEW w \in Workers, CompleteJob(w)
       PROVE  RowTypes'
  <2>1. status' \in [Jobs -> Statuses]
    BY <1>12, <1>types DEF CompleteJob, Statuses
  <2>2. lease' \in [Jobs -> Nat]
    BY <1>12, <1>types DEF CompleteJob, NoLease
  <2>3. /\ attempt' \in [Jobs -> 0..MaxAttempts]
        /\ available' \in [Jobs -> Nat]
        /\ created' \in [Jobs -> Nat]
    BY <1>12, <1>types DEF CompleteJob
  <2>4. QED
    BY <2>1, <2>2, <2>3 DEF RowTypes
<1>13. ASSUME NEW w \in Workers, FailJob(w)
       PROVE  RowTypes'
  <2>1. seen[w] + 1 \in 1..MaxAttempts
    BY <1>13, BoundsAssumption DEF FailJob, OwnerInv, Owning, WorkerTypes
  <2>2. Delay[seen[w] + 1] \in Nat
    BY <2>1, BoundsAssumption
  <2>3. status' \in [Jobs -> Statuses]
    BY <1>13, <1>types DEF FailJob, Statuses
  <2>4. available' \in [Jobs -> Nat]
    <3>1. available' = [available EXCEPT ![job[w]] = now + Delay[seen[w] + 1]]
      BY <1>13 DEF FailJob
    <3>2. now + Delay[seen[w] + 1] \in Nat
      BY <1>now, <2>2
    <3>3. QED
      BY <3>1, <3>2, <1>types
  <2>5. lease' \in [Jobs -> Nat]
    BY <1>13, <1>types DEF FailJob, NoLease
  <2>6. attempt' \in [Jobs -> 0..MaxAttempts] /\ created' \in [Jobs -> Nat]
    BY <1>13, <1>types DEF FailJob
  <2>7. QED
    BY <2>1, <2>2, <2>3, <2>4, <2>5, <2>6 DEF RowTypes
<1>14. ASSUME NEW w \in Workers, RecordActivity(w)
       PROVE  RowTypes'
  BY <1>14 DEF RecordActivity, Leave, RowTypes, rows
<1>15. ASSUME NEW w \in Workers, Interrupt(w)
       PROVE  RowTypes'
  BY <1>15 DEF Interrupt, Leave, RowTypes, rows
<1>16. CASE Tick
  BY <1>16 DEF Tick, RowTypes, rows
<1>17. CASE UNCHANGED vars
  BY <1>17 DEF vars, RowTypes, rows
<1>18. QED
  BY <1>1, <1>2, <1>3, <1>4, <1>5, <1>6, <1>7, <1>8, <1>9, <1>10, <1>11, <1>12, <1>13,
     <1>14, <1>15, <1>16, <1>17 DEF Next, WorkerStep

\* Workers keep their types.
LEMMA WorkerTypesStep ==
  ASSUME RowTypes, WorkerTypes, [Next]_vars
  PROVE  WorkerTypes'
<1> USE DEF WorkerTypes, workerVars
<1>1. ASSUME NEW j \in Jobs, NEW offset \in Offsets, Enqueue(j, offset)
      PROVE  WorkerTypes'
  BY <1>1 DEF Enqueue
<1>2. ASSUME NEW c \in Calendars, DeleteCalendar(c)
      PROVE  WorkerTypes'
  BY <1>2 DEF DeleteCalendar, CascadeRows
<1>3. ASSUME NEW u \in Users, DeleteAccount(u)
      PROVE  WorkerTypes'
  BY <1>3 DEF DeleteAccount, CascadeRows
<1>4. ASSUME NEW u \in Users, ApiLock(u)
      PROVE  WorkerTypes'
  BY <1>4 DEF ApiLock
<1>5. ASSUME NEW u \in Users, ApiUnlock(u)
      PROVE  WorkerTypes'
  BY <1>5 DEF ApiUnlock
<1>6. ASSUME NEW w \in Workers, NEW j \in Jobs, ClaimSelect(w, j)
      PROVE  WorkerTypes'
  BY <1>6 DEF ClaimSelect, RowTypes, Places
<1>7. ASSUME NEW w \in Workers, ClaimCommit(w)
      PROVE  WorkerTypes'
  BY <1>7 DEF ClaimCommit, Places
<1>8. ASSUME NEW w \in Workers, AcquireUserLock(w)
      PROVE  WorkerTypes'
  BY <1>8 DEF AcquireUserLock, Places
<1>9. ASSUME NEW w \in Workers, CheckStatus(w)
      PROVE  WorkerTypes'
  <2>1. CASE status[job[w]] = "running"
    BY <1>9, <2>1 DEF CheckStatus, Places
  <2>2. CASE status[job[w]] # "running"
    <3>1. Leave(w)
      BY <1>9, <2>2 DEF CheckStatus
    <3> QED BY <3>1, BoundsAssumption DEF Leave, Places
  <2> QED BY <2>1, <2>2
<1>10. ASSUME NEW w \in Workers, RevokeIntegration(w)
       PROVE  WorkerTypes'
  BY <1>10 DEF RevokeIntegration, CascadeRows
<1>11. ASSUME NEW w \in Workers, NEW outcome \in {"complete", "fail"}, Execute(w, outcome)
       PROVE  WorkerTypes'
  BY <1>11 DEF Execute, Places
<1>12. ASSUME NEW w \in Workers, CompleteJob(w)
       PROVE  WorkerTypes'
  BY <1>12 DEF CompleteJob, Places
<1>13. ASSUME NEW w \in Workers, FailJob(w)
       PROVE  WorkerTypes'
  BY <1>13 DEF FailJob, Places
<1>14. ASSUME NEW w \in Workers, RecordActivity(w)
       PROVE  WorkerTypes'
  BY <1>14, BoundsAssumption DEF RecordActivity, Leave, Places
<1>15. ASSUME NEW w \in Workers, Interrupt(w)
       PROVE  WorkerTypes'
  BY <1>15, BoundsAssumption DEF Interrupt, Leave, Places
<1>16. CASE Tick
  BY <1>16 DEF Tick
<1>17. CASE UNCHANGED vars
  BY <1>17 DEF vars
<1>18. QED
  BY <1>1, <1>2, <1>3, <1>4, <1>5, <1>6, <1>7, <1>8, <1>9, <1>10, <1>11, <1>12, <1>13,
     <1>14, <1>15, <1>16, <1>17 DEF Next, WorkerStep

\* Clock, locks, calendars, accounts and activity keep their types.
LEMMA WorldTypesStep ==
  ASSUME WorkerTypes, WorldTypes, OwnerInv, LockInv, [Next]_vars
  PROVE  WorldTypes'
<1>numbers. now \in Nat /\ interrupts \in 0..MaxInterrupts
  BY DEF WorldTypes
<1> USE DEF WorldTypes, world
<1>1. ASSUME NEW j \in Jobs, NEW offset \in Offsets, Enqueue(j, offset)
      PROVE  WorldTypes'
  BY <1>1 DEF Enqueue
<1>2. ASSUME NEW c \in Calendars, DeleteCalendar(c)
      PROVE  WorldTypes'
  BY <1>2 DEF DeleteCalendar, CascadeRows
<1>3. ASSUME NEW u \in Users, DeleteAccount(u)
      PROVE  WorldTypes'
  BY <1>3 DEF DeleteAccount, CascadeRows
<1>4. ASSUME NEW u \in Users, ApiLock(u)
      PROVE  WorldTypes'
  BY <1>4 DEF ApiLock
<1>5. ASSUME NEW u \in Users, ApiUnlock(u)
      PROVE  WorldTypes'
  BY <1>5 DEF ApiUnlock
<1>6. ASSUME NEW w \in Workers, NEW j \in Jobs, ClaimSelect(w, j)
      PROVE  WorldTypes'
  BY <1>6 DEF ClaimSelect
<1>7. ASSUME NEW w \in Workers, ClaimCommit(w)
      PROVE  WorldTypes'
  BY <1>7 DEF ClaimCommit
<1>8. ASSUME NEW w \in Workers, AcquireUserLock(w)
      PROVE  WorldTypes'
  BY <1>8 DEF AcquireUserLock, WorkerTypes, OwnerInv, Owning
<1>9. ASSUME NEW w \in Workers, CheckStatus(w)
      PROVE  WorldTypes'
  BY <1>9 DEF CheckStatus, Leave
<1>10. ASSUME NEW w \in Workers, RevokeIntegration(w)
       PROVE  WorldTypes'
  BY <1>10 DEF RevokeIntegration, CascadeRows
<1>11. ASSUME NEW w \in Workers, NEW outcome \in {"complete", "fail"}, Execute(w, outcome)
       PROVE  WorldTypes'
  BY <1>11 DEF Execute
<1>12. ASSUME NEW w \in Workers, CompleteJob(w)
       PROVE  WorldTypes'
  BY <1>12 DEF CompleteJob
<1>13. ASSUME NEW w \in Workers, FailJob(w)
       PROVE  WorldTypes'
  BY <1>13 DEF FailJob
<1>14. ASSUME NEW w \in Workers, RecordActivity(w)
       PROVE  WorldTypes'
  BY <1>14 DEF RecordActivity, Leave, Message, LockInv, Locked
<1>15. ASSUME NEW w \in Workers, Interrupt(w)
       PROVE  WorldTypes'
  <2>1. interrupts < MaxInterrupts /\ interrupts' = interrupts + 1
    BY <1>15 DEF Interrupt
  <2>2. interrupts' \in 0..MaxInterrupts
    <3> HIDE DEF WorldTypes
    <3>1. QED  BY <1>numbers, <2>1, BoundsAssumption
  <2>3. syncLock' \in [Users -> Workers \cup {Free, Api}]
    BY <1>15 DEF Interrupt, Leave
  <2>4. QED
    BY <1>15, <2>2, <2>3 DEF Interrupt
<1>16. CASE Tick
  <2>1. now' = now + 1
    BY <1>16 DEF Tick
  <2>2. now' \in Nat
    <3> HIDE DEF WorldTypes
    <3>1. QED  BY <1>numbers, <2>1
  <2>3. QED
    BY <1>16, <2>2 DEF Tick
<1>17. CASE UNCHANGED vars
  BY <1>17 DEF vars
<1>18. QED
  BY <1>1, <1>2, <1>3, <1>4, <1>5, <1>6, <1>7, <1>8, <1>9, <1>10, <1>11, <1>12, <1>13,
     <1>14, <1>15, <1>16, <1>17 DEF Next, WorkerStep

\* A row that is locked by its claim stays claimable.
LEMMA ClaimInvStep ==
  ASSUME RowTypes, WorkerTypes, ClaimInv, OwnerInv, ExclusiveInv, [Next]_vars
  PROVE  ClaimInv'
<1> USE DEF ClaimInv, RowTypes, WorkerTypes, rows, workerVars
<1>1. ASSUME NEW j \in Jobs, NEW offset \in Offsets, Enqueue(j, offset)
      PROVE  ClaimInv'
  BY <1>1 DEF Enqueue
<1>2. ASSUME NEW c \in Calendars, DeleteCalendar(c)
      PROVE  ClaimInv'
  BY <1>2 DEF DeleteCalendar, CascadeRows, RowLocked
<1>3. ASSUME NEW u \in Users, DeleteAccount(u)
      PROVE  ClaimInv'
  BY <1>3 DEF DeleteAccount, CascadeRows, RowLocked
<1>4. ASSUME NEW u \in Users, ApiLock(u)
      PROVE  ClaimInv'
  BY <1>4 DEF ApiLock
<1>5. ASSUME NEW u \in Users, ApiUnlock(u)
      PROVE  ClaimInv'
  BY <1>5 DEF ApiUnlock
<1>6. ASSUME NEW w \in Workers, NEW j \in Jobs, ClaimSelect(w, j)
      PROVE  ClaimInv'
  BY <1>6 DEF ClaimSelect, Eligible
<1>7. ASSUME NEW w \in Workers, ClaimCommit(w)
      PROVE  ClaimInv'
  BY <1>7 DEF ClaimCommit, ExclusiveInv
<1>8. ASSUME NEW w \in Workers, AcquireUserLock(w)
      PROVE  ClaimInv'
  BY <1>8 DEF AcquireUserLock
<1>9. ASSUME NEW w \in Workers, CheckStatus(w)
      PROVE  ClaimInv'
  BY <1>9 DEF CheckStatus, Leave
<1>10. ASSUME NEW w \in Workers, RevokeIntegration(w)
       PROVE  ClaimInv'
  BY <1>10 DEF RevokeIntegration, CascadeRows, RowLocked
<1>11. ASSUME NEW w \in Workers, NEW outcome \in {"complete", "fail"}, Execute(w, outcome)
       PROVE  ClaimInv'
  BY <1>11 DEF Execute
<1>12. ASSUME NEW w \in Workers, CompleteJob(w)
       PROVE  ClaimInv'
  BY <1>12 DEF CompleteJob, ExclusiveInv, Owning
<1>13. ASSUME NEW w \in Workers, FailJob(w)
       PROVE  ClaimInv'
  BY <1>13 DEF FailJob, ExclusiveInv, Owning
<1>14. ASSUME NEW w \in Workers, RecordActivity(w)
       PROVE  ClaimInv'
  BY <1>14 DEF RecordActivity, Leave
<1>15. ASSUME NEW w \in Workers, Interrupt(w)
       PROVE  ClaimInv'
  BY <1>15 DEF Interrupt, Leave
<1>16. CASE Tick
  BY <1>16 DEF Tick
<1>17. CASE UNCHANGED vars
  BY <1>17 DEF vars
<1>18. QED
  BY <1>1, <1>2, <1>3, <1>4, <1>5, <1>6, <1>7, <1>8, <1>9, <1>10, <1>11, <1>12, <1>13,
     <1>14, <1>15, <1>16, <1>17 DEF Next, WorkerStep

\* A claimed row stays running with the claimed count, or is deleted.
LEMMA OwnerInvStep ==
  ASSUME RowTypes, WorkerTypes, ClaimInv, OwnerInv, ExclusiveInv, [Next]_vars
  PROVE  OwnerInv'
<1> USE DEF OwnerInv, Owning, RowTypes, WorkerTypes, rows, workerVars
<1>1. ASSUME NEW j \in Jobs, NEW offset \in Offsets, Enqueue(j, offset)
      PROVE  OwnerInv'
  BY <1>1 DEF Enqueue
<1>2. ASSUME NEW c \in Calendars, DeleteCalendar(c)
      PROVE  OwnerInv'
  BY <1>2 DEF DeleteCalendar, CascadeRows
<1>3. ASSUME NEW u \in Users, DeleteAccount(u)
      PROVE  OwnerInv'
  BY <1>3 DEF DeleteAccount, CascadeRows
<1>4. ASSUME NEW u \in Users, ApiLock(u)
      PROVE  OwnerInv'
  BY <1>4 DEF ApiLock
<1>5. ASSUME NEW u \in Users, ApiUnlock(u)
      PROVE  OwnerInv'
  BY <1>5 DEF ApiUnlock
<1>6. ASSUME NEW w \in Workers, NEW j \in Jobs, ClaimSelect(w, j)
      PROVE  OwnerInv'
  BY <1>6 DEF ClaimSelect
<1>7. ASSUME NEW w \in Workers, ClaimCommit(w)
      PROVE  OwnerInv'
  BY <1>7 DEF ClaimCommit, ClaimInv, ExclusiveInv
<1>8. ASSUME NEW w \in Workers, AcquireUserLock(w)
      PROVE  OwnerInv'
  BY <1>8 DEF AcquireUserLock
<1>9. ASSUME NEW w \in Workers, CheckStatus(w)
      PROVE  OwnerInv'
  BY <1>9 DEF CheckStatus, Leave
<1>10. ASSUME NEW w \in Workers, RevokeIntegration(w)
       PROVE  OwnerInv'
  BY <1>10 DEF RevokeIntegration, CascadeRows
<1>11. ASSUME NEW w \in Workers, NEW outcome \in {"complete", "fail"}, Execute(w, outcome)
       PROVE  OwnerInv'
  BY <1>11 DEF Execute
<1>12. ASSUME NEW w \in Workers, CompleteJob(w)
       PROVE  OwnerInv'
  BY <1>12 DEF CompleteJob, ExclusiveInv
<1>13. ASSUME NEW w \in Workers, FailJob(w)
       PROVE  OwnerInv'
  BY <1>13 DEF FailJob, ExclusiveInv
<1>14. ASSUME NEW w \in Workers, RecordActivity(w)
       PROVE  OwnerInv'
  BY <1>14 DEF RecordActivity, Leave
<1>15. ASSUME NEW w \in Workers, Interrupt(w)
       PROVE  OwnerInv'
  BY <1>15 DEF Interrupt, Leave
<1>16. CASE Tick
  BY <1>16 DEF Tick
<1>17. CASE UNCHANGED vars
  BY <1>17 DEF vars
<1>18. QED
  BY <1>1, <1>2, <1>3, <1>4, <1>5, <1>6, <1>7, <1>8, <1>9, <1>10, <1>11, <1>12, <1>13,
     <1>14, <1>15, <1>16, <1>17 DEF Next, WorkerStep

\* A row that another worker has selected or owns is never selected: it is locked, or
\* no longer pending or failed.
LEMMA ExclusiveInvStep ==
  ASSUME WorkerTypes, ClaimInv, OwnerInv, ExclusiveInv, [Next]_vars
  PROVE  ExclusiveInv'
<1> USE DEF ExclusiveInv, Owning, WorkerTypes, workerVars
<1>1. ASSUME NEW j \in Jobs, NEW offset \in Offsets, Enqueue(j, offset)
      PROVE  ExclusiveInv'
  BY <1>1 DEF Enqueue
<1>2. ASSUME NEW c \in Calendars, DeleteCalendar(c)
      PROVE  ExclusiveInv'
  BY <1>2 DEF DeleteCalendar, CascadeRows
<1>3. ASSUME NEW u \in Users, DeleteAccount(u)
      PROVE  ExclusiveInv'
  BY <1>3 DEF DeleteAccount, CascadeRows
<1>4. ASSUME NEW u \in Users, ApiLock(u)
      PROVE  ExclusiveInv'
  BY <1>4 DEF ApiLock
<1>5. ASSUME NEW u \in Users, ApiUnlock(u)
      PROVE  ExclusiveInv'
  BY <1>5 DEF ApiUnlock
<1>6. ASSUME NEW w \in Workers, NEW j \in Jobs, ClaimSelect(w, j)
      PROVE  ExclusiveInv'
  BY <1>6 DEF ClaimSelect, Eligible, RowLocked, OwnerInv
<1>7. ASSUME NEW w \in Workers, ClaimCommit(w)
      PROVE  ExclusiveInv'
  BY <1>7 DEF ClaimCommit
<1>8. ASSUME NEW w \in Workers, AcquireUserLock(w)
      PROVE  ExclusiveInv'
  BY <1>8 DEF AcquireUserLock
<1>9. ASSUME NEW w \in Workers, CheckStatus(w)
      PROVE  ExclusiveInv'
  BY <1>9 DEF CheckStatus, Leave
<1>10. ASSUME NEW w \in Workers, RevokeIntegration(w)
       PROVE  ExclusiveInv'
  BY <1>10 DEF RevokeIntegration, CascadeRows
<1>11. ASSUME NEW w \in Workers, NEW outcome \in {"complete", "fail"}, Execute(w, outcome)
       PROVE  ExclusiveInv'
  BY <1>11 DEF Execute
<1>12. ASSUME NEW w \in Workers, CompleteJob(w)
       PROVE  ExclusiveInv'
  BY <1>12 DEF CompleteJob
<1>13. ASSUME NEW w \in Workers, FailJob(w)
       PROVE  ExclusiveInv'
  BY <1>13 DEF FailJob
<1>14. ASSUME NEW w \in Workers, RecordActivity(w)
       PROVE  ExclusiveInv'
  BY <1>14 DEF RecordActivity, Leave
<1>15. ASSUME NEW w \in Workers, Interrupt(w)
       PROVE  ExclusiveInv'
  BY <1>15 DEF Interrupt, Leave
<1>16. CASE Tick
  BY <1>16 DEF Tick
<1>17. CASE UNCHANGED vars
  BY <1>17 DEF vars
<1>18. QED
  BY <1>1, <1>2, <1>3, <1>4, <1>5, <1>6, <1>7, <1>8, <1>9, <1>10, <1>11, <1>12, <1>13,
     <1>14, <1>15, <1>16, <1>17 DEF Next, WorkerStep

\* Whoever is past the advisory lock holds it until leaving run_once.
LEMMA LockInvStep ==
  ASSUME WorkerTypes, WorldTypes, OwnerInv, LockInv, [Next]_vars
  PROVE  LockInv'
<1>locks. syncLock \in [Users -> Workers \cup {Free, Api}]
  BY DEF WorldTypes
<1> USE <1>locks, DistinctAssumption DEF LockInv, Locked, WorkerTypes, workerVars
<1>1. ASSUME NEW j \in Jobs, NEW offset \in Offsets, Enqueue(j, offset)
      PROVE  LockInv'
  BY <1>1 DEF Enqueue
<1>2. ASSUME NEW c \in Calendars, DeleteCalendar(c)
      PROVE  LockInv'
  BY <1>2 DEF DeleteCalendar, CascadeRows
<1>3. ASSUME NEW u \in Users, DeleteAccount(u)
      PROVE  LockInv'
  BY <1>3 DEF DeleteAccount, CascadeRows
<1>4. ASSUME NEW u \in Users, ApiLock(u)
      PROVE  LockInv'
  BY <1>4, RowsAssumption DEF ApiLock
<1>5. ASSUME NEW u \in Users, ApiUnlock(u)
      PROVE  LockInv'
  BY <1>5, RowsAssumption DEF ApiUnlock
<1>6. ASSUME NEW w \in Workers, NEW j \in Jobs, ClaimSelect(w, j)
      PROVE  LockInv'
  BY <1>6 DEF ClaimSelect
<1>7. ASSUME NEW w \in Workers, ClaimCommit(w)
      PROVE  LockInv'
  BY <1>7 DEF ClaimCommit
<1>8. ASSUME NEW w \in Workers, AcquireUserLock(w)
      PROVE  LockInv'
  BY <1>8, RowsAssumption DEF AcquireUserLock, OwnerInv, Owning
<1>9. ASSUME NEW w \in Workers, CheckStatus(w)
      PROVE  LockInv'
  BY <1>9, RowsAssumption DEF CheckStatus, Leave
<1>10. ASSUME NEW w \in Workers, RevokeIntegration(w)
       PROVE  LockInv'
  BY <1>10 DEF RevokeIntegration, CascadeRows
<1>11. ASSUME NEW w \in Workers, NEW outcome \in {"complete", "fail"}, Execute(w, outcome)
       PROVE  LockInv'
  BY <1>11 DEF Execute
<1>12. ASSUME NEW w \in Workers, CompleteJob(w)
       PROVE  LockInv'
  BY <1>12 DEF CompleteJob
<1>13. ASSUME NEW w \in Workers, FailJob(w)
       PROVE  LockInv'
  BY <1>13 DEF FailJob
<1>14. ASSUME NEW w \in Workers, RecordActivity(w)
       PROVE  LockInv'
  BY <1>14, RowsAssumption DEF RecordActivity, Leave
<1>15. ASSUME NEW w \in Workers, Interrupt(w)
       PROVE  LockInv'
  BY <1>15, RowsAssumption DEF Interrupt, Leave
<1>16. CASE Tick
  BY <1>16 DEF Tick
<1>17. CASE UNCHANGED vars
  BY <1>17 DEF vars
<1>18. QED
  BY <1>1, <1>2, <1>3, <1>4, <1>5, <1>6, <1>7, <1>8, <1>9, <1>10, <1>11, <1>12, <1>13,
     <1>14, <1>15, <1>16, <1>17 DEF Next, WorkerStep

\* The clock does not go back.
LEMMA ClockStep ==
  ASSUME WorldTypes, ClockInv, [Next]_vars
  PROVE  ClockInv'
<1>1. now' = now \/ now' = now + 1
  <2>1. CASE Tick
    BY <2>1, Zenon DEF Tick
  <2>2. CASE ~Tick
    BY <2>2, Zenon DEF Next, vars, Enqueue, DeleteCalendar, DeleteAccount, ApiLock, ApiUnlock,
       WorkerStep, ClaimSelect, ClaimCommit, AcquireUserLock, CheckStatus, RevokeIntegration,
       Execute, CompleteJob, FailJob, RecordActivity, Interrupt
  <2> QED BY <2>1, <2>2
<1>2. now \in Nat
  BY DEF WorldTypes
<1> QED BY <1>1, <1>2 DEF ClockInv, NoLease

\* The claim sets the lease; complete, fail and deletion clear it.
LEMMA LeaseStep ==
  ASSUME RowTypes, WorkerTypes, WorldTypes, ClaimInv, OwnerInv, ClockInv, LeaseOnlyWhileRunning,
         [Next]_vars
  PROVE  LeaseOnlyWhileRunning'
<1>now. now \in Nat /\ now > 0
  <2>1. now \in Nat
    BY DEF WorldTypes
  <2> QED BY <2>1 DEF ClockInv, NoLease
<1> USE <1>now DEF LeaseOnlyWhileRunning, NoLease, RowTypes, rows
<1>1. ASSUME NEW j \in Jobs, NEW offset \in Offsets, Enqueue(j, offset)
      PROVE  LeaseOnlyWhileRunning'
  BY <1>1 DEF Enqueue
<1>2. ASSUME NEW c \in Calendars, DeleteCalendar(c)
      PROVE  LeaseOnlyWhileRunning'
  BY <1>2 DEF DeleteCalendar, CascadeRows
<1>3. ASSUME NEW u \in Users, DeleteAccount(u)
      PROVE  LeaseOnlyWhileRunning'
  BY <1>3 DEF DeleteAccount, CascadeRows
<1>4. ASSUME NEW u \in Users, ApiLock(u)
      PROVE  LeaseOnlyWhileRunning'
  BY <1>4 DEF ApiLock
<1>5. ASSUME NEW u \in Users, ApiUnlock(u)
      PROVE  LeaseOnlyWhileRunning'
  BY <1>5 DEF ApiUnlock
<1>6. ASSUME NEW w \in Workers, NEW j \in Jobs, ClaimSelect(w, j)
      PROVE  LeaseOnlyWhileRunning'
  BY <1>6 DEF ClaimSelect
<1>7. ASSUME NEW w \in Workers, ClaimCommit(w)
      PROVE  LeaseOnlyWhileRunning'
  BY <1>7, BoundsAssumption DEF ClaimCommit, ClaimInv
<1>8. ASSUME NEW w \in Workers, AcquireUserLock(w)
      PROVE  LeaseOnlyWhileRunning'
  BY <1>8 DEF AcquireUserLock
<1>9. ASSUME NEW w \in Workers, CheckStatus(w)
      PROVE  LeaseOnlyWhileRunning'
  BY <1>9 DEF CheckStatus, Leave
<1>10. ASSUME NEW w \in Workers, RevokeIntegration(w)
       PROVE  LeaseOnlyWhileRunning'
  BY <1>10 DEF RevokeIntegration, CascadeRows
<1>11. ASSUME NEW w \in Workers, NEW outcome \in {"complete", "fail"}, Execute(w, outcome)
       PROVE  LeaseOnlyWhileRunning'
  BY <1>11 DEF Execute
<1>12. ASSUME NEW w \in Workers, CompleteJob(w)
       PROVE  LeaseOnlyWhileRunning'
  BY <1>12 DEF CompleteJob, OwnerInv, Owning
<1>13. ASSUME NEW w \in Workers, FailJob(w)
       PROVE  LeaseOnlyWhileRunning'
  BY <1>13 DEF FailJob, OwnerInv, Owning
<1>14. ASSUME NEW w \in Workers, RecordActivity(w)
       PROVE  LeaseOnlyWhileRunning'
  BY <1>14 DEF RecordActivity, Leave
<1>15. ASSUME NEW w \in Workers, Interrupt(w)
       PROVE  LeaseOnlyWhileRunning'
  BY <1>15 DEF Interrupt, Leave
<1>16. CASE Tick
  BY <1>16 DEF Tick
<1>17. CASE UNCHANGED vars
  BY <1>17 DEF vars
<1>18. QED
  BY <1>1, <1>2, <1>3, <1>4, <1>5, <1>6, <1>7, <1>8, <1>9, <1>10, <1>11, <1>12, <1>13,
     <1>14, <1>15, <1>16, <1>17 DEF Next, WorkerStep

\* The empty queue satisfies the inductive invariant.
LEMMA InitQueueInv == Init => TypeOK /\ QueueInv
<1> SUFFICES ASSUME Init PROVE TypeOK /\ QueueInv
  OBVIOUS
<1> USE DEF Init
<1>1. RowTypes
  BY BoundsAssumption DEF RowTypes, Statuses, NoLease
<1>2. WorkerTypes
  BY BoundsAssumption DEF WorkerTypes, Places
<1>3. WorldTypes
  <2>1. interrupts \in 0..MaxInterrupts
    BY BoundsAssumption
  <2>2. QED
    BY <2>1 DEF WorldTypes
<1>4. ClaimInv /\ OwnerInv /\ ExclusiveInv /\ LockInv /\ ClockInv /\ LeaseOnlyWhileRunning
  BY DEF ClaimInv, OwnerInv, ExclusiveInv, LockInv, ClockInv, LeaseOnlyWhileRunning, Owning, Locked,
         NoLease
<1>5. QED
  BY <1>1, <1>2, <1>3, <1>4 DEF TypeOK, QueueInv

\* Every step of run_once, of a producer and of the cascades preserves it.
LEMMA NextQueueInv == TypeOK /\ QueueInv /\ [Next]_vars => (TypeOK /\ QueueInv)'
<1> SUFFICES ASSUME TypeOK, QueueInv, [Next]_vars PROVE (TypeOK /\ QueueInv)'
  OBVIOUS
<1>1. /\ RowTypes /\ WorkerTypes /\ WorldTypes
      /\ ClaimInv /\ OwnerInv /\ ExclusiveInv /\ LockInv /\ ClockInv /\ LeaseOnlyWhileRunning
  BY DEF TypeOK, QueueInv
<1>2. (RowTypes /\ WorkerTypes /\ WorldTypes)'
  BY <1>1, RowTypesStep, WorkerTypesStep, WorldTypesStep
<1>3. (ClaimInv /\ OwnerInv /\ ExclusiveInv /\ LockInv)'
  BY <1>1, ClaimInvStep, OwnerInvStep, ExclusiveInvStep, LockInvStep
<1>4. (ClockInv /\ LeaseOnlyWhileRunning)'
  BY <1>1, ClockStep, LeaseStep
<1>5. QED
  BY <1>2, <1>3, <1>4 DEF TypeOK, QueueInv

\* The inductive invariant holds throughout: a row locked by its claim stays claimable,
\* a claimed row is owned by one worker of run_once, and a worker past the advisory
\* lock holds it.
THEOREM QueueInvariant == Spec => [](TypeOK /\ QueueInv)
<1>1. QED
  BY InitQueueInv, NextQueueInv, PTL DEF Spec

\* Rows, workers and locks keep their types; in particular attempt_count never
\* exceeds the limit that claim_sync_job tests.
THEOREM TypeCorrect == Spec => []TypeOK
<1>1. QED
  BY QueueInvariant, PTL

\* The advisory lock of run_once serializes the executions of a user: no two workers are
\* past it for jobs of the same user.
THEOREM ExecutionsAreSerialized == Spec => []OneExecutorPerUser
<1>1. TypeOK /\ QueueInv => OneExecutorPerUser
  BY DEF TypeOK, WorkerTypes, QueueInv, LockInv, OneExecutorPerUser
<1>2. QED
  BY <1>1, QueueInvariant, PTL

\* claim_sync_job gives a row to one worker, which keeps it until complete_sync_job or
\* fail_sync_job has written the outcome.
THEOREM ClaimIsExclusive == Spec => []JobOwnedByOneWorker
<1>1. QueueInv => JobOwnedByOneWorker
  BY DEF QueueInv, ExclusiveInv, JobOwnedByOneWorker
<1>2. QED
  BY <1>1, QueueInvariant, PTL

\* The attempt_count in the hands of run_once is the row's, so the backoff and the
\* activity text it computes from it are those of this attempt.
THEOREM ClaimedCountIsCurrent == Spec => []ClaimedCountAgrees
<1>1. QueueInv => ClaimedCountAgrees
  BY DEF QueueInv, OwnerInv, ClaimedCountAgrees
<1>2. QED
  BY <1>1, QueueInvariant, PTL

\* Every path out of running (complete, fail, cascade) clears the lease.
THEOREM LeaseMarksRunning == Spec => []LeaseOnlyWhileRunning
<1>1. QueueInv => LeaseOnlyWhileRunning
  BY DEF QueueInv
<1>2. QED
  BY <1>1, QueueInvariant, PTL

\* No step of a worker, a producer or a cascade touches a finished row except to delete it.
LEMMA FinishedStep ==
  ASSUME RowTypes, WorkerTypes, ClaimInv, OwnerInv, [Next]_vars, NEW j \in Jobs
  PROVE  StaysFinished(j)
<1>count. \A w \in Workers : seen[w] < MaxAttempts => seen[w] # MaxAttempts
  BY BoundsAssumption DEF WorkerTypes
<1> USE DEF StaysFinished, Exhausted, RowTypes
<1>1. ASSUME NEW i \in Jobs, NEW offset \in Offsets, Enqueue(i, offset)
      PROVE  StaysFinished(j)
  BY <1>1 DEF Enqueue
<1>2. ASSUME NEW c \in Calendars, DeleteCalendar(c)
      PROVE  StaysFinished(j)
  BY <1>2 DEF DeleteCalendar, CascadeRows
<1>3. ASSUME NEW u \in Users, DeleteAccount(u)
      PROVE  StaysFinished(j)
  BY <1>3 DEF DeleteAccount, CascadeRows
<1>4. ASSUME NEW u \in Users, ApiLock(u)
      PROVE  StaysFinished(j)
  BY <1>4 DEF ApiLock, rows
<1>5. ASSUME NEW u \in Users, ApiUnlock(u)
      PROVE  StaysFinished(j)
  BY <1>5 DEF ApiUnlock, rows
<1>6. ASSUME NEW w \in Workers, NEW i \in Jobs, ClaimSelect(w, i)
      PROVE  StaysFinished(j)
  BY <1>6 DEF ClaimSelect, rows
<1>7. ASSUME NEW w \in Workers, ClaimCommit(w)
      PROVE  StaysFinished(j)
  BY <1>7, <1>count DEF ClaimCommit, ClaimInv
<1>8. ASSUME NEW w \in Workers, AcquireUserLock(w)
      PROVE  StaysFinished(j)
  BY <1>8 DEF AcquireUserLock, rows
<1>9. ASSUME NEW w \in Workers, CheckStatus(w)
      PROVE  StaysFinished(j)
  BY <1>9 DEF CheckStatus, rows
<1>10. ASSUME NEW w \in Workers, RevokeIntegration(w)
       PROVE  StaysFinished(j)
  BY <1>10 DEF RevokeIntegration, CascadeRows
<1>11. ASSUME NEW w \in Workers, NEW outcome \in {"complete", "fail"}, Execute(w, outcome)
       PROVE  StaysFinished(j)
  BY <1>11 DEF Execute, rows
<1>12. ASSUME NEW w \in Workers, CompleteJob(w)
       PROVE  StaysFinished(j)
  BY <1>12, <1>count DEF CompleteJob, OwnerInv, Owning
<1>13. ASSUME NEW w \in Workers, FailJob(w)
       PROVE  StaysFinished(j)
  BY <1>13, <1>count DEF FailJob, OwnerInv, Owning
<1>14. ASSUME NEW w \in Workers, RecordActivity(w)
       PROVE  StaysFinished(j)
  BY <1>14 DEF RecordActivity, rows
<1>15. ASSUME NEW w \in Workers, Interrupt(w)
       PROVE  StaysFinished(j)
  BY <1>15 DEF Interrupt, rows
<1>16. CASE Tick
  BY <1>16 DEF Tick, rows
<1>17. CASE UNCHANGED vars
  BY <1>17 DEF vars, rows
<1>18. QED
  BY <1>1, <1>2, <1>3, <1>4, <1>5, <1>6, <1>7, <1>8, <1>9, <1>10, <1>11, <1>12, <1>13,
     <1>14, <1>15, <1>16, <1>17 DEF Next, WorkerStep

\* A succeeded or exhausted job is final: enqueue_sync's ON CONFLICT leaves it alone and
\* claim_sync_job no longer selects it.
THEOREM FinishedJobsAreFinal == Spec => FinishedIsFinal
<1>1. TypeOK /\ QueueInv /\ [Next]_vars => [\A j \in Jobs : StaysFinished(j)]_vars
  BY FinishedStep DEF TypeOK, QueueInv
<1>2. QED
  BY <1>1, QueueInvariant, PTL DEF Spec, FinishedIsFinal

-----------------------------------------------------------------------------
(* The activity history.                                                   *)

\* Neither selecting nor deleting a row changes attempt_count, and a row that a worker
\* owns is not claimed by another.
LEMMA CountStep ==
  ASSUME RowTypes, WorkerTypes, ClaimInv, OwnerInv, ExclusiveInv, CountInv, [Next]_vars
  PROVE  CountInv'
<1> USE DEF CountInv, RowTypes, WorkerTypes, Owning
<1>1. ASSUME NEW w \in Workers, NEW j \in Jobs, ClaimSelect(w, j)
      PROVE  CountInv'
  BY <1>1 DEF ClaimSelect, rows
<1>2. ASSUME NEW w \in Workers, ClaimCommit(w)
      PROVE  CountInv'
  BY <1>2 DEF ClaimCommit, ClaimInv, ExclusiveInv
<1>3. ASSUME NEW w \in Workers, AcquireUserLock(w) \/ CompleteJob(w) \/ FailJob(w)
      PROVE  CountInv'
  BY <1>3 DEF AcquireUserLock, CompleteJob, FailJob, rows
<1>4. ASSUME NEW w \in Workers, NEW outcome \in {"complete", "fail"}, Execute(w, outcome)
      PROVE  CountInv'
  BY <1>4 DEF Execute, rows
<1>5. ASSUME NEW w \in Workers, CheckStatus(w)
      PROVE  CountInv'
  BY <1>5 DEF CheckStatus, Leave, rows
<1>6. ASSUME NEW w \in Workers, RecordActivity(w) \/ Interrupt(w)
      PROVE  CountInv'
  BY <1>6 DEF RecordActivity, Interrupt, Leave, rows
<1>7. CASE UNCHANGED <<attempt, pc, job, seen>>
  BY <1>7
<1>8. ASSUME NEW w \in Workers, RevokeIntegration(w)
      PROVE  CountInv'
  BY <1>8 DEF RevokeIntegration, CascadeRows, workerVars
<1>9. QED
  BY <1>1, <1>2, <1>3, <1>4, <1>5, <1>6, <1>7, <1>8 DEF Next, WorkerStep, Enqueue, DeleteCalendar,
     DeleteAccount, CascadeRows, ApiLock, ApiUnlock, Tick, vars, rows, workerVars

\* A stored outcome stays what the worker holds until the worker has told it: only the
\* holder of the user's lock stores outcomes.
LEMMA OutcomeStep ==
  ASSUME RowTypes, WorkerTypes, ClaimInv, OwnerInv, LockInv, CountInv, OutcomeInv, [Next]_vars
  PROVE  OutcomeInv'
<1>count. \A w \in Workers : seen[w] < MaxAttempts => seen[w] # MaxAttempts
  BY BoundsAssumption DEF WorkerTypes
<1> USE DEF OutcomeInv, RowTypes, WorkerTypes
<1>1. ASSUME NEW j \in Jobs, NEW offset \in Offsets, Enqueue(j, offset)
      PROVE  OutcomeInv'
  BY <1>1 DEF Enqueue, workerVars
<1>2. ASSUME NEW S \in SUBSET Jobs, CascadeRows(S), UNCHANGED workerVars
      PROVE  OutcomeInv'
  BY <1>2 DEF CascadeRows, workerVars, LockInv, Locked
<1>3. ASSUME NEW w \in Workers, NEW j \in Jobs, ClaimSelect(w, j)
      PROVE  OutcomeInv'
  BY <1>3 DEF ClaimSelect, rows
<1>4. ASSUME NEW w \in Workers, ClaimCommit(w)
      PROVE  OutcomeInv'
  BY <1>4, <1>count DEF ClaimCommit, ClaimInv
<1>5. ASSUME NEW w \in Workers, AcquireUserLock(w)
      PROVE  OutcomeInv'
  BY <1>5 DEF AcquireUserLock, rows
<1>6. ASSUME NEW w \in Workers, NEW outcome \in {"complete", "fail"}, Execute(w, outcome)
      PROVE  OutcomeInv'
  BY <1>6 DEF Execute, rows
<1>7. ASSUME NEW w \in Workers, CheckStatus(w)
      PROVE  OutcomeInv'
  BY <1>7 DEF CheckStatus, Leave, rows
<1>8. ASSUME NEW w \in Workers, RecordActivity(w) \/ Interrupt(w)
      PROVE  OutcomeInv'
  BY <1>8 DEF RecordActivity, Interrupt, Leave, rows
<1>alone. ASSUME NEW w \in Workers, pc[w] \in {"complete", "fail"}, NEW v \in Workers,
                 pc[v] \in {"succeeded", "failed"}
          PROVE  job[v] # job[w]
  BY <1>alone DEF LockInv, Locked
<1>9. ASSUME NEW w \in Workers, CompleteJob(w)
      PROVE  OutcomeInv'
  BY <1>9, <1>alone DEF CompleteJob, OwnerInv, Owning
<1>10. ASSUME NEW w \in Workers, FailJob(w)
       PROVE  OutcomeInv'
  BY <1>10, <1>alone, BoundsAssumption DEF FailJob, OwnerInv, CountInv, Owning
<1>11. CASE UNCHANGED <<status, attempt, pc, job, seen>>
  BY <1>11
<1>12. ASSUME NEW w \in Workers, RevokeIntegration(w)
       PROVE  OutcomeInv'
  BY <1>12, <1>2 DEF RevokeIntegration, RowsOfUser
<1>13. QED
  BY <1>1, <1>2, <1>3, <1>4, <1>5, <1>6, <1>7, <1>8, <1>9, <1>10, <1>11, <1>12
  DEF Next, WorkerStep, DeleteCalendar, DeleteAccount, RowsOfCalendar, RowsOfUser, ApiLock,
      ApiUnlock, Tick, vars, rows, workerVars

\* The cascade of an account's deletion takes all its rows, and no row returns.
LEMMA AccountStep ==
  ASSUME RowTypes, ClaimInv, OwnerInv, AccountInv, [Next]_vars
  PROVE  AccountInv'
<1> USE DEF AccountInv, RowTypes
<1>1. ASSUME NEW j \in Jobs, NEW offset \in Offsets, Enqueue(j, offset)
      PROVE  AccountInv'
  BY <1>1 DEF Enqueue, world
<1>2. ASSUME NEW c \in Calendars, DeleteCalendar(c)
      PROVE  AccountInv'
  BY <1>2 DEF DeleteCalendar, CascadeRows
<1>3. ASSUME NEW u \in Users, DeleteAccount(u)
      PROVE  AccountInv'
  BY <1>3 DEF DeleteAccount, CascadeRows, RowsOfUser
<1>4. ASSUME NEW w \in Workers, ClaimCommit(w)
      PROVE  AccountInv'
  BY <1>4 DEF ClaimCommit, ClaimInv, world
<1>5. ASSUME NEW w \in Workers, RevokeIntegration(w)
      PROVE  AccountInv'
  BY <1>5 DEF RevokeIntegration, CascadeRows
<1>6. ASSUME NEW w \in Workers, CompleteJob(w) \/ FailJob(w)
      PROVE  AccountInv'
  BY <1>6 DEF CompleteJob, FailJob, OwnerInv, Owning, world
<1>7. CASE UNCHANGED <<status, accounts>>
  BY <1>7
<1>8. QED
  BY <1>1, <1>2, <1>3, <1>4, <1>5, <1>6, <1>7 DEF Next, WorkerStep, ApiLock, ApiUnlock,
     ClaimSelect, AcquireUserLock, CheckStatus, Execute, RecordActivity, Interrupt, Tick, vars,
     rows, world

\* An entry about a job stays true: the row it speaks of is finished, or its retry is due.
LEMMA TruthStep ==
  ASSUME TypeOK, QueueInv, CountInv, OutcomeInv, AccountInv, ActivityTellsTheTruth, [Next]_vars
  PROVE  ActivityTellsTheTruth'
<1>types. /\ status \in [Jobs -> Statuses] /\ attempt \in [Jobs -> 0..MaxAttempts]
          /\ told \in [Jobs -> {"nothing", "succeeded", "retry", "final"}]
          /\ pc \in [Workers -> Places] /\ seen \in [Workers -> 0..MaxAttempts]
          /\ interrupts \in Nat /\ MaxAttempts \in Nat
          /\ job \in [Workers -> Jobs \cup {NoJob}]
  BY BoundsAssumption DEF TypeOK, RowTypes, WorkerTypes, WorldTypes
<1>inv. ClaimInv /\ OwnerInv /\ LockInv
  BY DEF QueueInv
<1> DEFINE Teller(j) == \E w \in Workers : pc[w] = "failed" /\ job[w] = j
           Truth(j) ==
              /\ told[j] = "final" => status[j] \in {"failed", "deleted"} /\ attempt[j] = MaxAttempts
              /\ told[j] = "succeeded" => status[j] \in {"succeeded", "deleted"}
              /\ told[j] = "retry" /\ Exhausted(j) => interrupts > 0 \/ Teller(j)
<1>truth. ASSUME NEW j \in Jobs PROVE Truth(j)
  BY DEF ActivityTellsTheTruth
<1> SUFFICES ASSUME NEW j \in Jobs PROVE Truth(j)'
  BY DEF ActivityTellsTheTruth
<1>rows. ASSUME told' = told, interrupts' = interrupts,
                status'[j] = status[j] \/ status'[j] = "deleted",
                attempt'[j] = attempt[j], Teller(j) => Teller(j)'
         PROVE  Truth(j)'
  BY <1>rows, <1>truth DEF Exhausted
<1>1. ASSUME NEW i \in Jobs, NEW offset \in Offsets, Enqueue(i, offset)
      PROVE  Truth(j)'
  <2>1. CASE i = j
    BY <1>1, <2>1, <1>truth, <1>types DEF Enqueue, Exhausted
  <2>2. CASE i # j
    BY <1>1, <2>2, <1>rows, <1>types DEF Enqueue, workerVars
  <2> QED BY <2>1, <2>2
<1>2. ASSUME NEW S \in SUBSET Jobs, CascadeRows(S), UNCHANGED <<workerVars, told, interrupts>>
      PROVE  Truth(j)'
  BY <1>2, <1>rows, <1>types DEF CascadeRows, workerVars
<1>3. ASSUME NEW w \in Workers, NEW i \in Jobs, ClaimSelect(w, i)
      PROVE  Truth(j)'
  BY <1>3, <1>rows, <1>types DEF ClaimSelect, rows
<1>4. ASSUME NEW w \in Workers, ClaimCommit(w)
      PROVE  Truth(j)'
  <2>1. CASE job[w] = j
    <3>1. status'[j] = "running" /\ told'[j] = told[j]
      BY <1>4, <2>1, <1>types DEF ClaimCommit
    <3>2. status[j] \in {"pending", "failed"} /\ attempt[j] # MaxAttempts
      BY <1>4, <2>1, <1>inv, <1>types DEF ClaimCommit, ClaimInv
    <3> QED BY <3>1, <3>2, <1>truth DEF Exhausted
  <2>2. CASE job[w] # j
    BY <1>4, <2>2, <1>rows, <1>types DEF ClaimCommit
  <2> QED BY <2>1, <2>2
<1>5. ASSUME NEW w \in Workers, AcquireUserLock(w)
      PROVE  Truth(j)'
  BY <1>5, <1>rows, <1>types DEF AcquireUserLock, rows
<1>6. ASSUME NEW w \in Workers, NEW outcome \in {"complete", "fail"}, Execute(w, outcome)
      PROVE  Truth(j)'
  BY <1>6, <1>rows, <1>types DEF Execute, rows
<1>7. ASSUME NEW w \in Workers, CheckStatus(w)
      PROVE  Truth(j)'
  <2>1. Teller(j) => Teller(j)'
    BY <1>7, <1>types DEF CheckStatus, Leave
  <2> QED BY <2>1, <1>7, <1>rows DEF CheckStatus, rows
<1>8. ASSUME NEW w \in Workers, CompleteJob(w)
      PROVE  Truth(j)'
  <2>1. CASE job[w] = j
    <3>1. status[j] \in {"running", "deleted"}
      BY <1>8, <2>1, <1>inv DEF CompleteJob, OwnerInv, Owning
    <3>2. status'[j] = (IF status[j] = "deleted" THEN "deleted" ELSE "succeeded")
          /\ told' = told /\ attempt' = attempt
      BY <1>8, <2>1, <1>types DEF CompleteJob
    <3> QED BY <3>1, <3>2, <1>truth DEF Exhausted
  <2>2. CASE job[w] # j
    BY <1>8, <2>2, <1>rows, <1>types DEF CompleteJob
  <2> QED BY <2>1, <2>2
<1>9. ASSUME NEW w \in Workers, FailJob(w)
      PROVE  Truth(j)'
  <2>1. CASE job[w] = j
    <3>1. status[j] \in {"running", "deleted"}
      BY <1>9, <2>1, <1>inv DEF FailJob, OwnerInv, Owning
    <3>2. /\ status'[j] = (IF status[j] = "deleted" THEN "deleted" ELSE "failed")
          /\ told' = told /\ attempt' = attempt
      BY <1>9, <2>1, <1>types DEF FailJob
    <3>3. Teller(j)'
      BY <1>9, <2>1, <1>types DEF FailJob
    <3> QED BY <3>1, <3>2, <3>3, <1>truth DEF Exhausted
  <2>2. CASE job[w] # j
    BY <1>9, <2>2, <1>rows, <1>types DEF FailJob
  <2> QED BY <2>1, <2>2
<1>10. ASSUME NEW w \in Workers, RecordActivity(w)
       PROVE  Truth(j)'
  <2>1. /\ status' = status /\ attempt' = attempt /\ interrupts' = interrupts
        /\ pc[w] \in {"succeeded", "failed"} /\ job[w] \in Jobs
    BY <1>10, <1>inv DEF RecordActivity, rows, LockInv, Locked
  <2>2. \A v \in Workers : v # w => pc'[v] = pc[v] /\ job'[v] = job[v]
    BY <1>10, <1>types DEF RecordActivity, Leave
  <2>3. CASE job[w] # j
    <3>1. told'[j] = told[j]
      BY <1>10, <2>3, <1>types DEF RecordActivity
    <3>2. Teller(j) => Teller(j)'
      BY <2>2, <2>3
    <3> QED BY <2>1, <3>1, <3>2, <1>truth DEF Exhausted
  <2>4. CASE job[w] = j /\ Owner[j] \notin accounts
    <3>1. status[j] \in {"absent", "deleted"} /\ told' = told
      BY <1>10, <2>4 DEF RecordActivity, AccountInv
    <3> QED BY <2>1, <3>1, <1>truth DEF Exhausted
  <2>5. CASE job[w] = j /\ Owner[j] \in accounts
    <3>1. told'[j] = Message(w)
      BY <1>10, <2>5, <1>types DEF RecordActivity
    <3>2. CASE pc[w] = "succeeded"
      BY <2>1, <2>5, <3>1, <3>2 DEF Message, OutcomeInv
    <3>3. CASE pc[w] = "failed" /\ seen[w] + 1 < MaxAttempts
      <4>1. Message(w) = "retry"
        BY <3>3 DEF Message
      <4>2. ~Exhausted(j)
        <5>1. status[j] = "failed" => attempt[j] = seen[w] + 1
          BY <2>5, <3>3 DEF OutcomeInv
        <5>2. seen[w] + 1 # MaxAttempts
          BY <3>3, <1>types
        <5> QED BY <5>1, <5>2 DEF Exhausted
      <4> QED BY <2>1, <3>1, <4>1, <4>2 DEF Exhausted
    <3>4. CASE pc[w] = "failed" /\ ~(seen[w] + 1 < MaxAttempts)
      <4>1. seen[w] + 1 = MaxAttempts
        <5>1. seen[w] < MaxAttempts
          BY <3>4 DEF OutcomeInv
        <5> QED BY <5>1, <3>4, <1>types
      <4>2. status[j] \in {"failed", "deleted"} /\ attempt[j] = MaxAttempts
        BY <2>5, <3>4, <4>1 DEF OutcomeInv
      <4>3. Message(w) = "final"
        BY <3>4 DEF Message
      <4> QED BY <2>1, <3>1, <4>2, <4>3
    <3> QED BY <2>1, <3>2, <3>3, <3>4
  <2> QED BY <2>3, <2>4, <2>5
<1>11. ASSUME NEW w \in Workers, Interrupt(w)
       PROVE  Truth(j)'
  <2>1. interrupts' > 0
    BY <1>11, <1>types DEF Interrupt
  <2>2. status' = status /\ attempt' = attempt /\ told' = told
    BY <1>11 DEF Interrupt, rows
  <2> QED BY <2>1, <2>2, <1>truth DEF Exhausted
<1>12. CASE UNCHANGED <<status, attempt, pc, job, told, interrupts>>
  BY <1>12, <1>rows
<1>13. ASSUME NEW w \in Workers, RevokeIntegration(w)
       PROVE  Truth(j)'
  BY <1>13, <1>2 DEF RevokeIntegration, RowsOfUser
<1> HIDE DEF Truth
<1>14. QED
  BY <1>1, <1>2, <1>3, <1>4, <1>5, <1>6, <1>7, <1>8, <1>9, <1>10, <1>11, <1>12, <1>13
  DEF Next, WorkerStep, DeleteCalendar, DeleteAccount, RowsOfCalendar, RowsOfUser, ApiLock,
      ApiUnlock, Tick, vars, rows, workerVars

\* What record_activity last wrote about a job stays true of its row, although it is
\* written after the outcome is stored and from a count that was read before the claim.
THEOREM HistoryIsTrue == Spec => []ActivityTellsTheTruth
<1>1. Init => HistoryInv
  BY BoundsAssumption DEF Init, HistoryInv, CountInv, OutcomeInv, AccountInv, ActivityTellsTheTruth, Owning
<1>2. TypeOK /\ QueueInv /\ HistoryInv /\ [Next]_vars => HistoryInv'
  BY CountStep, OutcomeStep, AccountStep, TruthStep DEF TypeOK, QueueInv, HistoryInv
<1>3. HistoryInv => ActivityTellsTheTruth
  BY DEF HistoryInv
<1>4. QED
  BY <1>1, <1>2, <1>3, QueueInvariant, PTL DEF Spec
=============================================================================
