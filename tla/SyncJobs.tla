------------------------------ MODULE SyncJobs ------------------------------
(***************************************************************************)
(* The durable synchronization queue: the sync_jobs table, the workers     *)
(* that run SyncService::run_once (the API's dispatcher, the worker        *)
(* trigger endpoint and the worker binary are all such workers), and the   *)
(* per-user advisory lock "prosepect-sync:{user}" under which a job is     *)
(* executed.  Every database statement or short transaction of run_once is *)
(* a step of its own, so workers, users and failures meet between any two. *)
(***************************************************************************)
EXTENDS Naturals, FiniteSets

CONSTANTS
    Jobs,           \* identities of sync_jobs rows (one idempotency key each)
    Workers,        \* concurrent callers of run_once
    Users,
    Calendars,      \* Google calendars
    NoCalendar,     \* calendar_id IS NULL
    Owner,          \* [Jobs -> Users]
    CalendarOf,     \* [Jobs -> Calendars \cup {NoCalendar}]
    RevokeJobs,     \* jobs of kind credential_revoke
    Offsets,        \* how far in the future a producer may set available_at
    MaxAttempts,    \* 8 in the code
    LeaseTime,      \* two minutes in the code
    Delay,          \* retry delay by attempt, BackoffSeconds in the code
    MaxInterrupts   \* bound: crashes, cancellations and database errors

NoJob == "no job"
Free == "free"
Api == "api request"
NoLease == 0

ASSUME RowsAssumption ==
    /\ NoCalendar \notin Calendars
    /\ Owner \in [Jobs -> Users]
    /\ CalendarOf \in [Jobs -> Calendars \cup {NoCalendar}]
    /\ RevokeJobs \subseteq {j \in Jobs : CalendarOf[j] = NoCalendar}

ASSUME BoundsAssumption ==
    /\ Offsets \subseteq Nat
    /\ MaxAttempts \in Nat \ {0}
    /\ LeaseTime \in Nat
    /\ Delay \in [1..MaxAttempts -> Nat]
    /\ MaxInterrupts \in Nat

ASSUME DistinctAssumption ==
    /\ NoJob \notin Jobs
    /\ Free \notin Workers /\ Api \notin Workers

VARIABLES
    now,            \* PostgreSQL's clock, in seconds
    status, attempt, available, created, lease,   \* the sync_jobs rows
    calendars,      \* calendars that exist
    accounts,       \* users that exist
    syncLock,       \* holder of each user's advisory lock
    pc, job, seen,  \* per worker: place in run_once, claimed job, its attempt_count
    told,           \* last activity entry that run_once recorded about a job
    interrupts      \* interruptions so far

rows == <<status, attempt, available, created, lease>>
workerVars == <<pc, job, seen>>
world == <<calendars, accounts>>
vars == <<now, rows, world, syncLock, workerVars, told, interrupts>>

Statuses == {"absent", "pending", "running", "succeeded", "failed", "deleted"}
Places == {"idle", "claim", "lock", "check", "execute", "complete", "fail",
           "succeeded", "failed"}

\* The places at which a worker owns its claimed row.
Owning == {"lock", "check", "execute", "complete", "fail"}
\* The places at which a worker holds its user's advisory lock.
Locked == {"check", "execute", "complete", "fail", "succeeded", "failed"}

RowTypes ==
    /\ status \in [Jobs -> Statuses]
    /\ attempt \in [Jobs -> 0..MaxAttempts]
    /\ available \in [Jobs -> Nat]
    /\ created \in [Jobs -> Nat]
    /\ lease \in [Jobs -> Nat]

WorkerTypes ==
    /\ pc \in [Workers -> Places]
    /\ job \in [Workers -> Jobs \cup {NoJob}]
    /\ seen \in [Workers -> 0..MaxAttempts]

WorldTypes ==
    /\ now \in Nat
    /\ calendars \subseteq Calendars
    /\ accounts \subseteq Users
    /\ syncLock \in [Users -> Workers \cup {Free, Api}]
    /\ told \in [Jobs -> {"nothing", "succeeded", "retry", "final"}]
    /\ interrupts \in 0..MaxInterrupts

TypeOK == RowTypes /\ WorkerTypes /\ WorldTypes

Init ==
    /\ now = 1
    /\ status = [j \in Jobs |-> "absent"]
    /\ attempt = [j \in Jobs |-> 0]
    /\ available = [j \in Jobs |-> 0]
    /\ created = [j \in Jobs |-> 0]
    /\ lease = [j \in Jobs |-> NoLease]
    /\ calendars = Calendars
    /\ accounts = Users
    /\ syncLock = [u \in Users |-> Free]
    /\ pc = [w \in Workers |-> "idle"]
    /\ job = [w \in Workers |-> NoJob]
    /\ seen = [w \in Workers |-> 0]
    /\ told = [j \in Jobs |-> "nothing"]
    /\ interrupts = 0

-----------------------------------------------------------------------------
(* Producers and the calendars' and accounts' life cycle.                  *)

\* Retry delay of fail_sync_job: 2^attempt seconds with the exponent clamped to
\* 1..8, and at most 300.
BackoffSeconds(a) ==
    LET exponent == IF a < 1 THEN 1 ELSE IF a > 8 THEN 8 ELSE a
        seconds == 2 ^ exponent
    IN IF seconds < 300 THEN seconds ELSE 300

\* Fault for FinishedIsFinal: ON CONFLICT resets the existing row to pending.
EnqueueAgain(j, offset) ==
    /\ status[j] \in {"absent", "succeeded"}
    /\ Owner[j] \in accounts
    /\ status' = [status EXCEPT ![j] = "pending"]
    /\ available' = [available EXCEPT ![j] = now + offset]
    /\ created' = [created EXCEPT ![j] = now]
    /\ UNCHANGED <<now, attempt, lease, world, syncLock, workerVars, told, interrupts>>

\* Every producer inserts a pending row; a conflict on (user_id, idempotency_key)
\* leaves the existing row as it is, whatever its status.
Enqueue(j, offset) ==
    /\ status[j] = "absent"
    /\ Owner[j] \in accounts
    /\ CalendarOf[j] # NoCalendar => CalendarOf[j] \in calendars
    /\ status' = [status EXCEPT ![j] = "pending"]
    /\ available' = [available EXCEPT ![j] = now + offset]
    /\ created' = [created EXCEPT ![j] = now]
    /\ UNCHANGED <<now, attempt, lease, world, syncLock, workerVars, told, interrupts>>

\* A row another transaction has selected FOR UPDATE.
RowLocked(j) == \E w \in Workers : pc[w] = "claim" /\ job[w] = j

\* ON DELETE CASCADE removes the rows in S; the delete waits for locked rows.
CascadeRows(S) ==
    /\ \A j \in S : ~RowLocked(j)
    /\ status' = [j \in Jobs |-> IF j \in S /\ status[j] # "absent" THEN "deleted"
                                 ELSE status[j]]
    /\ lease' = [j \in Jobs |-> IF j \in S THEN NoLease ELSE lease[j]]
    /\ UNCHANGED <<attempt, available, created>>

RowsOfCalendar(c) == {j \in Jobs : CalendarOf[j] = c}
RowsOfUser(u) == {j \in Jobs : Owner[j] = u}

\* A user may delete any calendar that is not the default one, also while its
\* synchronization runs.
DeleteCalendar(c) ==
    /\ c \in calendars
    /\ calendars' = calendars \ {c}
    /\ CascadeRows(RowsOfCalendar(c))
    /\ UNCHANGED <<now, accounts, syncLock, workerVars, told, interrupts>>

DeleteAccount(u) ==
    /\ u \in accounts
    /\ accounts' = accounts \ {u}
    /\ calendars' = calendars \ {CalendarOf[j] : j \in RowsOfUser(u)}
    /\ CascadeRows(RowsOfUser(u))
    /\ UNCHANGED <<now, syncLock, workerVars, told, interrupts>>

\* A request transaction (deletion with Undo, calendar move, Keep Google) takes
\* the user's lock with pg_try_advisory_xact_lock and gives it up at its end.
ApiLock(u) ==
    /\ syncLock[u] = Free
    /\ syncLock' = [syncLock EXCEPT ![u] = Api]
    /\ UNCHANGED <<now, rows, world, workerVars, told, interrupts>>

ApiUnlock(u) ==
    /\ syncLock[u] = Api
    /\ syncLock' = [syncLock EXCEPT ![u] = Free]
    /\ UNCHANGED <<now, rows, world, workerVars, told, interrupts>>

-----------------------------------------------------------------------------
(* SyncService::run_once, one step per statement or transaction.           *)

\* Fault for JobOwnedByOneWorker: an expired lease makes a running row claimable.
EligibleAfterLease(j) ==
    /\ status[j] \in {"pending", "failed", "running"}
    /\ available[j] <= now
    /\ lease[j] = NoLease \/ lease[j] < now
    /\ attempt[j] < MaxAttempts

\* Fault for QueuedJobsSettle: failed jobs are not picked up again.
EligiblePending(j) ==
    /\ status[j] = "pending"
    /\ available[j] <= now
    /\ attempt[j] < MaxAttempts

\* Fault for TypeOK: the limit is tested with <=.
EligibleOnceMore(j) ==
    /\ status[j] \in {"pending", "failed"}
    /\ available[j] <= now
    /\ lease[j] = NoLease \/ lease[j] < now
    /\ attempt[j] <= MaxAttempts

\* WHERE clause of claim_sync_job.
Eligible(j) ==
    /\ status[j] \in {"pending", "failed"}
    /\ available[j] <= now
    /\ lease[j] = NoLease \/ lease[j] < now
    /\ attempt[j] < MaxAttempts

\* ORDER BY available_at, created_at.
Before(i, j) ==
    \/ available[i] < available[j]
    \/ available[i] = available[j] /\ created[i] < created[j]

\* SELECT ... LIMIT 1 FOR UPDATE SKIP LOCKED; without a row run_once returns
\* Ok(false), a step that changes nothing.
ClaimSelect(w, j) ==
    /\ pc[w] = "idle"
    /\ Eligible(j)
    /\ ~RowLocked(j)
    /\ \A i \in Jobs : Eligible(i) /\ ~RowLocked(i) => ~Before(i, j)
    /\ pc' = [pc EXCEPT ![w] = "claim"]
    /\ job' = [job EXCEPT ![w] = j]
    /\ seen' = [seen EXCEPT ![w] = attempt[j]]
    /\ UNCHANGED <<now, rows, world, syncLock, told, interrupts>>

ClaimCommit(w) ==
    LET j == job[w] IN
    /\ pc[w] = "claim"
    /\ pc' = [pc EXCEPT ![w] = "lock"]
    /\ status' = [status EXCEPT ![j] = "running"]
    /\ attempt' = [attempt EXCEPT ![j] = @ + 1]
    /\ lease' = [lease EXCEPT ![j] = now + LeaseTime]
    /\ UNCHANGED <<now, available, created, world, syncLock, job, seen, told, interrupts>>

\* Fault for OneExecutorPerUser: a failed pg_try_advisory_xact_lock is ignored.
AcquireAnyway(w) ==
    /\ pc[w] = "lock"
    /\ syncLock' = [syncLock EXCEPT ![Owner[job[w]]] = w]
    /\ pc' = [pc EXCEPT ![w] = "check"]
    /\ UNCHANGED <<now, rows, world, job, seen, told, interrupts>>

\* pg_advisory_xact_lock blocks until the user's lock is free.
AcquireUserLock(w) ==
    LET u == Owner[job[w]] IN
    /\ pc[w] = "lock"
    /\ syncLock[u] = Free
    /\ syncLock' = [syncLock EXCEPT ![u] = w]
    /\ pc' = [pc EXCEPT ![w] = "check"]
    /\ UNCHANGED <<now, rows, world, job, seen, told, interrupts>>

\* The worker leaves run_once and its lock transaction ends.
Leave(w) ==
    /\ pc' = [pc EXCEPT ![w] = "idle"]
    /\ job' = [job EXCEPT ![w] = NoJob]
    /\ seen' = [seen EXCEPT ![w] = 0]
    /\ syncLock' = [u \in Users |-> IF syncLock[u] = w THEN Free ELSE syncLock[u]]

\* Fault for ImplementsLifecycle: the status is not read again under the lock.
CheckNothing(w) ==
    /\ pc[w] = "check"
    /\ pc' = [pc EXCEPT ![w] = "execute"]
    /\ UNCHANGED <<now, rows, world, job, seen, syncLock, told, interrupts>>

\* The job may have been deleted while the worker waited for the lock.
CheckStatus(w) ==
    /\ pc[w] = "check"
    /\ \/ /\ status[job[w]] = "running"
          /\ pc' = [pc EXCEPT ![w] = "execute"]
          /\ UNCHANGED <<job, seen, syncLock>>
       \/ /\ status[job[w]] # "running"
          /\ Leave(w)
    /\ UNCHANGED <<now, rows, world, told, interrupts>>

\* revoke_google_integration: the transaction inside a credential_revoke job
\* that deletes the user's Google calendars, and with them their jobs.
RevokeIntegration(w) ==
    LET u == Owner[job[w]]
        doomed == {CalendarOf[j] : j \in RowsOfUser(u)} \cap calendars
    IN
    /\ pc[w] = "execute"
    /\ job[w] \in RevokeJobs
    /\ doomed # {}
    /\ calendars' = calendars \ doomed
    /\ CascadeRows({j \in RowsOfUser(u) : CalendarOf[j] \in doomed})
    /\ UNCHANGED <<now, accounts, syncLock, workerVars, told, interrupts>>

\* execute(&job) returns; what a synchronization does is modelled elsewhere.
Execute(w, outcome) ==
    /\ pc[w] = "execute"
    /\ pc' = [pc EXCEPT ![w] = outcome]
    /\ UNCHANGED <<now, rows, world, syncLock, job, seen, told, interrupts>>

\* UPDATE ... WHERE id = $1 of complete_sync_job: a deleted row stays deleted.
CompleteJob(w) ==
    LET j == job[w] IN
    /\ pc[w] = "complete"
    /\ pc' = [pc EXCEPT ![w] = "succeeded"]
    /\ status' = [status EXCEPT ![j] = IF @ = "deleted" THEN @ ELSE "succeeded"]
    /\ lease' = [lease EXCEPT ![j] = NoLease]
    /\ UNCHANGED <<now, attempt, available, created, world, syncLock, job, seen, told, interrupts>>

\* fail_sync_job with attempt_count + 1, the count the claim returned plus one.
FailJob(w) ==
    LET j == job[w] IN
    /\ pc[w] = "fail"
    /\ pc' = [pc EXCEPT ![w] = "failed"]
    /\ status' = [status EXCEPT ![j] = IF @ = "deleted" THEN @ ELSE "failed"]
    /\ lease' = [lease EXCEPT ![j] = NoLease]
    /\ available' = [available EXCEPT ![j] = now + Delay[seen[w] + 1]]
    /\ UNCHANGED <<now, attempt, created, world, syncLock, job, seen, told, interrupts>>

\* Fault for ActivityTellsTheTruth: the count before the claim decides the text.
MessageOffByOne(w) ==
    IF pc[w] = "succeeded" THEN "succeeded"
    ELSE IF seen[w] + 2 < MaxAttempts THEN "retry" ELSE "final"

\* The activity entry run_once writes for the outcome it holds in memory.
Message(w) ==
    IF pc[w] = "succeeded" THEN "succeeded"
    ELSE IF seen[w] + 1 < MaxAttempts THEN "retry" ELSE "final"

\* record_activity, then the awaited rollback that releases the lock.  For a
\* deleted account the insert fails and run_once ends with the error instead.
RecordActivity(w) ==
    /\ pc[w] \in {"succeeded", "failed"}
    /\ told' = IF Owner[job[w]] \in accounts THEN [told EXCEPT ![job[w]] = Message(w)]
               ELSE told
    /\ Leave(w)
    /\ UNCHANGED <<now, rows, world, interrupts>>

\* The process dies, the request future is dropped or a statement of run_once
\* fails: locks go with the connection, the row stays as it is.
Interrupt(w) ==
    /\ pc[w] # "idle"
    /\ interrupts < MaxInterrupts
    /\ interrupts' = interrupts + 1
    /\ Leave(w)
    /\ UNCHANGED <<now, rows, world, told>>

\* Time passes while some row waits for it.
Tick ==
    /\ \E j \in Jobs :
          \/ status[j] \in {"pending", "failed"} /\ attempt[j] < MaxAttempts /\ available[j] > now
          \/ status[j] = "running" /\ lease[j] >= now
    /\ now' = now + 1
    /\ UNCHANGED <<rows, world, syncLock, workerVars, told, interrupts>>

-----------------------------------------------------------------------------
WorkerStep(w) ==
    \/ \E j \in Jobs : ClaimSelect(w, j)
    \/ ClaimCommit(w)
    \/ AcquireUserLock(w)
    \/ CheckStatus(w)
    \/ RevokeIntegration(w)
    \/ \E outcome \in {"complete", "fail"} : Execute(w, outcome)
    \/ CompleteJob(w)
    \/ FailJob(w)
    \/ RecordActivity(w)

Next ==
    \/ \E j \in Jobs, offset \in Offsets : Enqueue(j, offset)
    \/ \E c \in Calendars : DeleteCalendar(c)
    \/ \E u \in Users : DeleteAccount(u) \/ ApiLock(u) \/ ApiUnlock(u)
    \/ \E w \in Workers : WorkerStep(w) \/ Interrupt(w)
    \/ Tick

Spec == Init /\ [][Next]_vars

\* Workers poll (the dispatcher every five seconds, the worker binary every
\* two), HTTP calls time out, request transactions end, and PostgreSQL serves a
\* blocked advisory lock request before later pg_try attempts.
Fairness ==
    /\ WF_vars(Tick)
    /\ \A u \in Users : WF_vars(ApiUnlock(u))
    /\ \A w \in Workers : WF_vars(WorkerStep(w)) /\ SF_vars(AcquireUserLock(w))

FairSpec == Spec /\ Fairness

-----------------------------------------------------------------------------
(* The inductive invariant behind the safety properties.                   *)

\* A selected row is still claimable when the claim commits: it is locked.
ClaimInv ==
    \A w \in Workers : pc[w] = "claim" =>
        /\ job[w] \in Jobs
        /\ status[job[w]] \in {"pending", "failed"}
        /\ attempt[job[w]] = seen[w]
        /\ seen[w] < MaxAttempts

\* A claimed row stays running, with the count the claim wrote, or is deleted.
OwnerInv ==
    \A w \in Workers : pc[w] \in Owning =>
        /\ job[w] \in Jobs
        /\ status[job[w]] \in {"running", "deleted"}
        /\ status[job[w]] = "running" => attempt[job[w]] = seen[w] + 1
        /\ seen[w] < MaxAttempts

\* A row is selected or owned by one worker.
ExclusiveInv ==
    \A v, w \in Workers :
        v # w /\ pc[v] \in Owning \cup {"claim"} /\ pc[w] \in Owning \cup {"claim"}
            => job[v] # job[w]

LockInv ==
    \A w \in Workers : pc[w] \in Locked =>
        job[w] \in Jobs /\ syncLock[Owner[job[w]]] = w

\* The count in a worker's hands is the row's, also of a row that was deleted meanwhile.
CountInv == \A w \in Workers : pc[w] \in Owning => attempt[job[w]] = seen[w] + 1

\* The outcome in the hands of a worker that has stored it and not yet told it.  A row that
\* failed may already have been claimed again, but not failed again: its lock is held.
OutcomeInv ==
    \A w \in Workers :
        /\ pc[w] = "succeeded" => status[job[w]] \in {"succeeded", "deleted"}
        /\ pc[w] = "failed" =>
              /\ seen[w] < MaxAttempts
              /\ status[job[w]] = "failed" => attempt[job[w]] = seen[w] + 1
              /\ seen[w] + 1 = MaxAttempts =>
                    status[job[w]] \in {"failed", "deleted"} /\ attempt[job[w]] = MaxAttempts

\* A deleted account has no rows.
AccountInv == \A j \in Jobs : Owner[j] \notin accounts => status[j] \in {"absent", "deleted"}

-----------------------------------------------------------------------------
(* The promise to the rest of the system, and how the queue keeps it.      *)

\* A job is being executed from the passed status check until its outcome is stored.
Executing(j) ==
    \E w \in Workers : pc[w] \in {"execute", "complete", "fail"} /\ job[w] = j

Owned(j) == \E w \in Workers : pc[w] \in Owning /\ job[w] = j

PhaseOf(j) ==
    IF Executing(j) THEN "active"
    ELSE CASE status[j] = "absent" -> "none"
           [] status[j] = "pending" -> "queued"
           [] status[j] = "failed" -> IF attempt[j] < MaxAttempts THEN "queued" ELSE "exhausted"
           [] status[j] = "running" -> IF Owned(j) THEN "reserved" ELSE "lost"
           [] status[j] = "succeeded" -> "done"
           [] status[j] = "deleted" -> "gone"

Lifecycle == INSTANCE JobLifecycle
    WITH phase <- [j \in Jobs |-> PhaseOf(j)], tries <- attempt

\* The queue implements JobLifecycle: bounded attempts, one execution per user at a
\* time, no execution of a job that was removed while its worker waited for the lock
\* (the status re-read in run_once), and none after an outcome that is final.
ImplementsLifecycle == Lifecycle!LifecycleSpec

-----------------------------------------------------------------------------
(* Properties.                                                             *)

\* No two workers are between taking the per-user lock and releasing it for the
\* same user: a user's pulls, pushes and revocation never overlap
\* (sync_service.rs, run_once).
OneExecutorPerUser ==
    \A v, w \in Workers :
        v # w /\ pc[v] \in Locked /\ pc[w] \in Locked => Owner[job[v]] # Owner[job[w]]

\* From the claim until the outcome is written a job belongs to one worker, although
\* neither complete_sync_job nor fail_sync_job names the claim they belong to.
JobOwnedByOneWorker ==
    \A v, w \in Workers :
        v # w /\ pc[v] \in Owning /\ pc[w] \in Owning => job[v] # job[w]

\* The attempt_count that the claim returned before its increment still agrees
\* with the row when the worker computes the backoff and the activity text from it.
ClaimedCountAgrees ==
    \A w \in Workers :
        pc[w] \in Owning /\ status[job[w]] = "running" =>
            attempt[job[w]] = seen[w] + 1

\* A row carries a lease exactly while it is running, so the lease test of the
\* claim never holds back a pending or failed job.
LeaseOnlyWhileRunning ==
    \A j \in Jobs : (lease[j] # NoLease) <=> (status[j] = "running")

\* No lease ends at the time that stands for none.
ClockInv == now > NoLease

QueueInv == ClaimInv /\ OwnerInv /\ ExclusiveInv /\ LockInv /\ ClockInv /\ LeaseOnlyWhileRunning

\* A failed job that the claim will never select again.
Exhausted(j) == status[j] = "failed" /\ attempt[j] = MaxAttempts

\* What the activity history last said of a job stays true of its row: after "the
\* final attempt" the job is never run again, after a success it stays succeeded, and
\* a promised retry is outdated only while the final entry is still being written or
\* because an interruption swallowed it.
ActivityTellsTheTruth ==
    \A j \in Jobs :
        /\ told[j] = "final" => status[j] \in {"failed", "deleted"} /\ attempt[j] = MaxAttempts
        /\ told[j] = "succeeded" => status[j] \in {"succeeded", "deleted"}
        /\ told[j] = "retry" /\ Exhausted(j) =>
              interrupts > 0 \/ \E w \in Workers : pc[w] = "failed" /\ job[w] = j

HistoryInv == CountInv /\ OutcomeInv /\ AccountInv /\ ActivityTellsTheTruth

\* A running row that no worker carries any more: operators must inspect it.
Orphaned(j) == status[j] = "running" /\ ~Owned(j)

\* A finished job (succeeded, or failed with no attempt left) is never run or
\* rewritten again, whatever is enqueued under its key; it can only be deleted.
StaysFinished(j) ==
    status[j] = "succeeded" \/ Exhausted(j) =>
        \/ status'[j] = status[j] /\ attempt'[j] = attempt[j] /\ lease'[j] = lease[j]
        \/ status'[j] = "deleted"
FinishedIsFinal == [][\A j \in Jobs : StaysFinished(j)]_vars

\* Every queued job is eventually settled: it succeeds, exhausts its attempts, is
\* deleted, or was stranded in running by an interruption and by nothing else (due
\* retries resume by polling).
QueuedJobsSettle ==
    \A j \in Jobs :
        status[j] = "pending" ~>
            \/ status[j] \in {"succeeded", "deleted"} \/ Exhausted(j)
            \/ Orphaned(j) /\ interrupts > 0
=============================================================================
