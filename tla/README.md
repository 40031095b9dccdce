# Verification of rakkio

rakkio (the repository is called *prosepect*) is a planner: tasks, projects, a
calendar, notes and files, kept in PostgreSQL, served by a Rust (Axum) API to a Vue
application, and synchronized in both directions with Google Calendar and Google
Tasks. This directory holds TLA+ specifications of the parts whose behaviour is hard
to test: the ones where several processes, requests, Google's own users and failures
meet between two SQL statements or two HTTP calls.

All paths below are relative to `src/`.

## 1. Inventory

| Component | State | Operations | What is hard about it | What makes it correct |
|---|---|---|---|---|
| **Synchronization queue** `apps/api/src/sync_store.rs`, `sync_service.rs` (`run_once`) | rows of `sync_jobs` (status, attempt count, `available_at`, lease), the advisory lock `prosepect-sync:{user}`, activity entries | enqueue, claim, lock, re-read the status, execute, complete, fail, record activity; deletion with a calendar, an integration or an account | several processes poll the same table; a row may vanish while its worker waits for the lock; a crash anywhere; a count read before it is incremented | a job is executed by one worker, a user's jobs never overlap, a finished job stays finished, the history tells the truth, every queued job is settled |
| **Calendar synchronization** `sync_service.rs` (`pull_calendar`, `apply_remote_event`, `push_calendar`), `sync_store.rs` (`resolve_sync_conflict`) | events, `external_event_mappings` (etag, dirty, deleted, conflict, pending resolution), `sync_conflicts`, the sync token, the policy | incremental and full pull, import, update, deletion, conflict, resolution, POST, PUT, DELETE | no transaction spans a pull or a push: user edits and failures meet every statement; If-Match; 410 Gone; lost answers | both sides converge, nothing is overwritten unseen, no copies, the token never passes an unapplied change |
| **Calendars and events** `calendar_store.rs` | calendars, events, time blocks of tasks | create, update, move, delete, time block of a scheduled task | they mark mappings while a job runs | their marks reach Google exactly once |
| **Reversible task deletion** `task_delete_store.rs`, `migrations/0021_task_delete_undo.sql` | receipts with snapshots, guard revisions, held tombstones | delete, repair of legacy mappings, Undo, expiry, cleanup, Keep Google | validation against Google outside any transaction; a deadline; a job that meets a held deletion | Undo restores the last deletion once and completely or refuses; a held event is not erased; nothing comes back by itself |
| **Calendar move with Undo** `calendar_move_store.rs`, `calendar_move_routes.rs` | receipts with the schedule before the move, the versions after it and a guard of the mapping | move an event or a task, Undo, expiry, a limit of receipts | its row locks come in another order than everybody else's; a job holds the user's lock during HTTP calls; an edit, a pull or a remapping between move and Undo | no deadlock, Undo reverts its own move or refuses, a move is not lost to a running push |
| **Google Tasks synchronization** `google_tasks_sync.rs`, `google_tasks_store.rs`, `google_tasks.rs`, `google_tasks_client.rs` | links (phase, reference, etag, base fields, conflict, choice), the connection with its cursors and revision | listing, batches of links, three-way merge, creation with a reference, PATCH with If-Match, import, conflicts, detaching | a listing is old when it is used; a lost answer to a creation; partial scans with cursors; edits behind the cursor | one copy of a task, no edit overwritten unseen, nothing left behind, agreement when edits stop |
| **Watch channels** `sync_service.rs` (`watch_calendar`, `discover_calendars`, `revoke`), `sync_store.rs`, `sync_routes.rs` | `google_watch_channels`, one row for a calendar; channels in Google | open, store, replace, stop, renew, notification, discovery, selection, revocation | two channels overlap while one is replaced and the messages of either may be refused; a renewal is asked for once in six hours; the stop call is not a transaction | every change in Google is noticed, a channel does not run out, none is left open |
| **Dispatcher and worker** `sync_dispatcher.rs`, `bin/worker.rs` | wake channel, poll timers | wake, drain 32 jobs, shutdown, periodic work | lost wake-ups, starvation | due jobs are found |
| **Tasks, projects, recurrence** `store.rs`, `task_recurrence.rs` | tasks with versions, parents, projects, recurrence source | create, update, complete, reorder, delete | concurrent changes of the subtask graph; one successor per completion | no cycles, no double successor |
| **Daily review and focus** `daily_review_store.rs` | reviews, focus rows | start, complete, replace focus | revisions guarded by Undo | a review moves every unfinished task once |
| **Files** `file_store.rs`, `file_storage.rs` | metadata rows, S3 objects | upload, download, delete | two stores, no common transaction | no row without object |
| **Notes** `note_store.rs` | notes with versions | create, update, delete | single-row edits | — |
| **Sessions and sign-in** `auth.rs`, `google_auth.rs`, `google_oidc.rs` | sessions, login attempts | start, callback, logout | expiry, single use | an attempt is used once by its own browser |
| **Limits** `rate_limit.rs`, `request_limits.rs` | windows, semaphores | acquire, release | counters at their limit | never more than the limit |
| **Account export, import, deletion** `export_store.rs` | — | export, delete account | cascades while jobs run | — |
| **Web application** `apps/web/src/stores/workspace.ts` | cached lists, refresh generation | load, refresh, optimistic updates | answers out of order | an old answer never replaces a newer one |
| **HTTP plumbing, configuration, operations** `app.rs`, `routes.rs`, `config.rs`, `operations.rs` | — | routing, validation, read-only aggregates | — | — |

How they interact: requests change tasks and events in one transaction, mark the
mapping of a synchronized event in it, and insert a `sync_jobs` row. The dispatcher of
every API process, the trigger endpoint and the worker binary call
`SyncService::run_once`, which claims a row and executes it under the user's advisory
lock, statement by statement, with HTTP calls in between. Ordinary event requests do not
take that lock and meet a running job; the Undo features and Keep Google take it
with `pg_try_advisory_xact_lock` and refuse when a job runs. Webhooks enqueue jobs.

## 2. Modules

| Module | Models | Depends on |
|---|---|---|
| `JobLifecycle` | the abstract promise of the queue: the life of each job | — |
| `SyncJobs` | `sync_jobs`, `run_once`, the advisory lock, interruptions | instantiates `JobLifecycle` |
| `SyncJobsProofs` | theorems about `SyncJobs` | extends `SyncJobs`, `TLAPS` |
| `SyncJobsRefinement` | that `SyncJobs` implements `JobLifecycle` | extends `SyncJobsProofs` |
| `CalendarSync` | one Google calendar: pull, conflicts, push, user requests, Google | — |
| `CalendarSyncProofs` | theorems about `CalendarSync` | extends `CalendarSync`, `TLAPS` |
| `TaskDeleteUndo` | receipts, tombstones, Undo, Keep Google, jobs that meet them | — |
| `TaskDeleteUndoProofs` | theorems about `TaskDeleteUndo` | extends `TaskDeleteUndo`, `TLAPS` |
| `TaskGraph` | the task table: subtasks, projects, series of repeating tasks, imports, receipts | — |
| `TaskGraphProofs` | theorems about `TaskGraph` | extends `TaskGraph`, `TLAPS` |
| `GoogleTasks` | tasks and their copies in one Google list: scan, links, merge, import | — |
| `GoogleTasksProofs` | theorems about `GoogleTasks` | extends `GoogleTasks`, `TLAPS` |
| `CalendarMoveUndo` | moves and their Undo, lock by lock, among the other transactions | — |
| `CalendarMoveUndoProofs` | theorems about `CalendarMoveUndo` | extends `CalendarMoveUndo`, `TLAPS` |
| `GoogleWatch` | watch channels, notifications, discovery, selection, revocation | — |
| `GoogleWatchProofs` | theorems about `GoogleWatch` | extends `GoogleWatch`, `TLAPS` |
| `MC…` | instances for TLC: functions for constants, symmetry sets | |

`PROJECT.json` maps every definition to the lines it models. Definitions whose comment
begins with *Fault* are not part of a specification: they are plausible
mistakes in the code, kept next to the definition they would replace, which show that
a property notices them.

### SyncJobs

A row of `sync_jobs` is a job with `status`, `attempt`, `available`, `created` and `lease`.
`absent` is a key never enqueued, `deleted` a row gone with its calendar, integration or
account. A worker (any caller of `run_once`) is at one of nine places; one step is
one statement or one short transaction: `ClaimSelect` (the `SELECT … FOR UPDATE SKIP
LOCKED`), `ClaimCommit`, `AcquireUserLock` (blocking), `CheckStatus` (the re-read),
`RevokeIntegration` and `Execute`, `CompleteJob` or `FailJob`, `RecordActivity`.
`seen` is the `attempt_count` the claim returned, which is the value *before* its
increment and from which `run_once` computes the backoff and the activity text.
`Interrupt` is a crash, a dropped request future or a failed statement at any place:
the locks vanish with the connection, the row stays. `ApiLock` and `ApiUnlock` are the
requests that hold the same lock. What a job does to the calendar is not in this
module; `Execute` succeeds or fails.

### CalendarSync

Because `SyncJobs` shows that a user's jobs never overlap, there is one synchronizing
process. Google and the database are indexed by event ids; content is the number of the
edit that wrote it, so two equal numbers are copies of one edit. Every SQL statement and
HTTP call of `pull_calendar`, `apply_remote_event` and `push_calendar` is a step, with
what it read before kept in `cur`, `inbox` and `work`. The user's requests are one
step each, as they are one transaction. `Accepts` is Google's If-Match, `Insertable`
the unique constraints and foreign keys of `external_event_mappings`. `Fault` ends a job
after any step.

`Operations` says which requests and changes happen, `BusyOperations` which of them may
also arrive during a job; the runs use them to separate what holds always from what
holds between jobs (section 4).

### TaskDeleteUndo

`version[t]` is a task row (0: none), `event[t]` its time block (`block`), nothing, or the
event of a deleted task that came back unlinked (`plain`). A receipt keeps what Undo
compares: the task's version, the revision of everything guarded (`deps` stands for
projects, parents, successors, files, the preferred calendar and the Google account),
the focus revision, and the mapping. `DeleteTask` is the whole transaction: receipt,
tombstone with its hold, deletion with its cascades, and the receipt's revisions read
again. A mapping with a fingerprint of an older release goes through `PrepareDelete`,
`Validate` and `CommitDelete`. Undo is `ReadReceipt`, `Validate` (a GET with no
transaction open) and `CommitUndo`, which repeats every test. Jobs hold the lock from
`StartJob` to `EndJob`; their treatment of tombstones is statement by statement,
ordinary changes are applied in one step under the policy `google`, since their detail is
`CalendarSync`'s subject. Google may forget cancelled events of deleted tasks, which is
what `reconcile_deleted_task_resolution` is for. `erased` and `touched` are history:
deleted from Google by a job; changed by someone since the deletion.

A deletion and an Undo wait for nothing: `lock` *tries* the synchronization lock and the task graph
lock and takes the owner's row NOWAIT, and the revisions, the rows a snapshot guards, the mapping and
the receipt are locked NOWAIT as well. `busy` is a transaction of the same user that has one of
these (`BeginElsewhere`, `EndElsewhere`: another request, an import of Google Tasks, a job's statement), so
that a mere concurrent request refuses an Undo. `Keep Google` takes the synchronization lock
only (`SyncLockFree`).

### TaskGraph

A row has a version (0: none), project, parent, completion, repeat rule, deadline, time
block, `source` (`recurrence_source_id`) and `base` (`recurrence_defaults`, the series an
exception was taken from). A request that takes `lock_task_graph` is one step: `CreateTask`,
`SaveTask`, `CompleteRepeating` (with its successor), `DeleteTask`, `DeleteWithUndo`,
`UndoDelete`, `DeleteProject` (with the cascade and the trigger of migration 0024). Two
are cut in two because a writer without that lock fits in between: reopening
(`BeginReopen` reads the successor, `FinishReopen` deletes it) and an import (`BeginImport`,
`ImportRow`, `CommitImport`). Those writers are `MoveBlock` and `RemoveBlock` (event requests
and jobs), `Reschedule` (the daily review), `Post` and `InsertMapping`. An editor keeps the row it was
opened with (`draft`) and saves it when it likes. `ParentChain` is the recursive query
of `validate_task_update_relationships`, as a least closed set.

`TaskDeleteUndo` has the receipt's life and its meeting with Google; `TaskGraph` only what
restoring a row means for the others. `copy` says what became of a task's block in Google. A push
is `Post` (the SELECT of `push_calendar` has the event, the POST is on its way or answered) and
`InsertMapping`; in between the copy is `posting` and no mapping exists that anybody could mark.
Removing the block (`Removed`) marks a mapping for deletion, and leaves a copy that is being posted
in Google for good (`left`); so does the cascade of reopening (`Abandoned`), which marks nothing.

### GoogleTasks

Tasks, links and items of one list; a task's synchronized fields are numbers, and every
edit writes a new one. The queue is one flag, `queued`: jobs of a user do not overlap and
jobs of this kind are interchangeable. `StartJob` is the listing and the reading of the
batch: nothing in between changes the database, and an item changed meanwhile is one
changed before the listing or after it. `conn.changed` says that `change_revision` has moved
since the scan took its revision, `conn.lc` and `conn.ic` are the two cursors of a partial
scan. One link is handled at a time: `ClaimCreate` (the phase `creating` is committed before
the POST), `PostAnswered`, `PostUncertain` or `PostRejected`, `RecoverCreate` (find the one
item with the link's reference), `PlanMerge` or `RecordConflict`, the PATCH, `ApplyLocally` with
the version it was planned for, or `ApplyRefused`, `RecordLink`. `ApplyRefused` is nondeterministic: beside a
task that changed, `google_task_deadline` and `update_task` refuse fields for reasons in columns the
model has not (a local time that the date has not, a repeating task whose deadline was cleared in
Google or whose next date is out of range, a completed task whose successor was changed and that
Google reopens), once or in every job. `ImportFails` is the error of one import, which ends the whole
job without storing its progress. Then `Import`, `FinishBatch` and its follow-up job. A
crash loses the running job; only periodic jobs come after it. It is assumed that users keep
the reference in an item's notes. `mineHere` and `mineThere` are history: fields the user changed on
one side that the other has not got; `decided` is the conflict the user chose in; `refused` are the
tasks that were as the job had read them when their last visit ended with a refusal. `Init` has one task
and one item, or neither, so that tasks and items are also created while the bounds leave room for
their copies (`Room`).

### CalendarMoveUndo

One item (an event, or a task with its block) and its mapping. A transaction is a plan: the
locks it takes in order, each waiting (`Wait`) or NOWAIT (`Try`), then its commit with all it
writes. Locks are the advisory locks, the rows and their shared modes (foreign
keys), and a transaction needs a connection of the pool, a job two. Neighbouring NOWAIT locks are
one step: acquiring one never blocks anybody who could not have run before. Requests other than
moves (`update_calendar_event`, `update_task_scoped`, deletions with and without Undo, deletion of the
calendar and of the account, `update_daily_focus`) have their own plans, and so have a job's
pull, push (which reads, calls Google and writes in separate transactions) and remapping.
`Init` includes the states just after a move. `last` is history: the receipt of the move that
wrote the item last. Refusals that change nothing are `Abort`, `cleanup` is part of `Expire`.

### GoogleWatch

One user and one Google calendar, whose row may be deleted, discovered again under a new id,
deselected and selected. Time is counted in the six-hour buckets of
`enqueue_expiring_calendar_watches`; in those units a channel lives 28, is assumed to live 24 when
Google's answer does not say, and is renewed in the last 4. `row` is the stored channel, `channels`
what Google knows. `watch_calendar` is `WatchPost`, `WatchReplace` (one transaction), `WatchStopOld`
and `WatchEnqueue`; `WatchReplaceFails` is its error path, which stops the channel it could not
store. The SELECT before the POST and the stop after a failed replacement are merged
with it, since nothing they read or write is seen in between. Waiting synchronization jobs of a
calendar are interchangeable and are one member of `jobs`; idempotency keys are kept while they can
come up again. Google announces a channel with a first message, messages may come twice, late
or not at all, but not after the bucket. `update_calendar` is cut between the UPDATE and the two
enqueueing calls. `excused`, `strays`, `bucket`, `lapses` and `cut` are history: the failures the
properties allow for.

## 3. Runs

| Run | Bounds | States | Checks |
|---|---|---|---|
| `sync_jobs` | 2 workers, a calendar job and a revocation of one user, 2 attempts, 1 interruption, a lease that ends with the next tick, fairness | 495,096 | `TypeOK`; a user's jobs do not overlap (`OneExecutorPerUser`); a job has one owner (`JobOwnedByOneWorker`); `ActivityTellsTheTruth`; `FinishedIsFinal`; `ImplementsLifecycle`, the refinement of `JobLifecycle`; every queued job is settled unless an interruption strands it (`QueuedJobsSettle`) |
| `calendar_quiet` | 1 user event, 3 ids for imports, 1 Google event, all policies and resolutions, all requests between jobs, 3 edits, 1 failure | 504,407 | `SettledMappingsAgree`, `AskProtectsLocalEdits` |
| `calendar_busy` | policy `ask`, requests also during a job, 4 edits | 478,758 | `TokenCoversOnlyApplied`, `UnresolvedIsVisible`, `ConflictBlocksOverwrite` |
| `calendar_converges` | policies `ask` and `google`, no moves, 4 edits, no failure, fairness | 621,264 | `OneCopyOfEachEvent`, `Converges`, `JobsKeepSucceeding` |
| `task_undo` | 2 tasks on one focus date, one of them synchronized and possibly of an older release, 2 clients, 3 changes, 1 failure (a transaction begun elsewhere counts as a change), fairness | 803,286 | `HeldWhileUndoable`, `RestoredEventSurvives`, `NothingMissed`, `RestoresLatestDeletion`, `NoFalseRefusal`, `NoAutomaticReturn`, `OnlyOwnDeletionsReachGoogle`, `ExpiredDeletionsSettle` |
| `task_graph` | 3 tasks, 1 project, 1 editor, a daily rule, one deadline and one block, last date 2, 4 requests or outside changes | 269,203 | `ParentsExist`, `NoCycle`, `OneSuccessor`, `BlocksKeepTheirTask`, `NoLostUpdate`, `OneOffKeepsSeries`, `TypeOK` |
| `google_tasks` | 2 tasks, 2 items, one field, batches of one, 3 edits, 1 creation or deletion, 1 failure, fairness | 755,386 | `OneCopy`, `NothingStranded`, `NoSilentOverwrite`, `Converges` |
| `calendar_move` | 2 clients, a pool of 2, 3 transactions, 2 moves, 1 receipt at a time, 1 change in Google | 742,102 | `MovesNeverDeadlock`, `MovesReachGoogle`, `UndoRevertsItsOwnMove` |
| `google_watch` | life 3 or 2, margin 1, 2 buckets passing, 2 calendar ids, 2 channels, 1 change, 2 requests or failures | 1,185,232 | `NoChangeForgotten`, `RenewedInTime`, `NoStrayChannels` |
| `calendar_lost_edit`, `calendar_lost_answer`, `task_graph_reopen` | see section 5 | | violations |

Why the bounds are enough to be interesting. Two workers suffice for every race of the
claim and of the lock, and two attempts make both a retry and an exhausted job happen. In
`calendar_*` three or four edits allow a local change, a change in Google, a
second one during the conflict and a deletion; ids for imports are as many as the
edits can use, so an import is never blocked by the bound. In `task_undo` three changes
allow a deletion, a second deletion after an Undo, or a deletion with two changes in Google (a
conflict and then a cancellation, which is how a missing event reaches the
reconciliation); two clients allow the same receipt to be used twice. In `task_graph`
three tasks are a chain that can be closed to a cycle or a task with two successors, four
changes allow a completion, a reopening, a deletion and an outside change of one series,
and opening an editor, Undo, projects and the insertion of a mapping are not counted; the last date is reached by
the second completion. A request changes fields of one of `Aspects`: completion and block,
repeat rule, deadline and block, or project and parent; the theorems hold for forms that
change any fields together. In `google_tasks` batches of one make a scan of two links partial, so that
both cursors move and edits fall behind them; one field is enough, since fields are merged one by
one. In `calendar_move` two transactions close any cycle of two lock orders and fill the pool (three
clients were checked as well). In `google_watch` two channels are a replacement, and two
buckets pass the end of a channel that was not renewed; two changes, three channels and three
buckets were checked as well. The time units are
small: the clock only has to pass a backoff, a lease or a deadline.

Deadlock is checked except in the queue's run, where all jobs may be finished and all
accounts deleted, in `task_graph`, where the changes may be used up and nothing be left
to restore, and in `calendar_move`, where the item may be gone; there deadlock is what
`MovesNeverDeadlock` is about.

### Fairness

* `SyncJobs`: time passes; every worker keeps polling and its statements and HTTP calls
  end (the dispatcher polls every five seconds, HTTP has timeouts); a request
  that holds the lock ends; a worker blocked on `pg_advisory_xact_lock` is served in
  spite of requests that keep taking the lock (strong fairness), which is PostgreSQL's
  queue: requests only *try* the lock and do not pass a waiter for ever.
* `CalendarSync`: some step of a job is eventually taken while one is possible: every
  selected calendar is enqueued periodically, and every call in a job times out. Nothing
  is assumed of users, of Google's users or of failures.
* `TaskDeleteUndo`: the same for jobs (each deletion enqueues its own expiry job), and
  time passes.
* `GoogleTasks`: a queued job is taken and its steps end, and periodic jobs keep coming while
  the connection is enabled (`enqueue_periodic_synchronizations`).

## 4. Restrictions of the passing runs

These are places where a property fails in the full model; the runs are restricted to
show what does hold, and each can be reproduced by changing the constant named.

* `SettledMappingsAgree` and `OneCopyOfEachEvent` are checked with requests between jobs
  only: an edit during a push loses its mark (finding 1).
* `OneCopyOfEachEvent` excludes behaviours with a failure (`faults = 0`): a crash between
  `insert_canonical_event` and the insertion of its mapping makes the next pull import the
  event again. With a failure the run would show that copy.
* `OneCopyOfEachEvent` is checked without `move`. With it, six edits make a copy that stays: the user creates an
  event and a job posts it, another is created in Google and imported, and both are moved away
  and back. Both old mappings have lost their events. The next job posts the imported event again, under
  its own id, and the insertion for the other one violates the unique constraint on the external id: the
  job fails before it deletes the old copy in Google, and so does every later one. Four edits do not
  reach this and the proof of `EventsHaveOneCopy` led to it (constants: `Operations = {"create", "move", "google edit"}`,
  `MaxEdits = 6`, no failure).
* `calendar_busy` has no `resolve` during a job. With it, `TokenCoversOnlyApplied` fails
  (the choice is made after the change was skipped and before the final test of
  `pull_calendar`, so the token passes the change) and so does
  `UnresolvedIsVisible` (the choice falls between the two statements of
  `create_conflict`, which then sets `conflict_state` on a mapping whose conflict is
  already resolved).
* `calendar_busy` has the choices `google` and `prosepect` and no failure. With the choice
  `latest`, one failure and six edits, `ConflictBlocksOverwrite` fails, against
  `docs/OPERATIONS.md:279` ("Unresolved `ask` conflicts remain visible in Settings and block silent
  overwrite for that mapping"). An import that brings a deleted event back is an INSERT, a link and
  `update_mapping_baseline`. When the user resolved a conflict with `latest` and deleted the
  event before the next job, and that job dies between the last two, the mapping has an event
  and still says `local_deleted`. The retry keeps the local version (the import made it the later
  one) and clears the choice; a change in Google then opens a conflict, and a cancellation, for
  which only `local_dirty` is looked at (`sync_service.rs:586`), removes the event while the conflict is open. The
  proof of `ConflictsBlockOverwriting` led to this; the theorem shows that the choice `latest` is all there is
  to leave out, for any number of failures.
* `calendar_converges` has no `move`: an event moved out of the calendar and back before a
  job keeps its unlinked mapping, its id is taken in Google, and the insertion of a second
  mapping fails in every job (`JobsKeepSucceeding`).
* `ActivityTellsTheTruth` allows a missing final entry after an interruption: the outcome
  and its entry are two statements.
* Deleting two tasks of one focus date makes the first receipt unusable, because the
  second deletion raises the date's shared revision. The code refuses in that case by
  design; `NoFalseRefusal` counts it as a change.
* `NoFalseRefusal` also allows a refusal while a job runs or another transaction of the user is in progress
  (`busy`), although nothing that the receipt guards has changed: `lock` only tries the two advisory
  locks and everything after it is NOWAIT (`tests/task_delete_undo.rs:403`). The receipt stays, and the next
  attempt may succeed.
* `calendar_converges` has the policies `ask` and `google` only. With `Policies = {"prosepect"}`
  it fails: when the local version wins over a change in Google, only `pending_resolution` is
  cleared and the mapping keeps its old etag, so the PUT is refused with 412 in this and every
  later job (`sync_service.rs:663`).
* `calendar_move` runs fewer jobs than the pool has connections. With as many, each keeps one
  for its lock and waits for a second until the pool's acquire timeout; `DATABASE_MAX_CONNECTIONS`
  may be 1, where a single job cannot finish.
* `MovesReachGoogle` pulls under `ask`.
* `NothingStranded` excepts a link just recovered (`adopted`): it keeps the fields that were
  sent as its base and is compared in the next scan.
* `NoChangeForgotten` and `RenewedInTime` except what a lost message, a job that died or was given up,
  or a request that died half-way explains, until the next synchronization or renewal. The model
  shows some less obvious cases: a watch job that finds its calendar deselected uses up
  the bucket's key, so a calendar selected again is not watched until the next bucket; a
  revocation that stopped the channel and is then given up leaves the calendar without messages
  until the renewal; `delete_calendar` does not stop its channel.
* `RepeatingStandAlone` excepts imported tasks: `import_todoist_project` validates each row
  alone, so a repeating task with subtasks can be imported although
  `docs/RECURRING-TASK-EDITS.md:10` says that repeating tasks cannot have subtasks. Every later
  update of it that keeps its rule is refused.
* `BlocksKeepTheirTask` is about the copies that a job or a mapping knows of. `docs/OPERATIONS.md:233`
  says more ("unscheduling or deleting it removes the Google event"), and there are two ways a copy
  stays in Google, which the model records as `left`. The successor that reopening removes: the plain
  `DELETE` takes its event along and marks no mapping (`store.rs:1422`). And a block that is unscheduled,
  or whose task is deleted, while `push_calendar` is between its SELECT and its INSERT of the mapping
  (`sync_service.rs:733` to `792`): there is nothing to mark yet, and the INSERT fails because the event is
  gone, or comes between the mark and the DELETE of `delete_calendar_event` and leaves a mapping without mark.
  The property with `left` in `Followed` fails in both ways.
* `Converges` of `GoogleTasks` excepts the tasks of `refused`, for as long as the application refuses what
  Google holds: such a link fails in every job and records no conflict, so the user cannot
  choose either, only change one of the copies. It stops no other link. An import that fails is a
  failure, at most `MaxFaults` of them: an item whose date has no 23:59:59 in the user's zone would
  end every job at the same place (`google_tasks_sync.rs:511`), before the cursors are stored, and links beyond
  the first batch would not be visited.

## 5. Findings

1. `calendar_lost_edit`: `push_calendar` clears `local_dirty` unconditionally after the
   PUT. An edit committed between its SELECT and that UPDATE is never sent.
2. `calendar_lost_answer`: when the answer to a POST is lost, the next job's pull imports
   the event under a new id first; the retry of the original then violates the unique
   constraint on the external id in every later job.
3. `task_graph_reopen`: reopening a completed task reads its successor's version without a
   row lock and deletes it by id. A time block moved, or a deadline changed by the daily
   review, between the two is lost with the row (`docs/RECURRING-TASK-EDITS.md:10`: "can remove
   only its untouched successor").

## 6. Proofs

`SyncJobsProofs` proves, for every number of users, jobs, workers, attempts and
interruptions, that `Spec` implies

* `TypeCorrect`: `TypeOK`, with the attempt limit;
* `ExecutionsAreSerialized`: `OneExecutorPerUser`;
* `ClaimIsExclusive`: `JobOwnedByOneWorker`;
* `ClaimedCountIsCurrent`: `ClaimedCountAgrees`;
* `LeaseMarksRunning`: `LeaseOnlyWhileRunning`;
* `FinishedJobsAreFinal`: the action property `FinishedIsFinal`;
* `HistoryIsTrue`: `ActivityTellsTheTruth`.

`SyncJobsRefinement` proves `QueueImplementsLifecycle`: `Spec` implies `ImplementsLifecycle`.

The assumptions are those of `SyncJobs`: owners and calendars of jobs are total functions,
limits are natural numbers, the lock's special holders are not workers.

None of these is inductive alone. That a job has one owner needs to know that a *selected*
row cannot change before its claim commits (`ClaimInv`: it is locked, pending or failed,
with attempts left) and that a row in a worker's hands is running or deleted
(`OwnerInv`), because completion and failure name only the job's id. That executions do
not overlap needs `LockInv`, the places at which a worker holds its user's lock.
`ExclusiveInv` extends exclusive ownership to rows that are only selected. The inductive
invariant `QueueInv` is the conjunction of these with `LeaseOnlyWhileRunning`
(theorem `QueueInvariant`); each part has its own step lemma, with one case per action.
That a lease is told from no lease needs a clock that never goes back to the value that stands for
none (`ClockInv`). `FinishedJobsAreFinal` follows from the same invariant: a worker that still holds a job
finds it running or deleted, hence never rewrites a finished one.

`HistoryIsTrue` rests on a second invariant, `HistoryInv`. The text of an entry is computed from
the count *before* the claim, by a worker whose row may be deleted, or failed, claimed and failed
again, before the entry is written. `CountInv` relates the remembered count to the row
at every place, `OutcomeInv` says what a stored outcome that has not been told yet still implies (the
row may have been claimed again but cannot have failed again, because the teller holds the
lock), and `AccountInv` that a deleted account has no rows. The refinement needs `QueueInv` only:
`RefinedStep` takes the actions one by one, and those of workers waiting for, taking or losing
locks map to a stutter.

`TaskGraphProofs` proves, for every number of tasks, projects, editors, rules and changes,
that `Spec` of `TaskGraph` implies

* `TypeCorrect`: `TypeOK`, with the range of dates;
* `NoOrphans`: `ParentsExist`;
* `ForestHasNoCycle`: `NoCycle`;
* `RepeatingTasksStandAlone`: `RepeatingStandAlone`;
* `TasksHaveOneSuccessor`: `OneSuccessor`;
* `BlocksHaveTheirTask`: `BlocksKeepTheirTask`;
* `UpdatesAreNotLost`: `NoLostUpdate`;
* `ExceptionsKeepTheSeries`: `OneOffKeepsSeries`.

The assumptions are those of `TaskGraph`: the values for "none" are not identifiers or rules,
periods are positive, entered deadlines are in range. The forest is stated for a
table given as a parameter (`Sound`), with one lemma for each way a table changes:
`RemoveSound`, `AddSound`, `UpdateSound`; a request that does several of these is a
composition of them. A cycle through a moved task would have all its other members in any
set that contains the new parent and is closed under parents, and the check of
`validate_task_update_relationships` provides such a set without the task (`Outside`). What
has to be added to make the forest inductive is the interesting part: a
receipt's row refers to rows that were sound when it was written, which is enough
because Undo compares them (`ReceiptInv`); rows of an open import are referred to only by
each other, so rolling it back orphans nobody (`ImportInv`); and what reopening checked before
it read the successor is still true when it deletes it, since the writers in between
change no relation (`ReopenInv`). The deletion of the successor has no check for subtasks: that
it needs none follows from `Repeats` (an unchanged successor repeats and was not imported)
and `StandAlone`. The inductive invariant `GraphInv` was also model-checked with the bounds of
`task_graph`.

The last four theorems are about versions. `Aging` says what every step does to a row: it is
kept as an editor sees it or gets a higher version, and one that comes back from a receipt is
later than the one that was deleted, because Undo inserts it with the next version. So a version
that was once read stays a watermark (`Past`), also while the row exists only in a receipt, and
it determines what the reader saw (`DraftInv`): that is `NoLostUpdate`. For `OneSuccessor` the
difficulty is Undo, which puts a successor back under its source. While the source has the
version that the receipt names, no row and no other receipt refers to it at that version (`SourceInv`):
whatever gives the source another successor completes it again and so changes its version. In the other
direction a receipt has detached at most one successor, of a row that was completed (`NextInv`).
`TxInv` keeps what a reopening has read until it uses it: the task still has the version the
editor has, the successor is the only one, and nobody completed it; and nothing outside an
open import has one of its rows as source. `BlockInv` adds to `BlocksKeepTheirTask` that a receipt
which will put a mapping back also puts the block back, and `TxInv` that an import that is rolled back has no
row whose block is being posted. `VersionInv`, their conjunction, and
`Aging` were model-checked with the bounds of `task_graph` first. `OneOffKeepsSeries` needs no more than
the types: `SeriesStep` compares `SuccessorSource` before and after each action.

`CalendarMoveUndoProofs` proves, for every number of clients, connections, moves and schedules,
`UndoIsSafe`: an Undo that commits finds the item exactly as its own move left it and gives it
back the schedules of before (`UndoRevertsItsOwnMove`). The invariant `ReceiptInv` says what an
active receipt promises: its event exists, has not a lower version than the move gave it, and
with that version is the move's own result. Every writer counts the version up, so a receipt
fits for ever or never again. The step is proved by way of `Effect`: each of the
transactions leaves the event and the receipts untouched, removes them, rewrites or creates the
event, moves it, undoes a move or lets a receipt expire, and each of these preserves the invariant. The locks play no part
in it: safety of Undo does not depend on them. `ReceiptsAreBounded` is the limit on active receipts.

The locks are what its other two theorems are about, again for every number of clients and
connections and with all transactions of the model. `NoDeadlockWithMoves` (`MovesNeverDeadlock`)
rests on the plans: `MovePlans`, `JobPlans` and `OtherPlans` read off each of them that a move waits
for nothing but the task graph, its second lock, that a job takes its rows after its
connections and its call to Google, and that nobody else waits for the owner's lock. The invariant `LockInv`
carries this to the locks that are held: a row is held by no move that may still wait and by
no job that needs a connection, and fewer jobs run than there are connections. In a deadlock,
whoever holds a row therefore waits for one and is no move (`RowWaiters`); who waits for the owner's lock
waits for somebody who waits for a row or a connection; and since the jobs cannot have taken
all connections, a wait for a connection ends at somebody who waits for a row. So the row waiters
are a cycle of their own. `MovesAreSent` (`MovesReachGoogle`) adds `SyncInv`, by which jobs and
moves exclude each other, and `PushInv`: what a push has read, and later sent, is the schedule of
the last move. It is the owner's lock over the call to Google that makes this so; the version
of the event is not compared when the push clears the mark. Both invariants were
model-checked with the bounds of `calendar_move` before they were proved.

`GoogleWatchProofs` proves every property of `GoogleWatch`, for every life, margin and number of
calendars, channels, changes and failures. `ChannelsAreKnown`: between jobs every channel that still notifies is the stored one
or one that a named failure left behind (`NoStrayChannels`). While a job runs, a channel may be
known to its local variables only: `StrayInv` says where it is known at each step of
`watch_calendar`, and `RevokedInv` that a revocation has stopped, or given up, the stored
channel before it deletes the row.

`RenewalsAreInTime` (`RenewedInTime`) rests on `RenewalInv`. `LapseInv`: the stored channel, and
the one a job is about to store, outlives the margin less the buckets in a row without a
renewal that got through; `BucketInv`: once the renewal of a bucket has been looked for, either
the stored channel outlives the margin or a job is on its way to replace it, unless a job was
lost or the calendar was not to be watched. When a bucket ends with no job left, the second gives
the first again. `Margin < Guess <= TTL` is all that is assumed of the three lives.

`ChangesAreNoticed` (`NoChangeForgotten`) rests on `NoticeInv`: the jobs are about the calendar
there is (`JobInv`); a key that can come up again is of the current bucket or of a message on
its way, so that a new change is never taken for a repeated message (`KeyInv`); Google sends
to the stored channel for at least as long as the application believes so, unless a revocation
has stopped it (`StoredInv`); and what is to be noticed will be, or the calendar cannot be
written at the moment, has no channel that outlives the margin and no renewal asked for in this
bucket, so that the discovery which makes it writable again also renews the channel
(`ChangeInv`). The last case is what makes the property inductive: `NoChangeForgotten` says
nothing of such a calendar. The invariants were model-checked with the bounds of `google_watch`.

`TaskDeleteUndoProofs` proves every safety property of `TaskDeleteUndo`, for every number of
tasks, clients, changes, failures and any undo window, from one inductive invariant
(`UndoInvariant`):

* `DeletionsAreHeld`: `HeldWhileUndoable`;
* `RestoredEventsSurvive`: `RestoredEventSurvives`;
* `NothingIsMissed`: `NothingMissed`;
* `UndoRestoresLatest`, `RefusalsHaveReasons`, `NothingReturnsByItself`, `OnlyOwnDeletions`: the
  action properties `RestoresLatestDeletion`, `NoFalseRefusal`, `NoAutomaticReturn` and
  `OnlyOwnDeletionsReachGoogle`.

`RowInv` says which forms a row, its mapping and its receipt can have together: a mapping is
absent, ordinary, the tombstone of a deleted task, or one for which the user keeps Google's
version (`RowOK`); an active receipt's mapping is its tombstone with the same hold and etag
(`ReceiptOK`); what the mapping knows is not newer than Google and what the token covers is known
(`EventOK`). The rest is what somebody remembers across steps: `PullInv` what is still true of the
list a job took, `HandInv` that a tombstone selected for deletion is past its hold (a
receipt made meanwhile has a later one), `PlanInv` that versions only grow between the reading
of a receipt and the commit of its Undo and that what Google answered in between still holds
unless a change is on record (`touched`), `TouchInv` that only recorded changes make a receipt's
comparison fail.

`CalendarSyncProofs` proves, for every number of events, edits and failures and every set of
policies,

* `SyncInvariant`: the inductive invariant `SyncInv`;
* `TokenNeverPassesAChange`: `TokenCoversOnlyApplied`;
* `ConflictsAreVisible`: `UnresolvedIsVisible`;
* `LocalEditsAreProtected`: the action property `AskProtectsLocalEdits`;
* `ConflictsBlockOverwriting`: the action property `ConflictBlocksOverwrite`;
* `SettledMappingsDoAgree`: `SettledMappingsAgree`;
* `EventsHaveOneCopy`: `OneCopyOfEachEvent`.

The theorems have hypotheses about the constants, each of them needed (section 4): the first three
and `ConflictsBlockOverwriting` that conflicts are resolved between jobs (`"resolve" \notin BusyOperations`), with all
other requests at any place of a job; `ConflictsBlockOverwriting` also that `latest` is not chosen;
the other three that all requests come between jobs (`BusyOperations = {}`), since an edit after
the SELECT of `apply_remote_event` or of `push_calendar` is not seen by it (finding 1); `EventsHaveOneCopy`
also that no event is moved between calendars. `calendar_busy`, `calendar_quiet` and
`calendar_converges` are instances of them.

None of these is about one statement, so the invariant follows a change from the list to the token.
`Listed` is what is still true of a change when its turn comes: it is Google's current version or one that
the next list will have. `PullInv` says that whatever the new token will cover is applied, in the
inbox, in hand, or withheld by a conflict; `HandInv` what remains true of the mapping that was
read for the change in hand while users add marks to it; `PushInv` that a row selected for
a push has an etag too old for Google to accept if a conflict was opened for it; `OpenInv` that an
open conflict is about a version newer than the recorded one and that the token has not passed it, which is
why resolving it for Google is never too late. `ConflictsBlockOverwriting` and `LocalEditsAreProtected`
need two more: `LinkInv` (an event has one mapping, also while it is being linked, so that a pull
changes the event of its own mapping only) and `TombstoneInv` (a mapping marked for deletion has
lost its event, except where Google's version was chosen); with requests between jobs `FreshInv`
replaces the second. The invariants were model-checked with all policies and resolutions, moves and a
failure before they were proved.

`SettledMappingsDoAgree` rests on `SettledInv`, about contents. What a list showed has the content of
its version in Google, and the event that a pull has written has it too when the etag is recorded
(`ContentInv`); a row selected for a push still has the content that was selected, and what Google
accepted is that content unless its version has moved on (`WorkInv`). The case that made the
invariant hard is the POST answered 409: its GET returns an etag under which Google may have any content.
`PostedInv` says that an id of Prosepect's that is alive in Google is mapped when the pull ends, also
after a job that died between POST and INSERT, so that the second insertion is refused rather
than recording an etag for content that was never compared. It was model-checked at the bounds of `calendar_quiet`
to the end and with four edits as far as TLC came in its time.

`EventsHaveOneCopy` rests on `SingleInv`, which holds until a job is cut short (`CopyInv`). Every edit writes
a content of its own (`TimesInv`), so equal contents are copies. A content that is on both sides belongs
to a linked pair, or to one that the next statement links (`CopiesInv`), and therefore every
statement that links succeeds (`LinksSucceed`): without a failure no job stops between
`insert_canonical_event` and its mapping. `PendingInv` says that what a list showed is nowhere but in its
own event, so the pull imports it once although the list may be repeated; `OwnInv` and
`CreateInv` that an event's own id is used for that event only and that a row selected to be posted has no
mapping. It was model-checked with the constants of `calendar_quiet` but no moves, no
failure and four edits (472,135 states).

`GoogleTasksProofs` proves every safety property of `GoogleTasks`, for every number of tasks, items,
fields, edits and failures and every batch size (`TasksAssumption` is all that is assumed), from
three invariants that build on each other.

`TasksHaveOneCopy` (`OneCopy`) rests on `CopyInv`, about identities. No two links have one id, which a new
link gets from the greatest so far (`GreatestExists`: a finite set of numbers has one); a reference
in the notes is the id of a link, and no two items have one reference. A link
that is `prepared` has created nothing (`PreparedInv`), which is why `ClaimCreate` may post, and
nothing leads back to `prepared` but the refusal of the post itself. What a listing showed
still has the reference it showed (`SnapInv`), so a stranger in the listing is none of the links'
items, and `JobInv` says whose item the job is about to record.

`ChangesAreNotOverwritten` (the action property `NoSilentOverwrite`) rests on `MergeInv`, about values.
Every edit writes a value of its own (`ValueInv`). What is the user's own differs from the other
copy (`AgreeInv`), from the listing (`SnapHereInv`) and from the baseline (`BaseInv`), so
`reconcile` keeps it unless the other side changed the field too (`Reconciled`). An item
with the etag of the listing is as it was listed (`EtagInv`), which makes the conditional
update safe; a task with the version that was read is as it was read (`LocalInv`), which makes
the local one safe. `PatchInv` and `RecordInv` carry both to the end of the plan: a patch that Google
accepts replaces nothing but the baseline or what the user gave up in the conflict that
was shown (`DecidedInv`).

`NothingIsStranded` (`NothingStranded`) rests on `WaitInv`, about cursors. The property speaks of
the states in which nothing is queued or running; the invariant says in every state where a task that is
not settled will be met: it is in the batch, or ahead of everything in it with more to come, or
the running scan has seen a change or an error (`BatchInv`); and the same for the cursor that is
saved (`SavedInv`), in case the job is lost or the scan goes on. The order of the ids is what makes
the cursor sound: a batch leaves out only links with greater ids than those it takes
(`BatchOrder`), and new links are ahead of every cursor (`CursorInv`). `FreshInv` says that what is about to
be recorded is what the task holds, unless the trigger noticed a change, and `GoneInv` that a link is
detached from a living task only when its item has moved on. `WaitInv` was model-checked to the end with three
tasks and three items, and with two and four edits as far as TLC came in its time.

Only model-checked: liveness (`QueuedJobsSettle`, `Converges` of both modules,
`JobsKeepSucceeding`, `ExpiredDeletionsSettle`), which rests on fairness and ENABLED and is out of
the prover's reach. Every safety property of a passing run is a theorem.

## 7. Not modelled

Components with status `not_modelled` or `partly` in `PROJECT.json` carry the reason. In
general: text formatting and normalization of events, recurrence rules, OAuth and
cryptography, HTML views, configuration and read-only queries are left out. Files, notes,
sessions, limits and the web application have little that runs concurrently beyond single
statements: their rows are changed by one conditional statement or in one transaction. The
connection pool is modelled in `CalendarMoveUndo` only. The size limits of a deletion snapshot are
refusals without effect. Within `CalendarSync` there is one calendar, the policy does not
change in a behaviour, and a list is read at one instant although it may have pages. Within
`TaskGraph` the manual order (`position`, `reorder_tasks`), labels, texts and reminders are left
out, and a receipt that has expired is one nobody uses. Within `GoogleTasks` the list exists and
stays, and `last_error` of a link, invalid and assigned items and the time zone of due dates are left
out. Within `GoogleWatch` the webhook is configured; a revocation that waits in the queue while the
user connects again removes the new connection, a sequence the model has and no property judges, because
neither the code nor a document says which request should win.

## 8. What is left

Worth adding, in this order:

1. `GoogleWatch` composed with the steps of `CalendarSync`: a change that arrives during the pull
   it should have been part of.
2. Files: rows and objects written in two steps.
