--------------------------- MODULE TaskDeleteUndo ---------------------------
(***************************************************************************)
(* Deleting a task so that it can be restored for a while: the receipts of *)
(* task_delete_undos, the held tombstone that replaces the Google mapping  *)
(* of a scheduled task, Undo with its validation outside any transaction,  *)
(* the user's Keep Google, and what a synchronization job does with        *)
(* tombstones.  A request's transaction takes the synchronization lock and *)
(* is one step; a job holds that lock from StartJob to its end.  How a job *)
(* treats ordinary mappings statement by statement is CalendarSync's       *)
(* subject: here one step applies or pushes such a change.                 *)
(***************************************************************************)
EXTENDS Naturals, FiniteSets

CONSTANTS
    Tasks,
    Linked,       \* tasks with a time block in the preferred Google calendar
    Legacy,       \* those whose mapping may have the fingerprint of an older release
    Focused,      \* tasks in the daily focus, all on one date
    Clients,      \* requests in progress at the same time
    Window,       \* 60 seconds in the code
    MaxReceipts,  \* 100 in the code
    MaxEdits,     \* bound: changes made by the user and in Google, transactions elsewhere
    MaxFaults     \* bound: jobs cut short

ASSUME UndoAssumption ==
    /\ Linked \subseteq Tasks /\ Legacy \subseteq Linked /\ Focused \subseteq Tasks
    /\ Window \in Nat \ {0} /\ MaxReceipts \in Nat \ {0}
    /\ MaxEdits \in Nat /\ MaxFaults \in Nat

VARIABLES
    now, edits, faults,
    busy,                      \* another transaction of the user is in progress
    version, event,            \* tasks (0: no row), their time blocks
    deps, focus,               \* guarded rows and revisions, the focus date's revision
    mapping, open,             \* external_event_mappings, unresolved sync_conflicts
    receipt,                   \* task_delete_undos
    seq, gver, glive,          \* Google: change counter, etag, status
    token,                     \* calendars.sync_token
    pc, plan,                  \* per request: place, what it read before its GET
    jpc, inbox, cur, mark, work,  \* the job, as in CalendarSync
    erased, touched            \* history: deleted from Google by a job; changed since deletion

clock == <<now, edits, faults, busy>>
local == <<version, event, deps, focus>>
sync == <<mapping, open>>
google == <<seq, gver, glive>>
requests == <<pc, plan>>
jobVars == <<jpc, inbox, cur, mark, work>>
vars == <<clock, local, sync, receipt, google, token, requests, jobVars, erased, touched>>

NoTask == "no task"

NoMapping ==
    [exists |-> FALSE, event |-> FALSE, etag |-> 0, dirty |-> FALSE, deleted |-> FALSE,
     conflict |-> FALSE, tombstone |-> FALSE, hold |-> 0, resolving |-> FALSE, legacy |-> FALSE]

\* What push_calendar inserts for a new event.
CleanMapping(etag) == [NoMapping EXCEPT !.exists = TRUE, !.event = TRUE, !.etag = etag]

\* The part of a Snapshot that Undo compares, and the receipt's expiry.
NoReceipt == [version |-> 0, expiry |-> 0, deps |-> 0, focus |-> 0, mapping |-> NoMapping]

NoPlan == [task |-> NoTask, read |-> NoReceipt]

\* All tasks are scheduled and synchronized.
Init ==
    /\ now = 1 /\ edits = 0 /\ faults = 0 /\ busy = FALSE
    /\ version = [t \in Tasks |-> 1]
    /\ event = [t \in Tasks |-> IF t \in Linked THEN "block" ELSE "none"]
    /\ deps = 0 /\ focus = 0
    /\ \E old \in SUBSET Legacy :
          mapping = [t \in Tasks |-> IF t \in Linked
                                     THEN [CleanMapping(1) EXCEPT !.legacy = t \in old]
                                     ELSE NoMapping]
    /\ open = {}
    /\ receipt = [t \in Tasks |-> NoReceipt]
    /\ seq = 1 /\ gver = [t \in Tasks |-> 1] /\ glive = [t \in Tasks |-> t \in Linked]
    /\ token = 1
    /\ pc = [c \in Clients |-> "idle"] /\ plan = [c \in Clients |-> NoPlan]
    /\ jpc = "idle" /\ inbox = {} /\ cur = NoTask /\ mark = 0 /\ work = {}
    /\ erased = {} /\ touched = {}

-----------------------------------------------------------------------------
(* Changes that race a deletion or an Undo.                                *)

Edit == edits < MaxEdits /\ edits' = edits + 1 /\ UNCHANGED <<now, faults, busy>>

\* A transaction of another request, of a Google Tasks job or of the calendar job takes
\* the user's task graph lock, or a row that a deletion or an Undo locks NOWAIT, and ends.
\* What it changes are the actions below.
BeginElsewhere ==
    /\ edits < MaxEdits
    /\ ~busy
    /\ edits' = edits + 1
    /\ busy' = TRUE
    /\ UNCHANGED <<now, faults, local, sync, receipt, google, token, requests, jobVars, erased, touched>>

EndElsewhere ==
    /\ busy
    /\ busy' = FALSE
    /\ UNCHANGED <<now, edits, faults, local, sync, receipt, google, token, requests, jobVars, erased, touched>>

\* A project, parent, successor, file, calendar preference or Google account that
\* a snapshot guards is changed.
ChangeDependency ==
    /\ Edit
    /\ deps' = deps + 1
    /\ touched' = Tasks
    /\ UNCHANGED <<version, event, focus, sync, receipt, google, token, requests, jobVars, erased>>

\* update_daily_focus, or a completed review of the date.
ChangeFocus ==
    /\ Edit
    /\ focus' = focus + 1
    /\ touched' = touched \cup Focused
    /\ UNCHANGED <<version, event, deps, sync, receipt, google, token, requests, jobVars, erased>>

\* update_task and its time block: the mapping is dirty until the next job.
EditTask(t) ==
    /\ Edit
    /\ version[t] # 0
    /\ version' = [version EXCEPT ![t] = @ + 1]
    /\ mapping' = [mapping EXCEPT ![t].dirty = mapping[t].event]
    /\ UNCHANGED <<event, deps, focus, open, receipt, google, token, requests, jobVars, erased, touched>>

GoogleWrites(t, live) ==
    /\ seq' = seq + 1
    /\ gver' = [gver EXCEPT ![t] = seq']
    /\ glive' = [glive EXCEPT ![t] = live]

GoogleEdit(t) ==
    /\ Edit
    /\ glive[t]
    /\ GoogleWrites(t, TRUE)
    /\ touched' = touched \cup {t}
    /\ UNCHANGED <<local, sync, receipt, token, requests, jobVars, erased>>

GoogleDelete(t) ==
    /\ Edit
    /\ glive[t]
    /\ GoogleWrites(t, FALSE)
    /\ touched' = touched \cup {t}
    /\ UNCHANGED <<local, sync, receipt, token, requests, jobVars, erased>>

-----------------------------------------------------------------------------
(* Deletion: delete_task_with_undo_validated.                              *)

\* pg_try_advisory_xact_lock on "prosepect-sync:{user}".
SyncLockFree == jpc = "idle"

\* lock tries the synchronization lock, then the task graph lock, then the owner's row;
\* the rows after it are locked NOWAIT too.  Nothing is waited for: the request is refused.
LockFree == SyncLockFree /\ ~busy

Active(t) == receipt[t].version # 0 /\ receipt[t].expiry > now

\* The snapshot of the task, its dependencies and its mapping.
Snapshot(t) ==
    [version |-> version[t], expiry |-> 0, deps |-> deps,
     focus |-> IF t \in Focused THEN focus ELSE 0, mapping |-> mapping[t]]

\* A Google mapping must be complete, clean and without any conflict.
CleanlyMapped(m) ==
    /\ m.exists /\ m.event /\ m.etag # 0
    /\ ~m.dirty /\ ~m.deleted /\ ~m.conflict /\ ~m.resolving /\ ~m.tombstone /\ m.hold = 0

Deletable(t) ==
    /\ LockFree
    /\ version[t] # 0
    /\ Cardinality({s \in Tasks : Active(s)}) < MaxReceipts
    /\ event[t] = "block" => CleanlyMapped(mapping[t]) /\ t \notin open

\* The mapping after the deletion: held for the receipt's life time.
Tombstone(m, expiry) ==
    [m EXCEPT !.event = FALSE, !.deleted = TRUE, !.dirty = FALSE, !.tombstone = TRUE,
              !.hold = expiry]

\* The deletion of a focus row raises the date's revision (trigger).
FocusAfter(t) == IF t \in Focused THEN focus + 1 ELSE focus

\* Fault for NoFalseRefusal: the revisions are not read again after the cascade.
RemoveStaleRevision(t) ==
    /\ version' = [version EXCEPT ![t] = 0]
    /\ event' = [event EXCEPT ![t] = "none"]
    /\ focus' = FocusAfter(t)
    /\ receipt' = [receipt EXCEPT ![t] =
          [Snapshot(t) EXCEPT !.expiry = now + Window, !.mapping.legacy = FALSE]]
    /\ mapping' = [mapping EXCEPT ![t] =
          IF @.event THEN Tombstone([@ EXCEPT !.legacy = FALSE], now + Window) ELSE @]
    /\ touched' = (touched \ {t}) \cup (IF t \in Focused THEN Focused \ {t} ELSE {})
    /\ UNCHANGED <<deps, open, google, token, jobVars, erased>>

\* Receipt, tombstone, expiry job and the deletion of the task with its cascades; the
\* receipt keeps the revisions as they are afterwards.
Remove(t) ==
    /\ version' = [version EXCEPT ![t] = 0]
    /\ event' = [event EXCEPT ![t] = "none"]
    /\ focus' = FocusAfter(t)
    /\ receipt' = [receipt EXCEPT ![t] =
          [Snapshot(t) EXCEPT !.expiry = now + Window, !.mapping.legacy = FALSE,
                               !.focus = IF t \in Focused THEN focus' ELSE 0]]
    /\ mapping' = [mapping EXCEPT ![t] =
          IF @.event THEN Tombstone([@ EXCEPT !.legacy = FALSE], now + Window) ELSE @]
    /\ touched' = (touched \ {t}) \cup (IF t \in Focused THEN Focused \ {t} ELSE {})
    /\ UNCHANGED <<deps, open, google, token, jobVars, erased>>

DeleteTask(t) ==
    /\ Edit
    /\ Deletable(t)
    /\ ~mapping[t].legacy
    /\ Remove(t)
    /\ UNCHANGED requests

\* With a legacy fingerprint the transaction rolls back and Google is asked first.
PrepareDelete(c, t) ==
    /\ pc[c] = "idle"
    /\ Edit
    /\ Deletable(t)
    /\ mapping[t].legacy
    /\ pc' = [pc EXCEPT ![c] = "check delete"]
    /\ plan' = [plan EXCEPT ![c] = [task |-> t, read |-> Snapshot(t)]]
    /\ UNCHANGED <<local, sync, receipt, google, token, jobVars, erased, touched>>

Done(c) ==
    /\ pc' = [pc EXCEPT ![c] = "idle"]
    /\ plan' = [plan EXCEPT ![c] = NoPlan]

Others == <<local, sync, receipt, google, token, jobVars, erased, touched>>

\* validate_task_delete_undo: a fresh GET must show the mapping's version.
Validate(c) ==
    LET t == plan[c].task IN
    /\ pc[c] \in {"check delete", "check undo"}
    /\ glive[t] /\ gver[t] = plan[c].read.mapping.etag
    /\ pc' = [pc EXCEPT ![c] = IF @ = "check delete" THEN "delete" ELSE "undo"]
    /\ UNCHANGED <<clock, Others, plan>>

\* Another version, a cancelled or missing event, an error or five seconds without answer.
Invalid(c) ==
    /\ pc[c] \in {"check delete", "check undo"}
    /\ Done(c)
    /\ UNCHANGED <<clock, Others>>

\* The second transaction compares the whole snapshot with the validated one.
CommitDelete(c) ==
    LET t == plan[c].task IN
    /\ pc[c] = "delete"
    /\ IF Deletable(t) /\ Snapshot(t) = plan[c].read THEN Remove(t) ELSE UNCHANGED Others
    /\ Done(c)
    /\ UNCHANGED clock

-----------------------------------------------------------------------------
(* Undo: undo_task_delete_inner.                                           *)

\* The receipt is read without a transaction; an expired one is refused.
ReadReceipt(c, t) ==
    /\ pc[c] = "idle"
    /\ Active(t)
    /\ pc' = [pc EXCEPT ![c] = IF receipt[t].mapping.exists THEN "check undo" ELSE "undo"]
    /\ plan' = [plan EXCEPT ![c] = [task |-> t, read |-> receipt[t]]]
    /\ UNCHANGED <<clock, Others>>

\* Fault for RestoresLatestDeletion: the receipt is not selected again.
UndoableAsRead(t, read) ==
    /\ LockFree
    /\ version[t] = 0 /\ read.expiry > now
    /\ read.deps = deps

\* Fault for RestoredEventSurvives: the deadline is not tested again.
UndoableLate(t, read) ==
    /\ LockFree
    /\ receipt[t] = read
    /\ read.deps = deps
    /\ t \in Focused => read.focus = focus
    /\ read.mapping.exists =>
          mapping[t] = Tombstone(read.mapping, read.expiry) /\ t \notin open

\* The same active receipt, nothing it depends on has changed, and the mapping is
\* still the tombstone that belongs to it.
Undoable(t, read) ==
    /\ LockFree
    /\ receipt[t] = read /\ Active(t)
    /\ read.deps = deps
    /\ t \in Focused => read.focus = focus
    /\ read.mapping.exists =>
          mapping[t] = Tombstone(read.mapping, read.expiry) /\ t \notin open

Restore(t, read) ==
    /\ version' = [version EXCEPT ![t] = read.version + 1]
    /\ event' = [event EXCEPT ![t] = IF read.mapping.exists THEN "block" ELSE "none"]
    /\ focus' = FocusAfter(t)
    /\ mapping' = [mapping EXCEPT ![t] =
          IF read.mapping.exists
          THEN [@ EXCEPT !.event = TRUE, !.deleted = FALSE, !.dirty = FALSE,
                         !.tombstone = FALSE, !.hold = 0]
          ELSE @]
    /\ receipt' = [receipt EXCEPT ![t] = NoReceipt]
    /\ touched' = touched \cup (IF t \in Focused THEN Focused ELSE {})
    /\ UNCHANGED <<deps, open, google, token, jobVars, erased>>

CommitUndo(c) ==
    LET t == plan[c].task IN
    /\ pc[c] = "undo"
    /\ IF Undoable(t, plan[c].read) THEN Restore(t, plan[c].read) ELSE UNCHANGED Others
    /\ Done(c)
    /\ UNCHANGED clock

\* cleanup_task_delete_undos (100 rows at a time), run by the dispatcher and by every run_once.
CleanupReceipts ==
    /\ \E t \in Tasks : receipt[t].version # 0 /\ ~Active(t)
    /\ receipt' = [t \in Tasks |-> IF Active(t) THEN receipt[t] ELSE NoReceipt]
    /\ UNCHANGED <<clock, local, sync, google, token, requests, jobVars, erased, touched>>

\* resolve_sync_conflict on a tombstone, which allows only `google`.
KeepGoogle(t) ==
    /\ t \in open
    /\ SyncLockFree
    /\ mapping[t].tombstone
    /\ open' = open \ {t}
    /\ receipt' = [receipt EXCEPT ![t] = NoReceipt]
    /\ mapping' = [mapping EXCEPT ![t].tombstone = FALSE, ![t].hold = 0, ![t].resolving = TRUE,
                                  ![t].conflict = FALSE, ![t].dirty = FALSE, ![t].deleted = FALSE,
                                  ![t].etag = 0]
    /\ UNCHANGED <<clock, local, google, token, requests, jobVars, erased, touched>>

-----------------------------------------------------------------------------
(* A synchronization job of the calendar, under the conflict policy `google`. *)

Item(t) == [task |-> t, ver |-> gver[t], live |-> glive[t]]

Job0 == <<now, edits, faults, busy, deps, focus, pc, plan, touched>>

\* Google forgets cancelled events in time, longer than an Undo is possible.  Only the
\* events of deleted tasks are considered.
Forgettable ==
    {t \in Linked : ~glive[t] /\ gver[t] # 0 /\ ~mapping[t].event /\ mapping[t].hold <= now}

\* The list of changes since the token, or after 410 Gone the list of all events, which
\* lacks the ones Google has forgotten.
StartJob ==
    /\ jpc = "idle"
    /\ jpc' = "pull"
    /\ mark' = seq
    /\ \/ /\ inbox' = {Item(t) : t \in {s \in Linked : gver[s] > token}}
          /\ UNCHANGED gver
       \/ \E forgotten \in SUBSET Forgettable :
             /\ gver' = [t \in Tasks |-> IF t \in forgotten THEN 0 ELSE gver[t]]
             /\ inbox' = {Item(t) : t \in {s \in Linked \ forgotten : gver[s] # 0}}
    /\ UNCHANGED <<Job0, version, event, sync, receipt, seq, glive, token, cur, work, erased>>

\* The next change of the list.
Take(item) ==
    /\ jpc = "pull"
    /\ inbox' = inbox \ {item}
    /\ UNCHANGED <<Job0, google, token, mark, work, erased>>

\* The recorded etag, of a tombstone too, or a cancelled event that is unknown here.
SkipChange(item) ==
    LET m == mapping[item.task] IN
    /\ Take(item)
    /\ IF item.live THEN m.exists /\ m.etag = item.ver ELSE ~m.exists
    /\ UNCHANGED <<version, event, sync, receipt, jpc, cur>>

Held(item) == mapping[item.task].tombstone

\* A deleted task's event was cancelled in Google too: receipt and mapping go together.
DropCancelled(item) ==
    /\ Take(item)
    /\ ~item.live /\ Held(item)
    /\ receipt' = [receipt EXCEPT ![item.task] = NoReceipt]
    /\ mapping' = [mapping EXCEPT ![item.task] = NoMapping]
    /\ open' = open \ {item.task}
    /\ UNCHANGED <<version, event, jpc, cur>>

\* A deleted task's event has another version: create_conflict's row, the mapping's
\* conflict_state, and then the receipt, each a statement of its own.
OpenConflict(item) ==
    /\ Take(item)
    /\ item.live /\ Held(item) /\ mapping[item.task].etag # item.ver
    /\ open' = open \cup {item.task}
    /\ cur' = item.task
    /\ jpc' = "mark"
    /\ UNCHANGED <<version, event, mapping, receipt>>

MarkConflict ==
    /\ jpc = "mark"
    /\ mapping' = [mapping EXCEPT ![cur].conflict = TRUE]
    /\ jpc' = "drop"
    /\ UNCHANGED <<Job0, version, event, open, receipt, google, token, inbox, cur, mark, work, erased>>

DropReceipt ==
    /\ jpc = "drop"
    /\ receipt' = [receipt EXCEPT ![cur] = NoReceipt]
    /\ jpc' = "pull"
    /\ cur' = NoTask
    /\ UNCHANGED <<Job0, version, event, sync, google, token, inbox, mark, work, erased>>

\* The linked task changes with its event; an event that is gone comes back unlinked.
Import(t, ver) ==
    /\ version' = [version EXCEPT ![t] = IF event[t] = "block" THEN @ + 1 ELSE @]
    /\ event' = [event EXCEPT ![t] = IF @ = "none" THEN "plain" ELSE @]
    /\ mapping' = [mapping EXCEPT ![t] = CleanMapping(ver)]
    /\ UNCHANGED <<open, receipt>>

\* delete_canonical_event unschedules the linked task; the mapping goes.
Cancel(t) ==
    /\ version' = [version EXCEPT ![t] = IF event[t] = "block" THEN @ + 1 ELSE @]
    /\ event' = [event EXCEPT ![t] = "none"]
    /\ mapping' = [mapping EXCEPT ![t] = NoMapping]
    /\ open' = open \ {t}
    /\ UNCHANGED receipt

\* Fault for NoAutomaticReturn: a tombstone is an ordinary deletion once it is not held.
TakeChangeAfterHold(item) ==
    LET m == mapping[item.task] IN
    /\ Take(item)
    /\ item.live /\ m.hold <= now
    /\ m.exists => m.etag # item.ver
    /\ Import(item.task, item.ver)
    /\ UNCHANGED <<jpc, cur>>

TakeChange(item) ==
    LET m == mapping[item.task] IN
    /\ Take(item)
    /\ item.live /\ ~Held(item)
    /\ m.exists => m.etag # item.ver
    /\ Import(item.task, item.ver)
    /\ UNCHANGED <<jpc, cur>>

TakeDeletion(item) ==
    /\ Take(item)
    /\ ~item.live /\ mapping[item.task].exists /\ ~Held(item)
    /\ Cancel(item.task)
    /\ UNCHANGED <<jpc, cur>>

\* Fault for NothingMissed: the token is stored whatever is unresolved.
FinishPullAlways ==
    /\ jpc = "pull" /\ inbox = {}
    /\ token' = mark
    /\ jpc' = "reconcile"
    /\ UNCHANGED <<Job0, version, event, sync, receipt, google, inbox, cur, mark, work, erased>>

FinishPull ==
    /\ jpc = "pull" /\ inbox = {}
    /\ token' = IF \E t \in Linked : mapping[t].conflict THEN token ELSE mark
    /\ jpc' = "reconcile"
    /\ UNCHANGED <<Job0, version, event, sync, receipt, google, inbox, cur, mark, work, erased>>

\* The events that reconcile_deleted_task_resolution looks up one by one.
ToReconcile ==
    {t \in Linked : LET m == mapping[t] IN m.resolving /\ ~m.dirty /\ ~m.deleted /\ ~m.event}

Reconcile(t) ==
    /\ jpc = "reconcile"
    /\ t \in ToReconcile
    /\ IF glive[t] THEN Import(t, gver[t]) ELSE Cancel(t)
    /\ UNCHANGED <<Job0, google, token, jobVars, erased>>

\* Fault for HeldWhileUndoable: deletion_hold_until is not looked at.
PushableUnheld(t) ==
    LET m == mapping[t] IN m.exists /\ (m.dirty \/ m.deleted) /\ ~m.conflict /\ ~m.resolving

\* Fault for ExpiredDeletionsSettle: a hold is never over.
PushableNeverHeld(t) == PushableUnheld(t) /\ mapping[t].hold = 0

Pushable(t) ==
    LET m == mapping[t] IN
    m.exists /\ (m.dirty \/ m.deleted) /\ ~m.conflict /\ ~m.resolving /\ m.hold <= now

SelectDirty ==
    /\ jpc = "reconcile" /\ ToReconcile = {}
    /\ work' = {t \in Linked : Pushable(t)}
    /\ jpc' = "push"
    /\ UNCHANGED <<Job0, version, event, sync, receipt, google, token, inbox, cur, mark, erased>>

\* Fault for OnlyOwnDeletionsReachGoogle: no If-Match header.
AcceptsAny(t) == glive[t]

\* If-Match; an event without recorded etag is written unconditionally.
Accepts(t) == glive[t] /\ mapping[t].etag \in {0, gver[t]}

\* 404 Not Found counts as deleted.
PushDelete(t) ==
    /\ jpc = "push" /\ t \in work
    /\ mapping[t].deleted
    /\ \/ Accepts(t) /\ GoogleWrites(t, FALSE) /\ erased' = erased \cup {t}
       \/ gver[t] = 0 /\ UNCHANGED <<google, erased>>
    /\ work' = work \ {t}
    /\ cur' = t
    /\ jpc' = "forget"
    /\ UNCHANGED <<Job0, version, event, sync, receipt, token, inbox, mark>>

ForgetMapping ==
    /\ jpc = "forget"
    /\ mapping' = [mapping EXCEPT ![cur] = NoMapping]
    /\ open' = open \ {cur}
    /\ jpc' = "push"
    /\ cur' = NoTask
    /\ UNCHANGED <<Job0, version, event, receipt, google, token, inbox, mark, work, erased>>

PushUpdate(t) ==
    /\ jpc = "push" /\ t \in work
    /\ ~mapping[t].deleted
    /\ Accepts(t) /\ GoogleWrites(t, TRUE)
    /\ mapping' = [mapping EXCEPT ![t] = CleanMapping(seq')]
    /\ work' = work \ {t}
    /\ UNCHANGED <<Job0, version, event, open, receipt, token, jpc, inbox, cur, mark, erased>>

Quit ==
    /\ jpc' = "idle" /\ inbox' = {} /\ cur' = NoTask /\ mark' = 0 /\ work' = {}
    /\ UNCHANGED <<now, edits, busy, local, sync, receipt, google, token, requests, erased, touched>>

EndJob == jpc = "push" /\ work = {} /\ Quit /\ UNCHANGED faults

\* 412 Precondition Failed; 404 and 410 for an update, 410 for a deletion.
FailJob ==
    /\ jpc = "push" /\ \E t \in work : ~Accepts(t) /\ (mapping[t].deleted => gver[t] # 0)
    /\ Quit
    /\ UNCHANGED faults

\* A crash, a lost answer or a failed statement.
Fault ==
    /\ jpc # "idle"
    /\ faults < MaxFaults
    /\ faults' = faults + 1
    /\ Quit

\* Time passes while a receipt or a hold waits for it.
Tick ==
    /\ \E t \in Tasks : receipt[t].expiry > now \/ mapping[t].hold > now
    /\ now' = now + 1
    /\ UNCHANGED <<edits, faults, busy, local, sync, receipt, google, token, requests, jobVars, erased, touched>>

-----------------------------------------------------------------------------
Apply(item) ==
    \/ SkipChange(item) \/ DropCancelled(item) \/ OpenConflict(item)
    \/ TakeChange(item) \/ TakeDeletion(item)

Job ==
    \/ StartJob \/ (\E item \in inbox : Apply(item)) \/ MarkConflict \/ DropReceipt
    \/ FinishPull \/ SelectDirty \/ ForgetMapping \/ EndJob \/ FailJob
    \/ \E t \in Linked : Reconcile(t) \/ PushDelete(t) \/ PushUpdate(t)

User ==
    \/ BeginElsewhere \/ EndElsewhere \/ ChangeDependency \/ ChangeFocus
    \/ \E t \in Tasks : EditTask(t) \/ DeleteTask(t) \/ KeepGoogle(t)
    \/ \E c \in Clients :
          \/ Validate(c) \/ Invalid(c) \/ CommitDelete(c) \/ CommitUndo(c)
          \/ \E t \in Tasks : PrepareDelete(c, t) \/ ReadReceipt(c, t)

Elsewhere == \E t \in Linked : GoogleEdit(t) \/ GoogleDelete(t)

Next == Job \/ Fault \/ User \/ Elsewhere \/ CleanupReceipts \/ Tick

Spec == Init /\ [][Next]_vars

\* The expiry job of every deletion and the scheduler keep jobs coming, and time passes.
FairSpec == Spec /\ WF_vars(Job) /\ WF_vars(Tick)

-----------------------------------------------------------------------------
(* Properties.                                                             *)

\* While Undo is offered for a scheduled task its event is not deleted from Google by a
\* job, and its mapping is the tombstone of this very receipt.
HeldWhileUndoable ==
    \A t \in Tasks : Active(t) /\ receipt[t].mapping.exists =>
        /\ t \notin erased
        /\ mapping[t].tombstone /\ mapping[t].hold = receipt[t].expiry

\* A restored time block still has its Google event: whatever an interrupted job has
\* already sent, Undo does not bring back a task whose event a job removed.
RestoredEventSurvives ==
    \A t \in Tasks : event[t] = "block" => t \notin erased

\* Every change of an event that the stored sync token covers has been taken over,
\* conflicts about deleted tasks and their resolution included.
NothingMissed ==
    jpc = "idle" => \A t \in Linked :
        glive[t] /\ gver[t] <= token => mapping[t].exists /\ mapping[t].etag = gver[t]

\* Undo restores the state of the latest deletion, once, before its deadline, and the
\* task's version is one that no client has seen before the deletion.
RestoresLatestDeletion ==
    [][\A t \in Tasks : version[t] = 0 /\ version'[t] # 0 =>
          Active(t) /\ version'[t] = receipt[t].version + 1]_vars

\* Undo is refused at its commit only for a reason: the receipt expired or is another
\* one, a job or another transaction of the user is in progress, or something the task
\* depends on changed since the deletion.
NoFalseRefusal ==
    [][\A c \in Clients : LET t == plan[c].task IN
          pc[c] = "undo" /\ pc'[c] = "idle" /\ version'[t] = 0 =>
              \/ receipt[t] # plan[c].read \/ ~Active(t)
              \/ jpc # "idle" \/ busy \/ t \in touched]_vars

\* A deleted task's event never comes back by itself: a pull inserts it again only after
\* the user chose to keep Google's version.
NoAutomaticReturn ==
    [][\A t \in Tasks : event[t] = "none" /\ event'[t] = "plain" => mapping[t].resolving]_vars

\* A job deletes from Google only the version the user deleted here, and never one that
\* is contested or that the user chose to keep.
OnlyOwnDeletionsReachGoogle ==
    [][\A t \in Tasks : t \in erased' \ erased =>
          t \notin open /\ mapping[t].tombstone /\ mapping[t].etag = gver[t]]_vars

\* Every held deletion comes to an end: Undo, the deletion in Google, or a conflict that
\* the user is shown.
ExpiredDeletionsSettle ==
    \A t \in Tasks : mapping[t].tombstone ~> (~mapping[t].tombstone \/ t \in open)

-----------------------------------------------------------------------------
(* The inductive invariant behind the safety properties.                   *)

Mappings ==
    [exists : BOOLEAN, event : BOOLEAN, etag : Nat, dirty : BOOLEAN, deleted : BOOLEAN,
     conflict : BOOLEAN, tombstone : BOOLEAN, hold : Nat, resolving : BOOLEAN, legacy : BOOLEAN]
Receipts == [version : Nat, expiry : Nat, deps : Nat, focus : Nat, mapping : Mappings]

RowTypes ==
    /\ version \in [Tasks -> Nat] /\ event \in [Tasks -> {"none", "block", "plain"}]
    /\ mapping \in [Tasks -> Mappings] /\ receipt \in [Tasks -> Receipts]
    /\ gver \in [Tasks -> Nat] /\ glive \in [Tasks -> BOOLEAN]
WorldTypes ==
    /\ now \in Nat /\ busy \in BOOLEAN /\ deps \in Nat /\ focus \in Nat /\ seq \in Nat /\ token \in Nat
    /\ open \subseteq Linked
JobTypes ==
    /\ jpc \in {"idle", "pull", "mark", "drop", "reconcile", "push", "forget"}
    /\ inbox \subseteq [task : Linked, ver : Nat, live : BOOLEAN]
    /\ mark \in Nat /\ work \subseteq Linked
RequestTypes ==
    /\ pc \in [Clients -> {"idle", "check delete", "delete", "check undo", "undo"}]
    /\ plan \in [Clients -> [task : Tasks \cup {NoTask}, read : Receipts]]
    /\ \A c \in Clients : pc[c] # "idle" => plan[c].task \in Tasks
TypeOK == RowTypes /\ WorldTypes /\ JobTypes /\ RequestTypes

\* A mapping is absent, ordinary (of a time block, or of an event that came back), the
\* tombstone of a deleted task, or one for which the user keeps Google's version.
Ordinary(t) ==
    LET m == mapping[t] IN
    /\ m.exists /\ m.event /\ m.etag # 0 /\ ~m.tombstone /\ ~m.resolving
    /\ ~m.deleted /\ ~m.conflict /\ m.hold = 0
    /\ event[t] # "none"
Buried(t) ==
    LET m == mapping[t] IN
    /\ m.exists /\ ~m.event /\ m.etag # 0 /\ m.tombstone /\ ~m.resolving
    /\ m.deleted /\ ~m.dirty
    /\ event[t] = "none" /\ version[t] = 0
Resolving(t) ==
    LET m == mapping[t] IN
    /\ m.exists /\ ~m.event /\ ~m.tombstone /\ m.resolving
    /\ ~m.deleted /\ ~m.dirty /\ ~m.conflict /\ m.hold = 0
    /\ event[t] = "none" /\ version[t] = 0 /\ receipt[t].version = 0
RowOK(t) ==
    /\ mapping[t].exists => t \in Linked
    /\ \/ mapping[t] = NoMapping /\ event[t] = "none"
       \/ Ordinary(t) \/ Buried(t) \/ Resolving(t)
    /\ event[t] = "block" <=> version[t] # 0 /\ event[t] # "none"

\* A receipt belongs to a task that is gone; while it is active the mapping is its
\* tombstone, but for a conflict that a job has found.
ReceiptOK(t) ==
    LET r == receipt[t] IN
    r.version # 0 =>
        /\ version[t] = 0 /\ event[t] = "none"
        /\ ~r.mapping.exists => ~mapping[t].exists
        /\ r.mapping.exists => r.mapping.etag # 0 /\ ~r.mapping.conflict /\ ~r.mapping.resolving
        /\ r.mapping.exists /\ r.expiry > now =>
              LET m == mapping[t] IN
              m.tombstone /\ m.hold = r.expiry /\ m.etag = r.mapping.etag /\ m.legacy = r.mapping.legacy

\* Google's event, and what the mapping knows of it.  The token covers nothing else.
EventOK(t) ==
    /\ gver[t] <= seq /\ mapping[t].etag <= seq
    /\ glive[t] => t \in Linked /\ mapping[t].exists /\ gver[t] # 0
    /\ glive[t] => mapping[t].etag <= gver[t]
    /\ glive[t] /\ gver[t] <= token => mapping[t].etag = gver[t]
    /\ mapping[t].conflict => t \in open
    /\ t \in open => mapping[t].tombstone /\ (glive[t] => mapping[t].etag # gver[t])
    /\ t \in erased => ~glive[t] /\ event[t] # "block"
    /\ t \in erased /\ receipt[t].version # 0 /\ receipt[t].mapping.exists =>
          receipt[t].expiry <= now

RowInv == \A t \in Tasks : RowOK(t) /\ ReceiptOK(t) /\ EventOK(t)

Pulling == jpc \in {"pull", "mark", "drop"}

\* The list in the hands of a job: what it does not show happened after it was taken.
ItemOK(item) ==
    LET t == item.task IN
    /\ item.ver <= mark
    /\ gver[t] # item.ver => gver[t] > mark
    /\ glive[t] => item.live
    /\ item.live => mapping[t].exists /\ mapping[t].etag <= item.ver /\ item.ver # 0
    /\ item.live /\ ~glive[t] => gver[t] > mark
Listed(t) ==
    glive[t] /\ gver[t] <= mark /\ mapping[t].etag # gver[t] =>
        \/ mapping[t].conflict
        \/ jpc = "mark" /\ cur = t
        \/ \E item \in inbox : item.task = t
PullInv ==
    /\ token <= seq
    /\ Pulling =>
        /\ token <= mark /\ mark <= seq
        /\ \A item \in inbox : ItemOK(item)
        /\ \A item, other \in inbox : item.task = other.task => item = other
        /\ \A t \in Linked : Listed(t)

\* The rows in the hands of a job.
HandInv ==
    /\ jpc \in {"mark", "drop"} => cur \in Linked /\ cur \in open
    /\ jpc = "forget" =>
          cur \in Linked \ work /\ mapping[cur].tombstone /\ mapping[cur].hold <= now /\ ~glive[cur]
    /\ jpc \in {"push", "forget"} => \A t \in work :
          LET m == mapping[t] IN
          m.exists /\ (m.dirty \/ m.deleted) /\ ~m.conflict /\ ~m.resolving /\ m.hold <= now

\* Nothing the receipt compares has changed unless it is on record.
TouchInv ==
    \A t \in Tasks : receipt[t].version # 0 /\ t \notin touched =>
        receipt[t].deps = deps /\ (t \in Focused => receipt[t].focus = focus)

\* A request that has read a receipt: versions only grow, and the event that Google showed
\* it is still the current one unless that is on record.
PlanOK(c) ==
    LET t == plan[c].task
        read == plan[c].read
    IN  pc[c] \in {"check undo", "undo"} =>
            /\ read.version # 0
            /\ version[t] # 0 => version[t] > read.version
            /\ receipt[t].version # 0 => receipt[t].version >= read.version
            /\ pc[c] = "undo" /\ receipt[t] = read /\ read.mapping.exists /\ read.expiry > now
               /\ t \notin touched => glive[t] /\ gver[t] = read.mapping.etag
PlanInv == \A c \in Clients : PlanOK(c)

UndoInv == RowInv /\ PullInv /\ HandInv /\ TouchInv /\ PlanInv
=============================================================================
