-------------------------- MODULE CalendarMoveUndo --------------------------
(***************************************************************************)
(* Moving a calendar item with a receipt for Undo, among the other         *)
(* transactions that write the same rows.  A transaction takes a           *)
(* connection of the pool, then its locks one by one in the order of the   *)
(* code, waiting for a lock or giving up when it is taken, and commits     *)
(* with all of them held: what it reads under a lock it still finds at its *)
(* commit.  The item is one event and, if linked, the task it schedules.   *)
(***************************************************************************)
EXTENDS Naturals, FiniteSets, Sequences

CONSTANTS
    Clients,      \* requests and jobs in progress
    Pool,         \* DATABASE_MAX_CONNECTIONS
    Times,        \* the schedules an item may have
    MaxReceipts,  \* 100 in the code
    MaxStarts,    \* bound: transactions begun
    MaxMoves,     \* bound: moves committed
    MaxRemote     \* bound: changes made in Google

ASSUME MoveAssumption ==
    /\ IsFiniteSet(Clients)
    /\ Pool \in Nat \ {0, 1} /\ MaxReceipts \in Nat \ {0}
    /\ MaxStarts \in Nat /\ MaxMoves \in Nat /\ MaxRemote \in Nat
    /\ "none" \notin Times /\ IsFiniteSet(Times) /\ Cardinality(Times) > 1

VARIABLES
    starts, remotes,
    event, task,     \* the item's rows
    mapping,         \* external_event_mappings of the event
    google, pulled,  \* the schedule in Google; whether the last one was pulled
    receipt, status, \* calendar_move_undos: the inverse schedules; whether they can be used
    tx,              \* the transactions in progress
    holder,          \* locks: who holds them, in which mode
    last             \* history: the receipt whose move wrote the item last, or 0

vars == <<starts, remotes, event, task, mapping, google, pulled, receipt, status, tx, holder, last>>

Receipts == 1..MaxMoves
Locks == {"sync", "graph", "user", "task", "event", "calendar", "mapping", "receipt"}
Schedules == Times \cup {"none"}

Moves == {"move_event", "move_task", "undo"}
Jobs == {"push", "pull", "remap"}
EventKinds == {"move_event", "update_event", "delete_event"}
TaskKinds == {"move_task", "update_task", "delete_task", "delete_with_undo", "focus"}
Kinds == Moves \cup Jobs \cup EventKinds \cup TaskKinds \cup {"delete_calendar", "delete_account"}

NoGuard == [id |-> 0, conflict |-> FALSE]
NoMapping == [id |-> 0, conflict |-> FALSE, dirty |-> FALSE, made |-> 1]
NoReceipt == [before |-> "none", taskBefore |-> "none", moved |-> "none",
              eventVersion |-> 0, taskVersion |-> 0, guard |-> NoGuard]
Idle == [kind |-> "idle", linked |-> FALSE, pc |-> 0, expect |-> 0, to |-> "none", r |-> 0]

\* An item that was moved so many times, 0 or 1, from its first schedule.
First == CHOOSE at \in Times : TRUE
ScheduleAfter(moved) == IF moved = 0 THEN First ELSE CHOOSE to \in Times : to # First

InitItem(linked, id, moved) ==
    /\ event = [live |-> TRUE, sched |-> ScheduleAfter(moved), version |-> 1 + moved]
    /\ task = [linked |-> linked, sched |-> IF linked THEN ScheduleAfter(moved) ELSE "none",
               version |-> IF linked THEN 1 + moved ELSE 0]
    /\ mapping = [NoMapping EXCEPT !.id = id, !.dirty = id = 1 /\ moved = 1]
    /\ google = First
    /\ receipt = [r \in Receipts |-> IF r > moved THEN NoReceipt ELSE
          [before |-> First, taskBefore |-> IF linked THEN First ELSE "none",
           moved |-> ScheduleAfter(moved), eventVersion |-> 2,
           taskVersion |-> IF linked THEN 2 ELSE 0, guard |-> [id |-> id, conflict |-> FALSE]]]
    /\ status = [r \in Receipts |-> IF r > moved THEN "none" ELSE "active"]
    /\ last = moved

\* A native or a mapped event, of a task or on its own, that nobody has moved or that was
\* just moved.
Init ==
    /\ starts = 0 /\ remotes = 0
    /\ \E linked \in BOOLEAN, id \in {0, 1}, moved \in {0, 1} : InitItem(linked, id, moved)
    /\ pulled = TRUE
    /\ tx = [c \in Clients |-> Idle]
    /\ holder = [l \in Locks |-> {}]

-----------------------------------------------------------------------------
(* The locks of each transaction, in order.                                *)

Wait(l) == [lock |-> l, mode |-> "own", wait |-> TRUE]
WaitShare(l) == [lock |-> l, mode |-> "share", wait |-> TRUE]
Try(l) == [lock |-> l, mode |-> "own", wait |-> FALSE]
TryShare(l) == [lock |-> l, mode |-> "share", wait |-> FALSE]
\* Another connection, for the statements of a job.
Second == [lock |-> "pool", mode |-> "own", wait |-> TRUE]
Provider == [lock |-> "provider", mode |-> "own", wait |-> TRUE]

\* Fault: a running synchronization is not looked at.
LockMoveAlone == <<Wait("graph"), TryShare("user")>>

LockMove == <<Try("sync"), Wait("graph"), TryShare("user")>>

\* A plain event has no task to lock.
IfLinked(linked, request) == IF linked THEN <<request>> ELSE <<>>

\* Fault: the rows are waited for.
LockItemWaiting(linked) ==
    IfLinked(linked, Wait("task")) \o <<Wait("event"), TryShare("calendar")>>

LockItem(linked) == IfLinked(linked, Try("task")) \o <<Try("event"), TryShare("calendar")>>

MoveLocks(linked) == LockMove \o LockItem(linked) \o <<Try("mapping")>>
UndoLocks(linked) == LockMove \o LockItem(linked) \o <<Try("receipt"), Try("mapping")>>

\* mark_event_for_sync: the mapping, then the parents of the job's row.
MarkForSync == <<Wait("mapping"), WaitShare("user"), WaitShare("calendar")>>

UpdateEventLocks(linked) == <<Wait("event")>> \o IfLinked(linked, Wait("task")) \o MarkForSync
UpdateTaskLocks(linked) ==
    <<Wait("graph")>> \o IfLinked(linked, Wait("task")) \o <<Wait("event")>> \o MarkForSync
DeleteTaskLocks(linked) ==
    <<Wait("graph"), Wait("event")>> \o MarkForSync \o <<Wait("receipt")>>
      \o IfLinked(linked, Wait("task"))
DeleteWithUndoLocks(linked) ==
    <<Try("sync"), Try("graph"), Try("user")>> \o IfLinked(linked, Try("task"))
      \o <<Try("event"), Try("mapping"), Wait("receipt")>>
DeleteEventLocks(linked) ==
    MarkForSync \o <<Wait("event"), Wait("receipt")>> \o IfLinked(linked, Wait("task"))
DeleteCalendarLocks == <<Wait("calendar"), Wait("event"), Wait("receipt"), Wait("mapping")>>
DeleteAccountLocks(linked) ==
    <<Wait("user")>> \o IfLinked(linked, Wait("task"))
      \o <<Wait("event"), Wait("receipt"), Wait("calendar"), Wait("mapping")>>
FocusLocks(linked) == <<Wait("user")>> \o IfLinked(linked, WaitShare("task"))

\* run_once holds one connection for the owner's lock and takes another for each of its
\* statements: to read what it needs, and after its call to Google to write.
RunOnce == <<Wait("sync"), Second, Provider, Second>>
PushLocks == RunOnce \o <<Wait("mapping")>>
PullLocks(linked) ==
    RunOnce \o <<Wait("event")>> \o IfLinked(linked, Wait("task")) \o <<Wait("mapping")>>

Plan(kind, linked) ==
    CASE kind \in {"move_event", "move_task"} -> MoveLocks(linked)
      [] kind = "undo" -> UndoLocks(linked)
      [] kind = "update_event" -> UpdateEventLocks(linked)
      [] kind = "update_task" -> UpdateTaskLocks(linked)
      [] kind = "delete_task" -> DeleteTaskLocks(linked)
      [] kind = "delete_with_undo" -> DeleteWithUndoLocks(linked)
      [] kind = "delete_event" -> DeleteEventLocks(linked)
      [] kind = "delete_calendar" -> DeleteCalendarLocks
      [] kind = "delete_account" -> DeleteAccountLocks(linked)
      [] kind = "focus" -> FocusLocks(linked)
      [] kind \in {"push", "remap"} -> PushLocks
      [] kind = "pull" -> PullLocks(linked)

LinkedPlan == [kind \in Kinds |-> Plan(kind, TRUE)]
PlainPlan == [kind \in Kinds |-> Plan(kind, FALSE)]
Requests(c) == IF tx[c].linked THEN LinkedPlan[tx[c].kind] ELSE PlainPlan[tx[c].kind]

Connected(c) == tx[c].kind # "idle" /\ tx[c].pc > 0
InJob(c) == tx[c].kind \in Jobs
Connections(c) == IF ~Connected(c) THEN 0 ELSE IF InJob(c) /\ tx[c].pc > Len(RunOnce) THEN 2 ELSE 1
PoolFree == Cardinality({c \in Clients : Connections(c) > 0})
              + Cardinality({c \in Clients : Connections(c) > 1}) < Pool

\* The request that a transaction is at.
AtRequest(c) == Connected(c) /\ tx[c].pc <= Len(Requests(c))
Asked(c) == Requests(c)[tx[c].pc]
AllLocked(c) == Connected(c) /\ tx[c].pc > Len(Requests(c))

\* The requests granted in one step: one that is waited for, or all that follow each other
\* and are not.  Another transaction's step between two of these could come before them.
Batch(c) ==
    LET requests == Requests(c)
    IN  {i \in tx[c].pc..Len(requests) :
            i = tx[c].pc \/ \A j \in tx[c].pc..i : ~requests[j].wait}
Wanted(c) == {Requests(c)[i] : i \in Batch(c)}

\* Those that keep a lock from a transaction.
Blockers(c) ==
    IF AtRequest(c) /\ Asked(c).lock \in Locks
    THEN {d \in Clients \ {c} : \E mode \in {"share", "own"} : \E q \in Wanted(c) :
              <<d, mode>> \in holder[q.lock] /\ "own" \in {mode, q.mode}}
    ELSE {}

Waiting(c) == AtRequest(c) /\ Asked(c).wait /\ Blockers(c) # {}
WaitsForPool(c) ==
    /\ ~PoolFree
    /\ \/ tx[c].kind # "idle" /\ tx[c].pc = 0
       \/ AtRequest(c) /\ Asked(c).lock = "pool"

-----------------------------------------------------------------------------
(* Transactions.                                                           *)

Items == <<event, task, mapping, google, pulled, receipt, status, last>>

\* A request arrives with what its sender saw, or a job is claimed.  Fewer jobs run at a
\* time than the pool has connections: the dispatcher's one, and those of the worker endpoint.
Begin(c, kind) ==
    /\ starts < MaxStarts /\ starts' = starts + 1
    /\ tx[c] = Idle
    /\ kind \in TaskKinds => task.linked
    /\ kind \in Jobs => Cardinality({d \in Clients : InJob(d)}) < Pool - 1
    /\ \E to \in Schedules, r \in {0} \cup Receipts :
          /\ (kind = "undo") = (r # 0)
          /\ r # 0 => status[r] # "none"
          /\ to # "none" => kind \in {"move_event", "move_task", "update_event", "update_task"}
          /\ to = "none" => kind \notin {"move_event", "move_task", "update_event"}
          /\ tx' = [tx EXCEPT ![c] =
                [kind |-> kind, linked |-> task.linked, pc |-> IF PoolFree THEN 1 ELSE 0, to |-> to, r |-> r,
                 expect |-> IF kind \in EventKinds THEN event.version
                            ELSE IF kind \in TaskKinds THEN task.version ELSE 0]]
    /\ UNCHANGED <<Items, holder, remotes>>

Connect(c) ==
    /\ tx[c].kind # "idle" /\ tx[c].pc = 0
    /\ PoolFree
    /\ tx' = [tx EXCEPT ![c].pc = 1]
    /\ UNCHANGED <<Items, starts, holder, remotes>>

Pushable == event.live /\ ~mapping.conflict /\ (mapping.id = 0 \/ mapping.dirty)

\* A statement of a job: a push reads the event that it will send.
TakeSecond(c) ==
    /\ AtRequest(c) /\ Asked(c).lock = "pool"
    /\ PoolFree
    /\ tx' = [tx EXCEPT ![c].pc = @ + 1,
                        ![c].to = IF tx[c].kind = "push" /\ tx[c].pc = 2 /\ Pushable
                                  THEN event.sched ELSE @]
    /\ UNCHANGED <<Items, starts, holder, remotes>>

\* The call to Google: a push replaces the version last pulled, a pull reads.
CallGoogle(c) ==
    /\ AtRequest(c) /\ Asked(c).lock = "provider"
    /\ tx[c].kind = "push" => tx[c].to # "none" /\ pulled
    /\ google' = IF tx[c].kind = "push" THEN tx[c].to ELSE google
    /\ tx' = [tx EXCEPT ![c].pc = @ + 1, ![c].to = google']
    /\ UNCHANGED <<event, task, mapping, pulled, receipt, status, last, starts, holder, remotes>>

Grant(c) ==
    /\ AtRequest(c) /\ Asked(c).lock \in Locks
    /\ Blockers(c) = {}
    /\ holder' = [l \in Locks |-> holder[l] \cup {<<c, q.mode>> : q \in {w \in Wanted(c) : w.lock = l}}]
    /\ tx' = [tx EXCEPT ![c].pc = @ + Cardinality(Batch(c))]
    /\ UNCHANGED <<Items, starts, remotes>>

End(c) ==
    /\ tx' = [tx EXCEPT ![c] = Idle]
    /\ holder' = [l \in Locks |-> {h \in holder[l] : h[1] # c}]
    /\ UNCHANGED <<starts, remotes>>

\* A lock that is not waited for is taken: the transaction is rolled back.  So it is
\* when a statement fails, the database ends a deadlock, or the connection breaks.
\* The checks that no property needs (a read-only calendar, the end of a recurrence) refuse here.
Refused(c) == AtRequest(c) /\ Blockers(c) # {} /\ ~Asked(c).wait /\ End(c) /\ UNCHANGED Items
Abort(c) == Connected(c) /\ End(c) /\ UNCHANGED Items

\* Rows written by a commit.
Moved(e, to) == [live |-> e.live, sched |-> to, version |-> e.version + 1]
MovedTask(to) == IF task.linked THEN [task EXCEPT !.sched = to, !.version = @ + 1] ELSE task
Dirty == [mapping EXCEPT !.dirty = mapping.id # 0]
Guard == [id |-> mapping.id, conflict |-> mapping.conflict]

\* An event's receipts and its mapping's reference go with it.
Cascade == [r \in Receipts |-> IF status[r] = "active" THEN "gone" ELSE status[r]]
Unmapped == [mapping EXCEPT !.id = 0, !.conflict = FALSE, !.dirty = FALSE]
Gone == [live |-> FALSE, sched |-> "none", version |-> 0]

CapReached == Cardinality({r \in Receipts : status[r] = "active"}) >= MaxReceipts

\* move_calendar_item
CommitMove(c, r) ==
    /\ AllLocked(c) /\ tx[c].kind \in {"move_event", "move_task"}
    /\ status[r] = "none" /\ \A q \in Receipts : q < r => status[q] # "none"
    /\ ~CapReached
    /\ event.live
    /\ tx[c].expect = IF tx[c].kind = "move_task" THEN task.version ELSE event.version
    /\ tx[c].to # event.sched
    /\ ~mapping.conflict
    /\ event' = Moved(event, tx[c].to) /\ task' = MovedTask(tx[c].to)
    /\ mapping' = Dirty
    /\ receipt' = [receipt EXCEPT ![r] =
          [before |-> event.sched, taskBefore |-> task.sched, moved |-> tx[c].to,
           eventVersion |-> event.version + 1, taskVersion |-> MovedTask(tx[c].to).version, guard |-> Guard]]
    /\ status' = [status EXCEPT ![r] = "active"]
    /\ last' = r
    /\ End(c) /\ UNCHANGED <<google, pulled>>

\* Fault: only the task is compared.
TaskUnchanged(r) == task.linked => task.version = receipt[r].taskVersion

\* The item is as the move left it.
Unchanged(r) ==
    /\ event.version = receipt[r].eventVersion
    /\ task.linked => task.version = receipt[r].taskVersion

\* undo_calendar_move; the receipt is consumed only if it has still not expired.
CommitUndo(c, r) ==
    /\ AllLocked(c) /\ tx[c].kind = "undo" /\ tx[c].r = r
    /\ event.live /\ status[r] = "active"
    /\ Unchanged(r)
    /\ ~mapping.conflict /\ Guard = receipt[r].guard
    /\ event' = Moved(event, receipt[r].before) /\ task' = MovedTask(receipt[r].taskBefore)
    /\ mapping' = Dirty
    /\ status' = [status EXCEPT ![r] = "gone"]
    /\ last' = 0
    /\ End(c) /\ UNCHANGED <<google, pulled, receipt>>

\* update_calendar_event, perhaps into another calendar
CommitUpdateEvent(c, elsewhere) ==
    /\ AllLocked(c) /\ tx[c].kind = "update_event"
    /\ event.live /\ tx[c].expect = event.version
    /\ event' = Moved(event, tx[c].to) /\ task' = MovedTask(tx[c].to)
    /\ mapping' = IF elsewhere THEN Unmapped ELSE Dirty
    /\ last' = 0
    /\ End(c) /\ UNCHANGED <<google, pulled, receipt, status>>

RemoveEvent ==
    /\ event' = Gone /\ mapping' = Unmapped /\ status' = Cascade

\* update_task_scoped and sync_task_calendar_event: the block is written, created or removed.
CommitUpdateTask(c) ==
    /\ AllLocked(c) /\ tx[c].kind = "update_task"
    /\ task.linked /\ tx[c].expect = task.version
    /\ task' = MovedTask(tx[c].to)
    /\ IF tx[c].to = "none" THEN RemoveEvent
       ELSE /\ event' = IF event.live THEN Moved(event, tx[c].to)
                        ELSE [live |-> TRUE, sched |-> tx[c].to, version |-> 1]
            /\ mapping' = Dirty /\ UNCHANGED status
    /\ last' = 0
    /\ End(c) /\ UNCHANGED <<google, pulled, receipt>>

\* delete_task, the deletion with Undo, and the deletion of the account
CommitDeleteTask(c) ==
    /\ AllLocked(c) /\ tx[c].kind \in {"delete_task", "delete_with_undo", "delete_account"}
    /\ tx[c].kind # "delete_account" => tx[c].expect = task.version
    /\ task' = [linked |-> FALSE, sched |-> "none", version |-> 0]
    /\ RemoveEvent /\ last' = 0
    /\ End(c) /\ UNCHANGED <<google, pulled, receipt>>

\* delete_calendar_event
CommitDeleteEvent(c) ==
    /\ AllLocked(c) /\ tx[c].kind = "delete_event"
    /\ event.live /\ tx[c].expect = event.version
    /\ task' = MovedTask("none")
    /\ RemoveEvent /\ last' = 0
    /\ End(c) /\ UNCHANGED <<google, pulled, receipt>>

\* delete_calendar: the event goes with it, the task keeps its times.
CommitDeleteCalendar(c) ==
    /\ AllLocked(c) /\ tx[c].kind = "delete_calendar"
    /\ RemoveEvent /\ last' = 0
    /\ End(c) /\ UNCHANGED <<google, pulled, task, receipt>>

\* update_daily_focus writes neither row, but refers to the task.
CommitFocus(c) ==
    /\ AllLocked(c) /\ tx[c].kind = "focus"
    /\ End(c) /\ UNCHANGED Items

\* A push records what it sent.
CommitPush(c) ==
    /\ AllLocked(c) /\ tx[c].kind = "push"
    /\ mapping' = IF mapping.id # 0 THEN [mapping EXCEPT !.dirty = FALSE]
                  ELSE IF event.live THEN [mapping EXCEPT !.id = mapping.made + 1, !.made = @ + 1]
                  ELSE mapping
    /\ End(c) /\ UNCHANGED <<event, task, google, pulled, receipt, status, last>>

\* A pull applies a change of Google, or records a conflict with a local one.
CommitPull(c) ==
    /\ AllLocked(c) /\ tx[c].kind = "pull"
    /\ ~pulled /\ event.live /\ mapping.id # 0 /\ ~mapping.conflict
    /\ IF mapping.dirty
       THEN mapping' = [mapping EXCEPT !.conflict = TRUE] /\ UNCHANGED <<event, task, last, pulled>>
       ELSE /\ event' = Moved(event, tx[c].to) /\ task' = MovedTask(tx[c].to)
            /\ last' = 0 /\ pulled' = (google = tx[c].to) /\ UNCHANGED mapping
    /\ End(c) /\ UNCHANGED <<google, receipt, status>>

\* The event was deleted in Google and is kept here: the next push maps it anew.
CommitRemap(c) ==
    /\ AllLocked(c) /\ tx[c].kind = "remap"
    /\ mapping.dirty /\ mapping' = Unmapped /\ pulled' = TRUE
    /\ End(c) /\ UNCHANGED <<event, task, google, receipt, status, last>>

-----------------------------------------------------------------------------
\* After 60 seconds a receipt is of no use, whether or not cleanup has removed its row.
Expire(r) ==
    /\ status[r] = "active"
    /\ status' = [status EXCEPT ![r] = "gone"]
    /\ UNCHANGED <<starts, remotes, event, task, mapping, google, pulled, receipt, tx, holder, last>>

GoogleEdit(to) ==
    /\ remotes < MaxRemote /\ remotes' = remotes + 1
    /\ mapping.id # 0 /\ to # google
    /\ google' = to /\ pulled' = FALSE
    /\ UNCHANGED <<starts, event, task, mapping, receipt, status, tx, holder, last>>

Commit(c) ==
    \/ \E r \in Receipts : CommitMove(c, r) \/ CommitUndo(c, r)
    \/ CommitUpdateTask(c) \/ CommitDeleteTask(c) \/ CommitDeleteEvent(c)
    \/ \E elsewhere \in BOOLEAN : CommitUpdateEvent(c, elsewhere)
    \/ CommitDeleteCalendar(c) \/ CommitFocus(c)
    \/ CommitPush(c) \/ CommitPull(c) \/ CommitRemap(c)

Next ==
    \/ \E c \in Clients :
          \/ \E kind \in Kinds : Begin(c, kind)
          \/ Connect(c) \/ TakeSecond(c) \/ CallGoogle(c) \/ Grant(c) \/ Refused(c) \/ Abort(c) \/ Commit(c)
    \/ \E r \in Receipts : Expire(r)
    \/ \E to \in Times : GoogleEdit(to)

Spec == Init /\ [][Next]_vars

-----------------------------------------------------------------------------
(* Properties.                                                             *)

\* Undo overwrites nothing: when it commits, nobody has written the event or the task
\* since its move, however long it waited for the task graph, and both get back the
\* schedules they had (undo_calendar_move, "Undo cannot overwrite a later change").
UndoRevertsItsOwnMove ==
    [][\A r \in Receipts :
          status[r] = "active" /\ status'[r] = "gone" /\ event' # event /\ event'.live =>
             /\ last = r /\ event.sched = receipt[r].moved
             /\ event'.sched = receipt[r].before
             /\ task'.linked => task'.sched = receipt[r].taskBefore]_vars

\* Everyone in S waits for a lock held in S, or for a connection when S holds them all.
Deadlocked(S) ==
    \A c \in S : \/ Waiting(c) /\ Blockers(c) \cap S # {}
                 \/ WaitsForPool(c) /\ {d \in Clients : Connected(d)} \subseteq S

LockCycle(S) == S # {} /\ \A c \in S : Waiting(c) /\ Blockers(c) \cap S # {}

\* A move or an Undo is never part of a deadlock, and neither is the pool: every deadlock
\* is one of row locks among other writers, which the database detects and ends (lock_move:
\* "Never wait for provider HTTP or acquire a second pool connection"; lock_item).
MovesNeverDeadlock ==
    \A S \in SUBSET Clients :
        S # {} /\ Deadlocked(S) =>
            \E T \in SUBSET S : LockCycle(T) /\ \A c \in T : tx[c].kind \notin Moves

\* A move reaches Google: unless it is marked for the next push, contested, or overtaken by a change
\* in Google, Google has the schedule of the last move.  A push that read the event before the
\* move must not clear the mark the move sets.
MovesReachGoogle ==
    last # 0 /\ mapping.id # 0 /\ ~mapping.dirty /\ ~mapping.conflict /\ pulled => google = event.sched

=============================================================================
