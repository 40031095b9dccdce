----------------------- MODULE CalendarMoveUndoProofs -----------------------
(***************************************************************************)
(* Undo of a calendar move reverts only its own move, the receipts are     *)
(* bounded, no move is in a deadlock and no move is lost to a running      *)
(* synchronization, for every number of transactions, connections,         *)
(* receipts and schedules.                                                 *)
(***************************************************************************)
EXTENDS CalendarMoveUndo, FiniteSetTheorems, TLAPS

\* The rows that the argument reads.
RowsOK ==
    /\ event.version \in Nat
    /\ status \in [Receipts -> {"none", "active", "gone"}]
    /\ DOMAIN receipt = Receipts
    /\ \A r \in Receipts : receipt[r].eventVersion \in Nat

\* What an active receipt promises: its event exists, is not older than the move, and is
\* exactly as the move left it as long as it has the version the move gave it.
ReceiptInv ==
    \A r \in Receipts : status[r] = "active" =>
        /\ event.live
        /\ event.version >= receipt[r].eventVersion
        /\ event.version = receipt[r].eventVersion => last = r /\ event.sched = receipt[r].moved

Inv == RowsOK /\ ReceiptInv

\* How a step may change the event and its receipts.
Untouched == UNCHANGED <<event, receipt, status, last>>
Removed == event' = Gone /\ status' = Cascade /\ UNCHANGED receipt
Rewritten ==
    /\ event.live /\ \E to : event' = Moved(event, to)
    /\ UNCHANGED <<receipt, status>>
Created ==
    /\ ~event.live /\ \E to : event' = [live |-> TRUE, sched |-> to, version |-> 1]
    /\ UNCHANGED <<receipt, status>>
MoveMade(r) ==
    /\ status[r] = "none" /\ ~CapReached
    /\ event.live /\ last' = r
    /\ status' = [status EXCEPT ![r] = "active"]
    /\ \E to, task0, v, g :
        /\ event' = Moved(event, to)
        /\ receipt' = [receipt EXCEPT ![r] =
              [before |-> event.sched, taskBefore |-> task0, moved |-> to,
               eventVersion |-> event.version + 1, taskVersion |-> v, guard |-> g]]
Undone(r) ==
    /\ event.live /\ status[r] = "active" /\ event.version = receipt[r].eventVersion
    /\ event' = Moved(event, receipt[r].before) /\ task' = MovedTask(receipt[r].taskBefore)
    /\ status' = [status EXCEPT ![r] = "gone"] /\ UNCHANGED receipt
Expired(r) == status' = [status EXCEPT ![r] = "gone"] /\ UNCHANGED <<event, receipt, last>>

Effect ==
    \/ Untouched \/ Removed \/ Rewritten \/ Created
    \/ \E r \in Receipts : MoveMade(r) \/ Undone(r) \/ Expired(r)

\* Every step has one of these effects.
LEMMA StepEffect == [Next]_vars => Effect
<1> SUFFICES ASSUME [Next]_vars PROVE Effect
  OBVIOUS
<1> USE DEF Effect
<1>1. CASE UNCHANGED vars
  BY <1>1 DEF vars, Untouched
<1>2. ASSUME NEW c \in Clients, NEW kind \in Kinds, Begin(c, kind) PROVE Effect
  <2>1. Untouched
    BY <1>2, Zenon DEF Begin, Items, Untouched
  <2> QED BY <2>1
<1>3. ASSUME NEW c \in Clients,
             \/ Connect(c) \/ TakeSecond(c) \/ CallGoogle(c) \/ Grant(c) \/ Refused(c) \/ Abort(c)
             \/ CommitFocus(c) \/ CommitPush(c) \/ CommitRemap(c)
      PROVE  Effect
  <2>1. ASSUME Connect(c) PROVE Untouched
    BY <2>1, Zenon DEF Connect, Items, Untouched
  <2>2. ASSUME TakeSecond(c) PROVE Untouched
    BY <2>2, Zenon DEF TakeSecond, Items, Untouched
  <2>3. ASSUME CallGoogle(c) PROVE Untouched
    BY <2>3, Zenon DEF CallGoogle, Untouched
  <2>4. ASSUME Grant(c) PROVE Untouched
    BY <2>4, Zenon DEF Grant, Items, Untouched
  <2>5. ASSUME Refused(c) \/ Abort(c) \/ CommitFocus(c) PROVE Untouched
    BY <2>5 DEF Refused, Abort, CommitFocus, Items, Untouched
  <2>6. ASSUME CommitPush(c) PROVE Untouched
    BY <2>6, Zenon DEF CommitPush, Untouched
  <2>7. ASSUME CommitRemap(c) PROVE Untouched
    BY <2>7 DEF CommitRemap, Untouched
  <2> QED BY <1>3, <2>1, <2>2, <2>3, <2>4, <2>5, <2>6, <2>7
<1>4. ASSUME NEW c \in Clients, NEW r \in Receipts, CommitMove(c, r) PROVE Effect
  <2>1. MoveMade(r)
    BY <1>4, Zenon DEF CommitMove, MoveMade
  <2> QED BY <2>1
<1>5. ASSUME NEW c \in Clients, NEW r \in Receipts, CommitUndo(c, r) PROVE Effect
  <2>1. Undone(r)
    BY <1>5 DEF CommitUndo, Undone, Unchanged
  <2> QED BY <2>1
<1>6. ASSUME NEW c \in Clients, NEW elsewhere \in BOOLEAN, CommitUpdateEvent(c, elsewhere)
      PROVE  Effect
  <2>1. Rewritten
    BY <1>6, Zenon DEF CommitUpdateEvent, Rewritten
  <2> QED BY <2>1
<1>7. ASSUME NEW c \in Clients, CommitUpdateTask(c) PROVE Effect
  <2>1. CASE tx[c].to = "none"
    <3>1. Removed
      BY <1>7, <2>1, Zenon DEF CommitUpdateTask, RemoveEvent, Removed
    <3> QED BY <3>1
  <2>2. CASE tx[c].to # "none" /\ event.live
    <3>1. Rewritten
      BY <1>7, <2>2, Zenon DEF CommitUpdateTask, Rewritten
    <3> QED BY <3>1
  <2>3. CASE tx[c].to # "none" /\ ~event.live
    <3>1. Created
      BY <1>7, <2>3, Zenon DEF CommitUpdateTask, Created
    <3> QED BY <3>1
  <2> QED BY <2>1, <2>2, <2>3
<1>8. ASSUME NEW c \in Clients,
             CommitDeleteTask(c) \/ CommitDeleteEvent(c) \/ CommitDeleteCalendar(c)
      PROVE  Effect
  <2>1. Removed
    BY <1>8, Zenon DEF CommitDeleteTask, CommitDeleteEvent, CommitDeleteCalendar, RemoveEvent, Removed
  <2> QED BY <2>1
<1>9. ASSUME NEW c \in Clients, CommitPull(c) PROVE Effect
  <2>1. CASE mapping.dirty
    <3>1. Untouched
      BY <1>9, <2>1, Zenon DEF CommitPull, Untouched
    <3> QED BY <3>1
  <2>2. CASE ~mapping.dirty
    <3>1. Rewritten
      BY <1>9, <2>2, Zenon DEF CommitPull, Rewritten
    <3> QED BY <3>1
  <2> QED BY <2>1, <2>2
<1>10. ASSUME NEW r \in Receipts, Expire(r) PROVE Effect
  BY <1>10 DEF Expire, Expired
<1>11. ASSUME NEW to \in Times, GoogleEdit(to) PROVE Effect
  BY <1>11 DEF GoogleEdit, Untouched
<1> QED
  BY <1>1, <1>2, <1>3, <1>4, <1>5, <1>6, <1>7, <1>8, <1>9, <1>10, <1>11 DEF Next, Commit

\* The item of the first state has no receipt, or the one of its only move.
LEMMA InitInv == Init => Inv
<1> SUFFICES ASSUME Init PROVE Inv
  OBVIOUS
<1>1. PICK linked \in BOOLEAN, id \in {0, 1}, moved \in {0, 1} : InitItem(linked, id, moved)
  BY Zenon DEF Init
<1>2. \A r \in Receipts : r \in Nat /\ r > 0
  BY MoveAssumption DEF Receipts
<1>3. /\ event = [live |-> TRUE, sched |-> ScheduleAfter(moved), version |-> 1 + moved]
      /\ status = [r \in Receipts |-> IF r > moved THEN "none" ELSE "active"]
      /\ last = moved
  BY <1>1, Zenon DEF InitItem
<1>4. DOMAIN receipt = Receipts /\ \A r \in Receipts : receipt[r].eventVersion \in {0, 2}
  BY <1>1 DEF InitItem, NoReceipt
<1>5. \A r \in Receipts : ~(r > moved) => receipt[r].eventVersion = 2 /\ receipt[r].moved = ScheduleAfter(moved)
  BY <1>1 DEF InitItem
<1>6. RowsOK
  BY <1>3, <1>4 DEF RowsOK
<1>7. ReceiptInv
  <2> SUFFICES ASSUME NEW r \in Receipts, status[r] = "active"
               PROVE  /\ event.live
                      /\ event.version >= receipt[r].eventVersion
                      /\ event.version = receipt[r].eventVersion => last = r /\ event.sched = receipt[r].moved
    BY DEF ReceiptInv
  <2>1. ~(r > moved)
    BY <1>3
  <2>2. r = 1 /\ moved = 1
    BY <2>1, <1>2
  <2> QED BY <2>1, <2>2, <1>3, <1>5
<1> QED BY <1>6, <1>7 DEF Inv

\* Every writer of the event counts its version up, so that no receipt fits it any longer.
LEMMA StepInv == Inv /\ [Next]_vars => Inv'
<1> SUFFICES ASSUME Inv, Effect PROVE Inv'
  BY StepEffect
<1> USE DEF Inv, RowsOK, ReceiptInv
<1>1. CASE Untouched
  BY <1>1 DEF Untouched
<1>2. CASE Removed
  BY <1>2 DEF Removed, Gone, Cascade
<1>3. CASE Rewritten
  BY <1>3 DEF Rewritten, Moved
<1>4. CASE Created
  BY <1>4 DEF Created
<1>5. ASSUME NEW r \in Receipts, MoveMade(r) PROVE Inv'
  BY <1>5 DEF MoveMade, Moved
<1>6. ASSUME NEW r \in Receipts, Undone(r) PROVE Inv'
  BY <1>6 DEF Undone, Moved
<1>7. ASSUME NEW r \in Receipts, Expired(r) PROVE Inv'
  BY <1>7 DEF Expired
<1> QED
  BY <1>1, <1>2, <1>3, <1>4, <1>5, <1>6, <1>7 DEF Effect

\* The receipts keep their promise in every reachable state.
LEMMA Invariance == Spec => []Inv
  BY InitInv, StepInv, PTL DEF Spec

\* An Undo that commits finds the item exactly as its own move left it, and gives it back
\* the schedules it had: undo_calendar_move cannot overwrite a later change, whoever made
\* it and however long the Undo waited for its locks.
THEOREM UndoIsSafe == Spec => UndoRevertsItsOwnMove
<1> DEFINE Reverts ==
      \A r \in Receipts :
          status[r] = "active" /\ status'[r] = "gone" /\ event' # event /\ event'.live =>
             /\ last = r /\ event.sched = receipt[r].moved
             /\ event'.sched = receipt[r].before
             /\ task'.linked => task'.sched = receipt[r].taskBefore
<1>1. ASSUME Inv, [Next]_vars PROVE Reverts
  <2>1. Effect
    BY <1>1, StepEffect
  <2> SUFFICES ASSUME NEW q \in Receipts, status[q] = "active", status'[q] = "gone",
                      event' # event, event'.live
               PROVE  /\ last = q /\ event.sched = receipt[q].moved
                      /\ event'.sched = receipt[q].before
                      /\ task'.linked => task'.sched = receipt[q].taskBefore
    OBVIOUS
  <2>2. ~Untouched /\ ~Removed /\ ~Rewritten /\ ~Created
    BY <1>1 DEF Untouched, Removed, Gone, Rewritten, Created
  <2>3. PICK r \in Receipts : Undone(r)
    BY <1>1, <2>1, <2>2 DEF Effect, MoveMade, Expired, Inv, RowsOK
  <2>4. q = r
    BY <1>1, <2>3 DEF Undone, Inv, RowsOK
  <2>5. last = q /\ event.sched = receipt[q].moved /\ event'.sched = receipt[q].before
    BY <1>1, <2>3, <2>4 DEF Undone, Moved, Inv, ReceiptInv
  <2>6. task'.linked => task'.sched = receipt[q].taskBefore
    BY <2>3, <2>4 DEF Undone, MovedTask
  <2> QED BY <2>5, <2>6
<1>2. Inv /\ [Next]_vars => [Reverts]_vars
  BY <1>1
<1> QED
  BY Invariance, <1>2, PTL DEF Spec, UndoRevertsItsOwnMove

-----------------------------------------------------------------------------
ActiveReceipts == {r \in Receipts : status[r] = "active"}

\* Receipts are numbered.
LEMMA ReceiptsFinite == IsFiniteSet(Receipts)
<1>1. 1 \in Int /\ MaxMoves \in Int
  BY MoveAssumption
<1>2. IsFiniteSet(1..MaxMoves)
  BY <1>1, FS_Interval
<1> QED BY <1>2 DEF Receipts

\* The active receipts are finitely many, so that a smaller set of them has fewer members.
LEMMA FewerActive ==
  ASSUME NEW S, S \subseteq Receipts, Cardinality(S) <= MaxReceipts,
         NEW T, T \subseteq S
  PROVE  Cardinality(T) <= MaxReceipts
<1>1. IsFiniteSet(S)
  BY ReceiptsFinite, FS_Subset
<1>2. Cardinality(T) <= Cardinality(S) /\ Cardinality(S) \in Nat /\ Cardinality(T) \in Nat
  BY <1>1, FS_Subset, FS_CardinalityType
<1> QED BY <1>2, MoveAssumption

\* At most MaxReceipts moves can be undone at a time.
ReceiptsBounded == Cardinality({r \in Receipts : status[r] = "active"}) <= MaxReceipts

\* No more than one move was made before.
LEMMA InitBounded == Init => ReceiptsBounded
<1> SUFFICES ASSUME Init PROVE ReceiptsBounded
  OBVIOUS
<1>1. PICK linked \in BOOLEAN, id \in {0, 1}, moved \in {0, 1} : InitItem(linked, id, moved)
  BY Zenon DEF Init
<1>2. status = [r \in Receipts |-> IF r > moved THEN "none" ELSE "active"]
  BY <1>1, Zenon DEF InitItem
<1>3. ActiveReceipts \subseteq {1}
  BY <1>2, MoveAssumption DEF ActiveReceipts, Receipts
<1>4. IsFiniteSet({1}) /\ Cardinality({1}) = 1
  BY FS_Singleton
<1>5. IsFiniteSet(ActiveReceipts) /\ Cardinality(ActiveReceipts) <= 1
  BY <1>3, <1>4, FS_Subset
<1>6. Cardinality(ActiveReceipts) \in Nat
  BY <1>5, FS_CardinalityType
<1>7. Cardinality(ActiveReceipts) <= MaxReceipts
  BY <1>5, <1>6, MoveAssumption
<1> QED BY <1>7 DEF ReceiptsBounded, ActiveReceipts

\* Only a move adds a receipt, and only below the limit.
LEMMA StepBounded == Inv /\ ReceiptsBounded /\ [Next]_vars => ReceiptsBounded'
<1> SUFFICES ASSUME Inv, ReceiptsBounded, Effect PROVE ReceiptsBounded'
  BY StepEffect
<1>1. /\ ActiveReceipts \subseteq Receipts /\ ActiveReceipts' \subseteq Receipts
      /\ Cardinality(ActiveReceipts) <= MaxReceipts
  BY DEF ReceiptsBounded, ActiveReceipts, Receipts
<1>2. SUFFICES Cardinality(ActiveReceipts') <= MaxReceipts
  BY DEF ReceiptsBounded, ActiveReceipts, Receipts
<1>3. ASSUME ActiveReceipts' \subseteq ActiveReceipts PROVE Cardinality(ActiveReceipts') <= MaxReceipts
  BY <1>1, <1>3, FewerActive
<1>4. CASE Untouched \/ Removed \/ Rewritten \/ Created
  <2>1. ActiveReceipts' \subseteq ActiveReceipts
    BY <1>4 DEF Untouched, Removed, Cascade, Rewritten, Created, ActiveReceipts, Receipts
  <2> QED BY <2>1, <1>3
<1>5. ASSUME NEW r \in Receipts, MoveMade(r) PROVE Cardinality(ActiveReceipts') <= MaxReceipts
  <2>1. ActiveReceipts' = ActiveReceipts \cup {r} /\ r \notin ActiveReceipts
    BY <1>5 DEF MoveMade, ActiveReceipts, Inv, RowsOK, Receipts
  <2>2. ~(Cardinality(ActiveReceipts) >= MaxReceipts)
    BY <1>5 DEF MoveMade, CapReached, ActiveReceipts
  <2>3. IsFiniteSet(ActiveReceipts)
    BY <1>1, ReceiptsFinite, FS_Subset
  <2>4. Cardinality(ActiveReceipts') = Cardinality(ActiveReceipts) + 1
    BY <2>1, <2>3, FS_AddElement
  <2> QED BY <2>2, <2>3, <2>4, FS_CardinalityType, MoveAssumption
<1>6. ASSUME NEW r \in Receipts, Undone(r) \/ Expired(r)
      PROVE  Cardinality(ActiveReceipts') <= MaxReceipts
  <2>1. ActiveReceipts' \subseteq ActiveReceipts
    BY <1>6 DEF Undone, Expired, ActiveReceipts, Inv, RowsOK, Receipts
  <2> QED BY <2>1, <1>3
<1> QED
  BY <1>4, <1>5, <1>6 DEF Effect

\* However many clients move items, no more receipts than the limit can be used at once.
\* (The count of move_calendar_item and its INSERT are one step of the model, because both
\* happen under the task graph lock.)
THEOREM ReceiptsAreBounded == Spec => []ReceiptsBounded
  BY Invariance, InitBounded, StepBounded, PTL DEF Spec

-----------------------------------------------------------------------------
(* No deadlock with a move, and a move reaches Google: both follow from    *)
(* the order in which the locks are taken.                                 *)

Modes == {"share", "own"}
Fields == {"kind", "linked", "pc", "expect", "to", "r"}

\* The parts of the task and of a transaction that the argument reads.
TaskOK == DOMAIN task = {"linked", "sched", "version"} /\ task.linked \in BOOLEAN

TxInv ==
    /\ DOMAIN tx = Clients
    /\ \A c \in Clients :
          /\ DOMAIN tx[c] = Fields
          /\ tx[c].kind \in Kinds \cup {"idle"} /\ tx[c].linked \in BOOLEAN /\ tx[c].pc \in Nat
          /\ tx[c].kind = "idle" => tx[c] = Idle

\* Fewer jobs run than there are connections.
PoolInv == Cardinality({c \in Clients : InJob(c)}) < Pool

\* A lock other than the owner's is held only by a move that waits for nothing any more, or
\* by a job that needs no connection any more.
HolderOK(c, l) ==
    /\ tx[c].kind # "idle" /\ tx[c].pc > 1
    /\ l # "sync" => /\ tx[c].kind \in Moves => tx[c].pc > 2
                     /\ tx[c].kind \in Jobs => tx[c].pc > 4

HoldInv ==
    /\ DOMAIN holder = Locks
    /\ \A l \in Locks, c \in Clients, mode \in Modes : <<c, mode>> \in holder[l] => HolderOK(c, l)

LockInv == TaskOK /\ TxInv /\ PoolInv /\ HoldInv

\* A job or a move that has begun has the owner's lock, alone.
Begun(c) == tx[c].kind \in Jobs \cup Moves /\ tx[c].pc > 1
SyncInv ==
    /\ \A c \in Clients : Begun(c) => <<c, "own">> \in holder["sync"]
    /\ \A c, d \in Clients :
          <<c, "own">> \in holder["sync"] /\ <<d, "own">> \in holder["sync"] => c = d

\* What a push has read, and then sent, is the schedule of the last move.
PushInv ==
    \A c \in Clients : tx[c].kind = "push" =>
        /\ tx[c].pc <= 2 => tx[c].to = "none"
        /\ tx[c].pc = 3 /\ tx[c].to # "none" /\ last # 0 => tx[c].to = event.sched
        /\ tx[c].pc > 3 /\ last # 0 /\ pulled => google = event.sched

MappingTypes == mapping \in [id : Nat, conflict : BOOLEAN, dirty : BOOLEAN, made : Nat]

ReachInv == MappingTypes /\ SyncInv /\ PushInv /\ MovesReachGoogle

\* What is known of a plan, for each group of kinds.
MovePlan(s) ==
    /\ Len(s) \in Nat /\ Len(s) > 2
    /\ s[1].lock = "sync" /\ s[1].mode = "own"
    /\ \A i \in 1..Len(s) : /\ s[i].lock \in Locks /\ s[i].mode \in Modes
                            /\ i # 1 => s[i].lock # "sync"
                            /\ s[i].wait => i = 2
JobPlan(s) ==
    /\ Len(s) \in Nat /\ Len(s) > 4
    /\ s[1].lock = "sync" /\ s[1].mode = "own" /\ s[1].wait
    /\ s[2].lock = "pool" /\ s[3].lock = "provider" /\ s[4].lock = "pool"
    /\ \A i \in 1..Len(s) : /\ i > 4 => s[i].lock \in Locks /\ s[i].lock # "sync"
                            /\ s[i].mode \in Modes
OtherPlan(s) ==
    /\ Len(s) \in Nat
    /\ \A i \in 1..Len(s) : /\ s[i].lock \in Locks /\ s[i].mode \in Modes
                            /\ s[i].wait => s[i].lock # "sync"

\* A move waits for the task graph only, which is its second lock.
LEMMA MovePlans ==
  ASSUME NEW kind \in Moves, NEW linked \in BOOLEAN
  PROVE  MovePlan(Plan(kind, linked))
<1> USE DEF IfLinked, Wait, Try, TryShare, Locks, Modes
<1>1. MovePlan(MoveLocks(linked))
  <2>1. CASE linked
    BY <2>1 DEF MovePlan, MoveLocks, LockMove, LockItem
  <2>2. CASE ~linked
    BY <2>2 DEF MovePlan, MoveLocks, LockMove, LockItem
  <2> QED BY <2>1, <2>2
<1>2. MovePlan(UndoLocks(linked))
  <2>1. CASE linked
    BY <2>1 DEF MovePlan, UndoLocks, LockMove, LockItem
  <2>2. CASE ~linked
    BY <2>2 DEF MovePlan, UndoLocks, LockMove, LockItem
  <2> QED BY <2>1, <2>2
<1>3. Plan(kind, linked) = MoveLocks(linked) \/ Plan(kind, linked) = UndoLocks(linked)
  BY DEF Moves, Plan
<1> QED
  BY <1>1, <1>2, <1>3

\* A job takes its rows after its connections and its call to Google.
LEMMA JobPlans ==
  ASSUME NEW kind \in Jobs, NEW linked \in BOOLEAN
  PROVE  JobPlan(Plan(kind, linked))
<1> USE DEF IfLinked, Wait, Locks, Modes, Second, Provider, RunOnce
<1>1. JobPlan(PushLocks)
  BY DEF JobPlan, PushLocks
<1>2. JobPlan(PullLocks(linked))
  <2>1. CASE linked
    BY <2>1 DEF JobPlan, PullLocks
  <2>2. CASE ~linked
    BY <2>2 DEF JobPlan, PullLocks
  <2> QED BY <2>1, <2>2
<1>3. Plan(kind, linked) = PushLocks \/ Plan(kind, linked) = PullLocks(linked)
  BY DEF Jobs, Plan
<1> QED
  BY <1>1, <1>2, <1>3

\* Nobody else waits for the owner's lock.
LEMMA OtherPlans ==
  ASSUME NEW kind \in Kinds, kind \notin Moves, kind \notin Jobs, NEW linked \in BOOLEAN
  PROVE  OtherPlan(Plan(kind, linked))
<1> USE DEF IfLinked, Wait, WaitShare, Try, Locks, Modes, MarkForSync
<1>1. OtherPlan(UpdateEventLocks(linked))
  <2>1. CASE linked
    BY <2>1 DEF OtherPlan, UpdateEventLocks
  <2>2. CASE ~linked
    BY <2>2 DEF OtherPlan, UpdateEventLocks
  <2> QED BY <2>1, <2>2
<1>2. OtherPlan(UpdateTaskLocks(linked))
  <2>1. CASE linked
    BY <2>1 DEF OtherPlan, UpdateTaskLocks
  <2>2. CASE ~linked
    BY <2>2 DEF OtherPlan, UpdateTaskLocks
  <2> QED BY <2>1, <2>2
<1>3. OtherPlan(DeleteTaskLocks(linked))
  <2>1. CASE linked
    BY <2>1 DEF OtherPlan, DeleteTaskLocks
  <2>2. CASE ~linked
    BY <2>2 DEF OtherPlan, DeleteTaskLocks
  <2> QED BY <2>1, <2>2
<1>4. OtherPlan(DeleteWithUndoLocks(linked))
  <2>1. CASE linked
    BY <2>1 DEF OtherPlan, DeleteWithUndoLocks
  <2>2. CASE ~linked
    BY <2>2 DEF OtherPlan, DeleteWithUndoLocks
  <2> QED BY <2>1, <2>2
<1>5. OtherPlan(DeleteEventLocks(linked))
  <2>1. CASE linked
    BY <2>1 DEF OtherPlan, DeleteEventLocks
  <2>2. CASE ~linked
    BY <2>2 DEF OtherPlan, DeleteEventLocks
  <2> QED BY <2>1, <2>2
<1>6. OtherPlan(DeleteCalendarLocks)
  BY DEF OtherPlan, DeleteCalendarLocks
<1>7. OtherPlan(DeleteAccountLocks(linked))
  <2>1. CASE linked
    BY <2>1 DEF OtherPlan, DeleteAccountLocks
  <2>2. CASE ~linked
    BY <2>2 DEF OtherPlan, DeleteAccountLocks
  <2> QED BY <2>1, <2>2
<1>8. OtherPlan(FocusLocks(linked))
  <2>1. CASE linked
    BY <2>1 DEF OtherPlan, FocusLocks
  <2>2. CASE ~linked
    BY <2>2 DEF OtherPlan, FocusLocks
  <2> QED BY <2>1, <2>2
<1>9. Plan(kind, linked) \in
        {UpdateEventLocks(linked), UpdateTaskLocks(linked), DeleteTaskLocks(linked),
         DeleteWithUndoLocks(linked), DeleteEventLocks(linked), DeleteCalendarLocks,
         DeleteAccountLocks(linked), FocusLocks(linked)}
  BY DEF Kinds, Moves, Jobs, EventKinds, TaskKinds, Plan
<1> QED
  BY <1>1, <1>2, <1>3, <1>4, <1>5, <1>6, <1>7, <1>8, <1>9

\* The plan of a transaction is that of its kind.
LEMMA RequestsPlan ==
  ASSUME NEW c \in Clients, tx[c].kind \in Kinds, tx[c].linked \in BOOLEAN
  PROVE  /\ tx[c].kind \in Moves => MovePlan(Requests(c))
         /\ tx[c].kind \in Jobs => JobPlan(Requests(c))
         /\ tx[c].kind \notin Moves \cup Jobs => OtherPlan(Requests(c))
<1>1. Requests(c) = Plan(tx[c].kind, tx[c].linked)
  <2>1. CASE tx[c].linked
    BY <2>1, Zenon DEF Requests, LinkedPlan
  <2>2. CASE ~tx[c].linked
    <3>1. tx[c].linked = FALSE
      BY <2>2
    <3>2. Requests(c) = PlainPlan[tx[c].kind]
      BY <2>2, Zenon DEF Requests
    <3> QED BY <3>1, <3>2, Zenon DEF PlainPlan
  <2> QED BY <2>1, <2>2
<1> QED
  BY <1>1, MovePlans, JobPlans, OtherPlans, Zenon

\* A request that is waited for is granted alone.
LEMMA WaitAlone ==
  ASSUME NEW c \in Clients, AtRequest(c), Asked(c).wait, tx[c].pc \in Nat, Len(Requests(c)) \in Nat
  PROVE  Batch(c) = {tx[c].pc} /\ Wanted(c) = {Asked(c)}
<1>1. Batch(c) = {tx[c].pc}
  BY DEF Batch, AtRequest, Asked
<1> QED
  BY <1>1 DEF Wanted, Asked

\* A batch follows the requests already granted without a gap.
LEMMA BatchSize ==
  ASSUME NEW c \in Clients, AtRequest(c), tx[c].pc \in Nat, Len(Requests(c)) \in Nat
  PROVE  /\ Cardinality(Batch(c)) \in Nat
         /\ Cardinality(Batch(c)) > 0
         /\ \A i \in Batch(c) : i \in Int /\ tx[c].pc <= i /\ i < tx[c].pc + Cardinality(Batch(c))
<1> DEFINE p == tx[c].pc
           n == Len(Requests(c))
<1>1. p \in Nat /\ n \in Nat /\ Batch(c) \subseteq p..n
  BY DEF Batch
<1>2. IsFiniteSet(p..n)
  BY <1>1, FS_Interval
<1>3. IsFiniteSet(Batch(c)) /\ Cardinality(Batch(c)) \in Nat
  BY <1>1, <1>2, FS_Subset, FS_CardinalityType
<1>4. ASSUME NEW i \in Batch(c)
      PROVE  /\ i \in Int /\ p <= i /\ i < p + Cardinality(Batch(c))
             /\ Cardinality(Batch(c)) > 0
  <2>1. i \in p..n /\ i \in Int
    BY <1>1, <1>4
  <2>2. p..i \subseteq Batch(c)
    BY <1>1, <1>4, <2>1 DEF Batch
  <2>3. Cardinality(p..i) = i - p + 1
    <3>1. p \in Int /\ i \in Int /\ ~(p > i)
      BY <1>1, <2>1
    <3> QED BY <3>1, FS_Interval
  <2>4. Cardinality(p..i) <= Cardinality(Batch(c))
    BY <1>3, <2>2, FS_Subset
  <2> QED BY <1>1, <1>3, <2>1, <2>3, <2>4
<1>5. p \in Batch(c)
  BY <1>1 DEF Batch, AtRequest
<1> QED BY <1>3, <1>4, <1>5

-----------------------------------------------------------------------------
\* How a step may change the transactions and their locks.
Still == UNCHANGED <<tx, holder>>
Started(c, kind) ==
    /\ tx[c] = Idle
    /\ kind \in Jobs => Cardinality({d \in Clients : InJob(d)}) < Pool - 1
    /\ \E t : /\ tx' = [tx EXCEPT ![c] = t]
              /\ DOMAIN t = Fields /\ t.kind = kind /\ t.linked = task.linked /\ t.pc \in {0, 1}
    /\ UNCHANGED holder
Advanced(c) ==
    /\ tx[c].kind # "idle"
    /\ tx[c].pc = 0 \/ (AtRequest(c) /\ Asked(c).lock \notin Locks)
    /\ \E t : /\ tx' = [tx EXCEPT ![c] = t]
              /\ DOMAIN t = Fields /\ t.kind = tx[c].kind /\ t.linked = tx[c].linked
              /\ t.pc = tx[c].pc + 1
    /\ UNCHANGED holder

Locking ==
    \/ Still
    \/ \E c \in Clients : (\E kind \in Kinds : Started(c, kind)) \/ Advanced(c) \/ Grant(c) \/ End(c)

\* Every step has one of these.
LEMMA StepLocking == TxInv /\ [Next]_vars => Locking
<1> SUFFICES ASSUME TxInv, [Next]_vars PROVE Locking
  OBVIOUS
<1>1. CASE UNCHANGED vars
  BY <1>1 DEF vars, Locking, Still
<1>2. ASSUME NEW c \in Clients, NEW kind \in Kinds, Begin(c, kind) PROVE Started(c, kind)
  <2>1. PICK to, r :
            tx' = [tx EXCEPT ![c] =
                [kind |-> kind, linked |-> task.linked, pc |-> IF PoolFree THEN 1 ELSE 0, to |-> to, r |-> r,
                 expect |-> IF kind \in EventKinds THEN event.version
                            ELSE IF kind \in TaskKinds THEN task.version ELSE 0]]
    BY <1>2, Zenon DEF Begin
  <2> DEFINE p == IF PoolFree THEN 1 ELSE 0
             v == IF kind \in EventKinds THEN event.version
                  ELSE IF kind \in TaskKinds THEN task.version ELSE 0
             t == [kind |-> kind, linked |-> task.linked, pc |-> p, to |-> to, r |-> r, expect |-> v]
  <2>2. p \in {0, 1}
    OBVIOUS
  <2>3. tx' = [tx EXCEPT ![c] = t]
    BY <2>1
  <2> HIDE DEF p, v
  <2>4. DOMAIN t = Fields /\ t.kind = kind /\ t.linked = task.linked /\ t.pc = p
    BY DEF Fields
  <2> HIDE DEF t
  <2>5. /\ tx[c] = Idle /\ holder' = holder
        /\ kind \in Jobs => Cardinality({d \in Clients : InJob(d)}) < Pool - 1
    BY <1>2, Zenon DEF Begin
  <2> QED BY <2>2, <2>3, <2>4, <2>5, Zenon DEF Started
<1>3. ASSUME NEW c \in Clients, Connect(c) PROVE Advanced(c)
  <2> DEFINE t == [tx[c] EXCEPT !.pc = 1]
  <2>1. /\ tx' = [tx EXCEPT ![c] = t]
        /\ tx[c].kind # "idle" /\ tx[c].pc = 0 /\ holder' = holder
    BY <1>3 DEF Connect
  <2>2. DOMAIN t = Fields /\ t.kind = tx[c].kind /\ t.linked = tx[c].linked /\ t.pc = tx[c].pc + 1
    BY <2>1 DEF TxInv, Fields
  <2> QED BY <2>1, <2>2 DEF Advanced
<1>4. ASSUME NEW c \in Clients, TakeSecond(c) PROVE Advanced(c)
  <2> DEFINE to == IF tx[c].kind = "push" /\ tx[c].pc = 2 /\ Pushable THEN event.sched ELSE tx[c].to
             t == [tx[c] EXCEPT !.pc = @ + 1, !.to = to]
  <2>1. /\ tx' = [tx EXCEPT ![c] = t]
        /\ tx[c].kind # "idle" /\ holder' = holder
        /\ AtRequest(c) /\ Asked(c).lock \notin Locks
    BY <1>4 DEF TakeSecond, AtRequest, Connected, TxInv, Fields, Locks
  <2> HIDE DEF to
  <2>2. DOMAIN t = Fields /\ t.kind = tx[c].kind /\ t.linked = tx[c].linked /\ t.pc = tx[c].pc + 1
    BY DEF TxInv, Fields
  <2> QED BY <2>1, <2>2 DEF Advanced
<1>5. ASSUME NEW c \in Clients, CallGoogle(c) PROVE Advanced(c)
  <2> DEFINE t == [tx[c] EXCEPT !.pc = @ + 1, !.to = google']
  <2>1. /\ tx' = [tx EXCEPT ![c] = t]
        /\ tx[c].kind # "idle" /\ holder' = holder
        /\ AtRequest(c) /\ Asked(c).lock \notin Locks
    BY <1>5 DEF CallGoogle, AtRequest, Connected, TxInv, Fields, Locks
  <2>2. DOMAIN t = Fields /\ t.kind = tx[c].kind /\ t.linked = tx[c].linked /\ t.pc = tx[c].pc + 1
    BY DEF TxInv, Fields
  <2> QED BY <2>1, <2>2 DEF Advanced
<1>6. ASSUME NEW c \in Clients, Refused(c) \/ Abort(c) \/ Commit(c) PROVE End(c)
  BY <1>6, Zenon DEF Refused, Abort, Commit, CommitMove, CommitUndo, CommitUpdateEvent, CommitUpdateTask,
     CommitDeleteTask, CommitDeleteEvent, CommitDeleteCalendar, CommitFocus, CommitPush, CommitPull,
     CommitRemap
<1>7. ASSUME NEW r \in Receipts, Expire(r) PROVE Still
  BY <1>7 DEF Expire, Still
<1>8. ASSUME NEW to \in Times, GoogleEdit(to) PROVE Still
  BY <1>8 DEF GoogleEdit, Still
<1> QED
  BY <1>1, <1>2, <1>3, <1>4, <1>5, <1>6, <1>7, <1>8, Zenon DEF Next, Locking

\* The task keeps its fields.
LEMMA StepTask == TaskOK /\ [Next]_vars => TaskOK'
<1> SUFFICES ASSUME TaskOK, [Next]_vars PROVE TaskOK'
  OBVIOUS
<1>1. \A to : DOMAIN MovedTask(to) = {"linked", "sched", "version"} /\ MovedTask(to).linked \in BOOLEAN
  BY DEF TaskOK, MovedTask
<1>2. ASSUME NEW to, task' = MovedTask(to) PROVE TaskOK'
  BY <1>1, <1>2 DEF TaskOK
<1>3. ASSUME UNCHANGED task PROVE TaskOK'
  BY <1>3 DEF TaskOK
<1>4. CASE UNCHANGED vars
  BY <1>4, <1>3 DEF vars
<1>5. ASSUME NEW c \in Clients, NEW kind \in Kinds, Begin(c, kind) PROVE TaskOK'
  BY <1>5, <1>3, Zenon DEF Begin, Items
<1>6. ASSUME NEW c \in Clients,
             \/ Connect(c) \/ TakeSecond(c) \/ CallGoogle(c) \/ Grant(c) \/ Refused(c) \/ Abort(c)
             \/ CommitDeleteCalendar(c) \/ CommitFocus(c) \/ CommitPush(c) \/ CommitRemap(c)
      PROVE  TaskOK'
  BY <1>6, <1>3, Zenon DEF Connect, TakeSecond, CallGoogle, Grant, Refused, Abort, CommitDeleteCalendar,
     CommitFocus, CommitPush, CommitRemap, Items
<1>7. ASSUME NEW c \in Clients, NEW r \in Receipts, CommitMove(c, r) \/ CommitUndo(c, r) PROVE TaskOK'
  <2>1. \E to : task' = MovedTask(to)
    BY <1>7, Zenon DEF CommitMove, CommitUndo
  <2> QED BY <2>1, <1>2
<1>8. ASSUME NEW c \in Clients, NEW elsewhere \in BOOLEAN,
             CommitUpdateEvent(c, elsewhere) \/ CommitUpdateTask(c) \/ CommitDeleteEvent(c) PROVE TaskOK'
  <2>1. \E to : task' = MovedTask(to)
    BY <1>8, Zenon DEF CommitUpdateEvent, CommitUpdateTask, CommitDeleteEvent
  <2> QED BY <2>1, <1>2
<1>9. ASSUME NEW c \in Clients, CommitPull(c) PROVE TaskOK'
  <2>1. UNCHANGED task \/ \E to : task' = MovedTask(to)
    BY <1>9, Zenon DEF CommitPull
  <2> QED BY <2>1, <1>2, <1>3
<1>10. ASSUME NEW c \in Clients, CommitDeleteTask(c) PROVE TaskOK'
  <2>1. task' = [linked |-> FALSE, sched |-> "none", version |-> 0]
    BY <1>10, Zenon DEF CommitDeleteTask
  <2> QED BY <2>1 DEF TaskOK
<1>11. ASSUME NEW r \in Receipts, Expire(r) PROVE TaskOK'
  BY <1>11, <1>3 DEF Expire
<1>12. ASSUME NEW to \in Times, GoogleEdit(to) PROVE TaskOK'
  BY <1>12, <1>3 DEF GoogleEdit
<1> QED
  BY <1>4, <1>5, <1>6, <1>7, <1>8, <1>9, <1>10, <1>11, <1>12, Zenon DEF Next, Commit

\* Nobody has begun yet.
LEMMA InitLocks == Init => LockInv
<1> SUFFICES ASSUME Init PROVE LockInv
  OBVIOUS
<1>1. PICK linked \in BOOLEAN, id \in {0, 1}, moved \in {0, 1} : InitItem(linked, id, moved)
  BY Zenon DEF Init
<1>2. TaskOK
  BY <1>1 DEF InitItem, TaskOK
<1>3. tx = [c \in Clients |-> Idle] /\ holder = [l \in Locks |-> {}]
  BY Zenon DEF Init
<1>4. TxInv
  BY <1>3 DEF TxInv, Idle, Fields
<1>5. {c \in Clients : InJob(c)} = {}
  BY <1>3 DEF InJob, Idle, Jobs
<1>6. PoolInv
  BY <1>5, FS_EmptySet, MoveAssumption DEF PoolInv
<1>7. HoldInv
  BY <1>3 DEF HoldInv
<1> QED BY <1>2, <1>4, <1>6, <1>7 DEF LockInv

\* The jobs are finitely many.
LEMMA FewerJobs ==
  ASSUME NEW J, J \subseteq Clients, NEW K, K \subseteq J
  PROVE  /\ IsFiniteSet(J) /\ IsFiniteSet(K)
         /\ Cardinality(J) \in Nat /\ Cardinality(K) \in Nat /\ Cardinality(K) <= Cardinality(J)
<1>1. IsFiniteSet(J)
  BY MoveAssumption, FS_Subset
<1>2. IsFiniteSet(K) /\ Cardinality(K) <= Cardinality(J)
  BY <1>1, FS_Subset
<1> QED BY <1>1, <1>2, FS_CardinalityType

JobSet == {c \in Clients : InJob(c)}

\* A transaction starts without locks and with fewer jobs than connections; it passes a request
\* only with its lock; and when it ends it has none.
LEMMA StepLocks == LockInv /\ [Next]_vars => LockInv'
<1> SUFFICES ASSUME LockInv, [Next]_vars PROVE LockInv'
  OBVIOUS
<1>1. TaskOK' /\ Locking
  BY StepTask, StepLocking DEF LockInv
<1>2. /\ TaskOK /\ TxInv /\ PoolInv /\ HoldInv
      /\ JobSet \subseteq Clients /\ IsFiniteSet(JobSet) /\ Cardinality(JobSet) \in Nat
  BY FewerJobs DEF LockInv, JobSet
<1>3. SUFFICES TxInv' /\ Cardinality(JobSet') < Pool /\ HoldInv'
  BY <1>1 DEF LockInv, PoolInv, JobSet
<1>4. Cardinality(JobSet) < Pool /\ Pool \in Nat
  BY <1>2, MoveAssumption DEF PoolInv, JobSet
<1>5. ASSUME JobSet' \subseteq JobSet PROVE Cardinality(JobSet') < Pool
  <2>1. Cardinality(JobSet') \in Nat /\ Cardinality(JobSet') <= Cardinality(JobSet)
    BY <1>2, <1>5, FewerJobs
  <2> QED BY <2>1, <1>2, <1>4
<1>6. CASE Still
  BY <1>2, <1>4, <1>6 DEF Still, TxInv, JobSet, InJob, HoldInv, HolderOK
<1>7. ASSUME NEW c \in Clients, NEW kind \in Kinds, Started(c, kind)
      PROVE  TxInv' /\ Cardinality(JobSet') < Pool /\ HoldInv'
  <2>1. PICK t : /\ tx' = [tx EXCEPT ![c] = t]
                 /\ DOMAIN t = Fields /\ t.kind = kind /\ t.linked = task.linked /\ t.pc \in {0, 1}
    BY <1>7 DEF Started
  <2>2. tx[c] = Idle /\ holder' = holder /\ (kind \in Jobs => Cardinality(JobSet) < Pool - 1)
    BY <1>7 DEF Started, JobSet
  <2>3. kind # "idle" /\ tx[c].kind = "idle"
    BY <2>2 DEF Kinds, Moves, Jobs, EventKinds, TaskKinds, Idle
  <2>4. /\ tx'[c] = t /\ \A d \in Clients : d # c => tx'[d] = tx[d]
        /\ DOMAIN tx' = Clients
    BY <1>2, <2>1 DEF TxInv
  <2>5. TxInv'
    BY <1>2, <2>1, <2>3, <2>4 DEF TxInv, TaskOK
  <2>6. Cardinality(JobSet') < Pool
    <3>1. CASE kind \in Jobs
      <4>1. JobSet' = JobSet \cup {c}
        BY <2>1, <2>4, <3>1 DEF JobSet, InJob
      <4>2. c \notin JobSet
        BY <2>3 DEF JobSet, InJob, Jobs
      <4>3. Cardinality(JobSet') = Cardinality(JobSet) + 1
        BY <1>2, <4>1, <4>2, FS_AddElement
      <4> QED BY <1>2, <1>4, <2>2, <3>1, <4>3
    <3>2. CASE kind \notin Jobs
      <4>1. JobSet' \subseteq JobSet
        BY <2>1, <2>4, <3>2 DEF JobSet, InJob
      <4> QED BY <4>1, <1>5
    <3> QED BY <3>1, <3>2
  <2>7. HoldInv'
    <3>1. \A l \in Locks, mode \in Modes : <<c, mode>> \notin holder[l]
      BY <1>2, <2>3 DEF HoldInv, HolderOK
    <3> QED BY <1>2, <2>2, <2>4, <3>1 DEF HoldInv, HolderOK
  <2> QED BY <2>5, <2>6, <2>7
<1>8. ASSUME NEW c \in Clients, Advanced(c)
      PROVE  TxInv' /\ Cardinality(JobSet') < Pool /\ HoldInv'
  <2>1. PICK t : /\ tx' = [tx EXCEPT ![c] = t]
                 /\ DOMAIN t = Fields /\ t.kind = tx[c].kind /\ t.linked = tx[c].linked
                 /\ t.pc = tx[c].pc + 1
    BY <1>8 DEF Advanced
  <2>2. tx[c].kind # "idle" /\ holder' = holder
    BY <1>8 DEF Advanced
  <2>3. /\ tx'[c] = t /\ \A d \in Clients : d # c => tx'[d] = tx[d]
        /\ DOMAIN tx' = Clients
    BY <1>2, <2>1 DEF TxInv
  <2>4. TxInv'
    BY <1>2, <2>1, <2>2, <2>3 DEF TxInv
  <2>5. JobSet' \subseteq JobSet
    BY <2>1, <2>3 DEF JobSet, InJob
  <2>6. tx[c].pc \in Nat
    BY <1>2 DEF TxInv
  <2>7. HoldInv'
    BY <1>2, <2>1, <2>2, <2>3, <2>6 DEF HoldInv, HolderOK
  <2> QED BY <2>4, <2>5, <2>7, <1>5
<1>9. ASSUME NEW c \in Clients, Grant(c)
      PROVE  TxInv' /\ Cardinality(JobSet') < Pool /\ HoldInv'
  <2> DEFINE n == Cardinality(Batch(c))
             t == [tx[c] EXCEPT !.pc = @ + n]
  <2>1. /\ AtRequest(c) /\ Connected(c) /\ Asked(c).lock \in Locks
        /\ tx[c].kind \in Kinds /\ tx[c].kind # "idle" /\ tx[c].linked \in BOOLEAN /\ tx[c].pc \in Nat /\ tx[c].pc > 0
    BY <1>2, <1>9 DEF Grant, AtRequest, Connected, TxInv
  <2>2. /\ tx[c].kind \in Moves => MovePlan(Requests(c))
        /\ tx[c].kind \in Jobs => JobPlan(Requests(c))
        /\ tx[c].kind \notin Moves \cup Jobs => OtherPlan(Requests(c))
    BY <2>1, RequestsPlan
  <2>3. Len(Requests(c)) \in Nat
    BY <2>2 DEF MovePlan, JobPlan, OtherPlan
  <2>4. /\ n \in Nat /\ n > 0
        /\ \A i \in Batch(c) : i \in Int /\ tx[c].pc <= i /\ i < tx[c].pc + n
    BY <2>1, <2>3, BatchSize
  <2>5. /\ tx' = [tx EXCEPT ![c] = t]
        /\ holder' = [l \in Locks |-> holder[l] \cup {<<c, q.mode>> : q \in {w \in Wanted(c) : w.lock = l}}]
    BY <1>9 DEF Grant
  <2> HIDE DEF n
  <2>6. DOMAIN t = Fields /\ t.kind = tx[c].kind /\ t.linked = tx[c].linked /\ t.pc = tx[c].pc + n
    BY <1>2 DEF TxInv, Fields
  <2> HIDE DEF t
  <2>7. /\ tx'[c] = t /\ \A d \in Clients : d # c => tx'[d] = tx[d]
        /\ DOMAIN tx' = Clients
    BY <1>2, <2>5 DEF TxInv
  <2>8. TxInv'
    BY <1>2, <2>1, <2>4, <2>6, <2>7 DEF TxInv
  <2>9. JobSet' \subseteq JobSet
    BY <2>6, <2>7 DEF JobSet, InJob
  <2>10. HoldInv'
    <3>1. DOMAIN holder' = Locks
      BY <2>5
    <3>2. SUFFICES ASSUME NEW l \in Locks, NEW d \in Clients, NEW mode \in Modes, <<d, mode>> \in holder'[l]
                   PROVE  HolderOK(d, l)'
      BY <3>1 DEF HoldInv
    <3>3. CASE <<d, mode>> \in holder[l]
      <4>1. HolderOK(d, l)
        BY <1>2, <3>3 DEF HoldInv
      <4>2. tx'[d].kind = tx[d].kind /\ tx'[d].pc >= tx[d].pc /\ tx[d].pc \in Nat /\ tx'[d].pc \in Nat
        BY <1>2, <2>1, <2>4, <2>6, <2>7 DEF TxInv
      <4> QED BY <4>1, <4>2 DEF HolderOK
    <3>4. CASE <<d, mode>> \notin holder[l]
      <4>1. PICK q \in Wanted(c) : q.lock = l /\ d = c
        BY <2>5, <3>2, <3>4
      <4>2. PICK i \in Batch(c) : q = Requests(c)[i]
        BY <4>1 DEF Wanted
      <4>3. i \in 1..Len(Requests(c)) /\ i < tx'[c].pc /\ i \in Nat /\ tx'[c].pc \in Nat
        BY <2>1, <2>3, <2>4, <2>6, <2>7, <4>2 DEF Batch
      <4>4. tx'[c].kind = tx[c].kind /\ tx'[c].pc > 1
        BY <2>6, <2>7, <4>3
      <4>5. ASSUME l # "sync", tx[c].kind \in Moves PROVE tx'[c].pc > 2
        <5>1. i # 1
          BY <2>2, <4>1, <4>2, <4>5 DEF MovePlan
        <5> QED BY <4>3, <5>1
      <4>6. ASSUME l # "sync", tx[c].kind \in Jobs PROVE tx'[c].pc > 4
        <5>1. i # 1 /\ i # 2 /\ i # 3 /\ i # 4
          BY <2>2, <4>1, <4>2, <4>6 DEF JobPlan, Locks
        <5> QED BY <4>3, <5>1
      <4> QED BY <2>1, <4>1, <4>4, <4>5, <4>6 DEF HolderOK
    <3> QED BY <3>3, <3>4
  <2> QED BY <2>8, <2>9, <2>10, <1>5
<1>10. ASSUME NEW c \in Clients, End(c)
       PROVE  TxInv' /\ Cardinality(JobSet') < Pool /\ HoldInv'
  <2>1. /\ tx' = [tx EXCEPT ![c] = Idle]
        /\ holder' = [l \in Locks |-> {h \in holder[l] : h[1] # c}]
    BY <1>10 DEF End
  <2>2. /\ tx'[c] = Idle /\ \A d \in Clients : d # c => tx'[d] = tx[d]
        /\ DOMAIN tx' = Clients
    BY <1>2, <2>1 DEF TxInv
  <2>3. TxInv'
    <3>1. DOMAIN Idle = Fields /\ Idle.kind = "idle" /\ Idle.linked \in BOOLEAN /\ Idle.pc \in Nat
      BY DEF Idle, Fields
    <3> QED BY <1>2, <2>2, <3>1 DEF TxInv
  <2>4. JobSet' \subseteq JobSet
    BY <2>2 DEF JobSet, InJob, Idle, Jobs
  <2>5. HoldInv'
    BY <1>2, <2>1, <2>2 DEF HoldInv, HolderOK
  <2> QED BY <2>3, <2>4, <2>5, <1>5
<1> QED
  BY <1>1, <1>6, <1>7, <1>8, <1>9, <1>10 DEF Locking

\* The locks are held as planned in every reachable state.
LEMMA LocksInvariance == Spec => []LockInv
  BY InitLocks, StepLocks, PTL DEF Spec

\* In a deadlock, those that wait for a row lock without being a move.
RowWaiters(S) == {c \in S : Waiting(c) /\ tx[c].kind \notin Moves /\ Asked(c).lock # "sync"}

\* A move waits only for the task graph, before it holds a row; a job waits for a row only when it
\* needs no connection any more: so whoever is in a deadlock and holds a row waits for one, and is
\* no move.
LEMMA DeadlocksAmongWriters == LockInv => MovesNeverDeadlock
<1> SUFFICES ASSUME LockInv, NEW S \in SUBSET Clients, S # {}, Deadlocked(S)
             PROVE  \E T \in SUBSET S : LockCycle(T) /\ \A c \in T : tx[c].kind \notin Moves
  BY DEF MovesNeverDeadlock
<1> DEFINE T == RowWaiters(S)
<1>1. TxInv /\ PoolInv /\ HoldInv
  BY DEF LockInv
<1>2. ASSUME NEW c \in Clients, tx[c].kind # "idle"
      PROVE  /\ tx[c].kind \in Moves => MovePlan(Requests(c))
             /\ tx[c].kind \in Jobs => JobPlan(Requests(c))
             /\ tx[c].kind \notin Moves \cup Jobs => OtherPlan(Requests(c))
             /\ Len(Requests(c)) \in Nat /\ tx[c].pc \in Nat
  <2>1. tx[c].kind \in Kinds /\ tx[c].linked \in BOOLEAN /\ tx[c].pc \in Nat
    BY <1>1, <1>2 DEF TxInv
  <2>2. /\ tx[c].kind \in Moves => MovePlan(Requests(c))
        /\ tx[c].kind \in Jobs => JobPlan(Requests(c))
        /\ tx[c].kind \notin Moves \cup Jobs => OtherPlan(Requests(c))
    BY <2>1, RequestsPlan
  <2> QED BY <2>1, <2>2 DEF MovePlan, JobPlan, OtherPlan
<1>3. ASSUME NEW c \in Clients, AtRequest(c)
      PROVE  tx[c].kind # "idle" /\ tx[c].pc \in 1..Len(Requests(c)) /\ tx[c].pc > 0
  <2>1. tx[c].kind # "idle" /\ tx[c].pc > 0 /\ tx[c].pc <= Len(Requests(c))
    BY <1>3 DEF AtRequest, Connected
  <2> QED BY <2>1, <1>2
\* Who waits for a lock does not wait for a connection.
<1>4. ASSUME NEW c \in S, AtRequest(c), Asked(c).lock \in Locks
      PROVE  ~WaitsForPool(c) /\ Waiting(c) /\ Blockers(c) \cap S # {}
  <2>1. ~WaitsForPool(c)
    BY <1>3, <1>4 DEF WaitsForPool, Locks
  <2> QED BY <2>1 DEF Deadlocked
<1>5. ASSUME NEW c \in S, Waiting(c)
      PROVE  \E d \in S : \E mode \in Modes : <<d, mode>> \in holder[Asked(c).lock]
  <2>1. AtRequest(c) /\ Asked(c).lock \in Locks /\ Asked(c).wait
    BY <1>5 DEF Waiting, Blockers
  <2>2. Wanted(c) = {Asked(c)}
    BY <2>1, <1>2, <1>3, WaitAlone
  <2>3. PICK d \in S : d \in Blockers(c)
    BY <2>1, <1>4
  <2> QED BY <2>2, <2>3 DEF Blockers, Modes
\* Who holds a row waits for one.
<1>6. ASSUME NEW c \in S, NEW l \in Locks, l # "sync", NEW mode \in Modes, <<c, mode>> \in holder[l]
      PROVE  c \in T
  <2>1. HolderOK(c, l)
    BY <1>1, <1>6 DEF HoldInv
  <2>2. /\ tx[c].kind # "idle" /\ tx[c].pc > 1
        /\ tx[c].kind \in Moves => tx[c].pc > 2
        /\ tx[c].kind \in Jobs => tx[c].pc > 4
    BY <2>1, <1>6 DEF HolderOK
  <2>3. AtRequest(c)
    BY <2>2, <1>2 DEF Deadlocked, Waiting, WaitsForPool
  <2>4. tx[c].pc \in 1..Len(Requests(c)) /\ tx[c].pc \in Nat
    BY <2>2, <2>3, <1>2, <1>3
  <2>5. Asked(c).lock \in Locks
    BY <2>2, <2>4, <1>2 DEF Asked, MovePlan, JobPlan, OtherPlan
  <2>6. Waiting(c) /\ Asked(c).wait
    BY <2>3, <2>5, <1>4 DEF Waiting
  <2>7. tx[c].kind \notin Moves
    BY <2>2, <2>4, <2>6, <1>2 DEF Asked, MovePlan
  <2>8. Asked(c).lock # "sync"
    BY <2>2, <2>4, <2>6, <2>7, <1>2 DEF Asked, JobPlan, OtherPlan
  <2> QED BY <2>6, <2>7, <2>8 DEF RowWaiters
\* And so does whoever keeps a row from it.
<1>7. ASSUME NEW c \in S, Waiting(c), Asked(c).lock # "sync"
      PROVE  Blockers(c) \cap T # {}
  <2>1. AtRequest(c) /\ Asked(c).lock \in Locks /\ Asked(c).wait
    BY <1>7 DEF Waiting, Blockers
  <2>2. Wanted(c) = {Asked(c)}
    BY <2>1, <1>2, <1>3, WaitAlone
  <2>3. PICK d \in S : d \in Blockers(c)
    BY <2>1, <1>4
  <2>4. \E mode \in Modes : <<d, mode>> \in holder[Asked(c).lock]
    BY <2>2, <2>3 DEF Blockers, Modes
  <2>5. d \in T
    BY <2>1, <2>4, <1>6, <1>7
  <2> QED BY <2>3, <2>5
\* A connection is waited for only when one is held by somebody who waits for a row.
<1>8. ASSUME ~PoolFree, {d \in Clients : Connected(d)} \subseteq S
      PROVE  T # {}
  <2> DEFINE One == {c \in Clients : Connections(c) > 0}
             Two == {c \in Clients : Connections(c) > 1}
  <2>1. \A c \in One : c \in Clients /\ Connected(c) /\ c \in S
    BY <1>8 DEF Connections
  <2>2. ASSUME NEW d \in Two PROVE T # {}
    <3>1. Connected(d) /\ InJob(d) /\ tx[d].pc > 4 /\ d \in S
      BY <2>2, <1>8 DEF Connections, RunOnce
    <3>2. tx[d].kind \in Jobs /\ tx[d].kind # "idle" /\ JobPlan(Requests(d)) /\ tx[d].pc \in Nat
      BY <3>1, <1>2 DEF InJob, Connected
    <3>3. AtRequest(d)
      BY <3>1, <3>2 DEF Deadlocked, Waiting, WaitsForPool
    <3>4. Asked(d).lock \in Locks /\ Asked(d).lock # "sync"
      BY <3>1, <3>2, <3>3, <1>3 DEF JobPlan, Asked
    <3>5. Waiting(d)
      BY <3>1, <3>3, <3>4, <1>4
    <3> QED BY <3>1, <3>4, <3>5, <1>7
  <2>3. ASSUME Two = {} PROVE \E d \in One : d \notin JobSet
    <3>1. Cardinality(Two) = 0
      BY <2>3, FS_EmptySet
    <3>2. ~(Cardinality(One) + Cardinality(Two) < Pool)
      BY <1>8 DEF PoolFree
    <3>3. IsFiniteSet(One) /\ Cardinality(One) \in Nat /\ Cardinality(JobSet) \in Nat
      BY FewerJobs DEF JobSet
    <3>4. Cardinality(JobSet) < Pool
      BY <1>1 DEF PoolInv, JobSet
    <3>5. ~(One \subseteq JobSet)
      <4>1. One \subseteq JobSet => Cardinality(One) <= Cardinality(JobSet)
        BY FewerJobs DEF JobSet
      <4> HIDE DEF One, Two
      <4> QED BY <3>1, <3>2, <3>3, <3>4, <4>1, MoveAssumption
    <3> QED BY <3>5
  <2>4. ASSUME NEW d \in One, d \notin JobSet PROVE T # {}
    <3>1. Connected(d) /\ d \in S /\ d \in Clients /\ tx[d].kind \notin Jobs /\ tx[d].kind # "idle" /\ tx[d].pc > 0
      BY <2>1, <2>4 DEF JobSet, InJob, Connected
    <3>2. AtRequest(d)
      BY <3>1, <1>2 DEF Deadlocked, Waiting, WaitsForPool
    <3>3. tx[d].pc \in 1..Len(Requests(d))
      BY <3>1, <3>2, <1>3
    <3>4. Asked(d).lock \in Locks
      BY <3>1, <3>3, <1>2 DEF Asked, MovePlan, OtherPlan
    <3>5. Waiting(d) /\ Asked(d).wait
      BY <3>1, <3>2, <3>4, <1>4 DEF Waiting
    <3>6. Asked(d).lock # "sync"
      BY <3>1, <3>3, <3>5, <1>2 DEF Asked, MovePlan, OtherPlan
    <3> QED BY <3>1, <3>5, <3>6, <1>7
  <2> QED BY <2>2, <2>3, <2>4
<1>9. T # {}
  <2>1. PICK c \in S : TRUE
    OBVIOUS
  <2>2. CASE WaitsForPool(c) /\ {d \in Clients : Connected(d)} \subseteq S
    BY <2>2, <1>8 DEF WaitsForPool
  <2>3. CASE Waiting(c) /\ Asked(c).lock # "sync"
    BY <2>3, <1>7
  <2>4. CASE Waiting(c) /\ Asked(c).lock = "sync"
    <3>1. PICK d \in S, mode \in Modes : <<d, mode>> \in holder["sync"]
      BY <2>4, <1>5
    <3>2. tx[d].kind # "idle" /\ tx[d].pc > 1
      BY <3>1, <1>1 DEF HoldInv, HolderOK, Locks
    <3>3. CASE WaitsForPool(d) /\ {e \in Clients : Connected(e)} \subseteq S
      BY <3>3, <1>8 DEF WaitsForPool
    <3>4. CASE Waiting(d)
      <4>1. AtRequest(d) /\ Asked(d).wait
        BY <3>4 DEF Waiting
      <4>2. tx[d].pc \in 1..Len(Requests(d)) /\ tx[d].pc \in Nat
        BY <3>2, <4>1, <1>2, <1>3
      <4>3. Asked(d).lock # "sync"
        <5>1. CASE tx[d].kind \in Moves
          BY <5>1, <3>2, <4>2, <1>2 DEF Asked, MovePlan
        <5>2. CASE tx[d].kind \in Jobs
          <6>1. JobPlan(Requests(d))
            BY <5>2, <3>2, <1>2
          <6>2. tx[d].pc = 2 \/ tx[d].pc = 3 \/ tx[d].pc = 4 \/ tx[d].pc > 4
            BY <3>2, <4>2
          <6> QED BY <6>1, <6>2, <4>2 DEF Asked, JobPlan
        <5>3. CASE tx[d].kind \notin Moves \cup Jobs
          BY <5>3, <3>2, <4>1, <4>2, <1>2 DEF Asked, OtherPlan
        <5> QED BY <5>1, <5>2, <5>3
      <4> QED BY <3>4, <4>3, <1>7
    <3> QED BY <3>3, <3>4 DEF Deadlocked
  <2> QED BY <2>2, <2>3, <2>4 DEF Deadlocked
<1>10. LockCycle(T)
  <2>1. \A c \in T : c \in S /\ Waiting(c) /\ Asked(c).lock # "sync"
    BY DEF RowWaiters
  <2> QED BY <2>1, <1>7, <1>9 DEF LockCycle
<1>11. T \in SUBSET S /\ \A c \in T : tx[c].kind \notin Moves
  BY DEF RowWaiters
<1> QED
  BY <1>10, <1>11

\* A move or an Undo is in no deadlock, and the pool causes none, for any number of clients and
\* connections and with any other writers: lock_move and lock_item hold what the code says of them.
THEOREM NoDeadlockWithMoves == Spec => []MovesNeverDeadlock
  BY LocksInvariance, DeadlocksAmongWriters, PTL

-----------------------------------------------------------------------------
\* The requests of a job: the owner's lock, then connections, Google in between, then rows.
LEMMA JobRequests ==
  ASSUME LockInv, NEW c \in Clients, tx[c].kind \in Jobs, AtRequest(c)
  PROVE  /\ Asked(c).lock = "pool" => tx[c].pc = 2 \/ tx[c].pc = 4
         /\ Asked(c).lock = "provider" => tx[c].pc = 3
         /\ Asked(c).lock \in Locks => tx[c].pc = 1 \/ tx[c].pc > 4
         /\ tx[c].pc = 1 => Asked(c).wait
<1>1. tx[c].kind \in Kinds /\ tx[c].linked \in BOOLEAN /\ tx[c].pc \in Nat /\ tx[c].pc > 0
  BY DEF LockInv, TxInv, AtRequest, Connected, Jobs
<1>2. JobPlan(Requests(c))
  BY <1>1, RequestsPlan
<1>3. tx[c].pc \in 1..Len(Requests(c))
  BY <1>1, <1>2 DEF AtRequest, JobPlan
<1>4. tx[c].pc = 1 \/ tx[c].pc = 2 \/ tx[c].pc = 3 \/ tx[c].pc = 4 \/ tx[c].pc > 4
  BY <1>1
<1> QED
  BY <1>2, <1>3, <1>4 DEF JobPlan, Asked, Locks

\* A move or a job that commits has the owner's lock.
LEMMA LockedBegun ==
  ASSUME LockInv, NEW c \in Clients, AllLocked(c), tx[c].kind \in Jobs \cup Moves
  PROVE  Begun(c) /\ (tx[c].kind \in Jobs => tx[c].pc > 4)
<1>1. tx[c].kind \in Kinds /\ tx[c].linked \in BOOLEAN /\ tx[c].pc \in Nat
  BY DEF LockInv, TxInv, Jobs, Moves
<1>2. /\ tx[c].kind \in Moves => MovePlan(Requests(c))
      /\ tx[c].kind \in Jobs => JobPlan(Requests(c))
  BY <1>1, RequestsPlan
<1>3. /\ tx[c].pc > Len(Requests(c)) /\ Len(Requests(c)) \in Nat /\ Len(Requests(c)) > 2
      /\ tx[c].kind \in Jobs => Len(Requests(c)) > 4
  BY <1>2 DEF AllLocked, MovePlan, JobPlan
<1> QED
  BY <1>1, <1>3 DEF Begun

\* The owner's lock keeps jobs and moves apart.
LEMMA StepSync == LockInv /\ SyncInv /\ [Next]_vars => SyncInv'
<1> SUFFICES ASSUME LockInv, SyncInv, [Next]_vars PROVE SyncInv'
  OBVIOUS
<1>1. TxInv /\ HoldInv /\ Locking
  BY StepLocking DEF LockInv
<1>2. "sync" \in Locks
  BY DEF Locks
<1>3. CASE Still
  BY <1>3 DEF Still, SyncInv, Begun
<1>4. ASSUME NEW c \in Clients, NEW kind \in Kinds, Started(c, kind) PROVE SyncInv'
  <2>1. PICK t : tx' = [tx EXCEPT ![c] = t] /\ t.pc \in {0, 1}
    BY <1>4 DEF Started
  <2>2. tx'[c].pc \in {0, 1} /\ (\A d \in Clients : d # c => tx'[d] = tx[d]) /\ holder' = holder
    BY <1>1, <1>4, <2>1 DEF TxInv, Started
  <2> QED BY <2>2 DEF SyncInv, Begun
<1>5. ASSUME NEW c \in Clients, Advanced(c) PROVE SyncInv'
  <2>1. PICK t : tx' = [tx EXCEPT ![c] = t] /\ t.kind = tx[c].kind /\ t.pc = tx[c].pc + 1
    BY <1>5 DEF Advanced
  <2>2. tx'[c] = t /\ (\A d \in Clients : d # c => tx'[d] = tx[d]) /\ holder' = holder
    BY <1>1, <1>5, <2>1 DEF TxInv, Advanced
  <2>3. ASSUME tx[c].kind \in Jobs \cup Moves, tx[c].pc # 0 PROVE tx[c].pc > 1
    <3>1. AtRequest(c) /\ Asked(c).lock \notin Locks
      BY <1>5, <2>3 DEF Advanced
    <3>2. tx[c].kind \in Kinds /\ tx[c].linked \in BOOLEAN /\ tx[c].pc \in Nat
      BY <1>1, <2>3 DEF TxInv, Jobs, Moves
    <3>3. /\ tx[c].kind \in Moves => MovePlan(Requests(c))
          /\ tx[c].kind \in Jobs => JobPlan(Requests(c))
      BY <3>2, RequestsPlan
    <3>4. tx[c].pc # 1
      BY <3>1, <3>3, <1>2, <2>3 DEF Asked, MovePlan, JobPlan
    <3> QED BY <2>3, <3>2, <3>4
  <2>4. Begun(c)' => Begun(c)
    BY <1>1, <2>1, <2>2, <2>3 DEF Begun, TxInv
  <2> QED BY <2>2, <2>4 DEF SyncInv, Begun
<1>6. ASSUME NEW c \in Clients, Grant(c) PROVE SyncInv'
  <2> DEFINE n == Cardinality(Batch(c))
             t == [tx[c] EXCEPT !.pc = @ + n]
  <2>1. /\ AtRequest(c) /\ Asked(c).lock \in Locks /\ Blockers(c) = {}
        /\ tx[c].kind \in Kinds /\ tx[c].linked \in BOOLEAN /\ tx[c].pc \in Nat /\ tx[c].pc > 0
    BY <1>1, <1>6 DEF Grant, AtRequest, Connected, TxInv
  <2>2. /\ tx[c].kind \in Moves => MovePlan(Requests(c))
        /\ tx[c].kind \in Jobs => JobPlan(Requests(c))
        /\ tx[c].kind \notin Moves \cup Jobs => OtherPlan(Requests(c))
    BY <2>1, RequestsPlan
  <2>3. /\ tx' = [tx EXCEPT ![c] = t]
        /\ holder' = [l \in Locks |-> holder[l] \cup {<<c, q.mode>> : q \in {w \in Wanted(c) : w.lock = l}}]
    BY <1>6 DEF Grant
  <2> HIDE DEF n
  <2>4. t.kind = tx[c].kind
    BY <1>1 DEF TxInv, Fields
  <2> HIDE DEF t
  <2>5. tx'[c].kind = tx[c].kind /\ \A d \in Clients : d # c => tx'[d] = tx[d]
    BY <1>1, <2>3, <2>4 DEF TxInv
  <2>6. /\ \A h \in holder["sync"] : h \in holder'["sync"]
        /\ \A d \in Clients : <<d, "own">> \in holder'["sync"] /\ <<d, "own">> \notin holder["sync"] =>
              d = c /\ \E q \in Wanted(c) : q.lock = "sync" /\ q.mode = "own"
        /\ \A q \in Wanted(c) : q.lock = "sync" /\ q.mode = "own" => <<c, "own">> \in holder'["sync"]
    BY <1>2, <2>3
  <2>7. ASSUME tx[c].kind \in Jobs \cup Moves, ~Begun(c) PROVE <<c, "own">> \in holder'["sync"]
    <3>1. tx[c].pc = 1
      BY <2>1, <2>7 DEF Begun
    <3>2. Requests(c)[1].lock = "sync" /\ Requests(c)[1].mode = "own" /\ Len(Requests(c)) \in Nat
      BY <2>2, <2>7 DEF MovePlan, JobPlan
    <3>3. 1 \in Batch(c)
      BY <2>1, <3>1, <3>2 DEF Batch, AtRequest
    <3> QED BY <2>6, <3>2, <3>3 DEF Wanted
  <2>8. ASSUME NEW d \in Clients, Begun(d)' PROVE <<d, "own">> \in holder'["sync"]
    <3>1. CASE d = c
      BY <2>5, <2>6, <2>7, <2>8, <3>1 DEF SyncInv, Begun
    <3>2. CASE d # c
      BY <2>5, <2>6, <2>8, <3>2 DEF SyncInv, Begun
    <3> QED BY <3>1, <3>2
  <2>9. ASSUME NEW d \in Clients, d # c, <<d, "own">> \in holder["sync"]
        PROVE  \A q \in Wanted(c) : q.lock # "sync"
    BY <2>1, <2>9 DEF Blockers
  <2>10. ASSUME NEW d \in Clients, NEW e \in Clients,
                <<d, "own">> \in holder'["sync"], <<e, "own">> \in holder'["sync"]
         PROVE  d = e
    BY <2>6, <2>9, <2>10 DEF SyncInv
  <2> QED BY <2>8, <2>10 DEF SyncInv
<1>7. ASSUME NEW c \in Clients, End(c) PROVE SyncInv'
  <2>1. /\ tx' = [tx EXCEPT ![c] = Idle]
        /\ holder' = [l \in Locks |-> {h \in holder[l] : h[1] # c}]
    BY <1>7 DEF End
  <2>2. tx'[c] = Idle /\ \A d \in Clients : d # c => tx'[d] = tx[d]
    BY <1>1, <2>1 DEF TxInv
  <2>3. ~Begun(c)'
    BY <2>2 DEF Begun, Idle
  <2>4. \A d \in Clients : (<<d, "own">> \in holder'["sync"]) <=> (d # c /\ <<d, "own">> \in holder["sync"])
    BY <1>2, <2>1
  <2> QED BY <2>2, <2>3, <2>4 DEF SyncInv, Begun
<1> QED
  BY <1>1, <1>3, <1>4, <1>5, <1>6, <1>7 DEF Locking

\* The mapping keeps its types.
LEMMA StepMapping == MappingTypes /\ [Next]_vars => MappingTypes'
<1> SUFFICES ASSUME MappingTypes, [Next]_vars PROVE MappingTypes'
  OBVIOUS
<1> DEFINE Types == [id : Nat, conflict : BOOLEAN, dirty : BOOLEAN, made : Nat]
<1>1. Dirty \in Types /\ Unmapped \in Types
  BY DEF MappingTypes, Dirty, Unmapped
<1>2. ASSUME mapping' \in {mapping, Dirty, Unmapped} PROVE MappingTypes'
  BY <1>1, <1>2 DEF MappingTypes
<1>3. CASE UNCHANGED vars
  BY <1>3, <1>2 DEF vars
<1>4. ASSUME NEW c \in Clients, NEW kind \in Kinds, Begin(c, kind) PROVE MappingTypes'
  BY <1>4, <1>2, Zenon DEF Begin, Items
<1>5. ASSUME NEW c \in Clients,
             \/ Connect(c) \/ TakeSecond(c) \/ CallGoogle(c) \/ Grant(c) \/ Refused(c) \/ Abort(c)
             \/ CommitFocus(c)
      PROVE  MappingTypes'
  <2>1. mapping' = mapping
    BY <1>5, Zenon DEF Connect, TakeSecond, CallGoogle, Grant, Refused, Abort, CommitFocus, Items
  <2> QED BY <2>1, <1>2
<1>6. ASSUME NEW c \in Clients, NEW r \in Receipts, CommitMove(c, r) \/ CommitUndo(c, r) PROVE MappingTypes'
  <2>1. mapping' = Dirty
    BY <1>6, Zenon DEF CommitMove, CommitUndo
  <2> QED BY <2>1, <1>2
<1>7. ASSUME NEW c \in Clients, NEW elsewhere \in BOOLEAN, CommitUpdateEvent(c, elsewhere) PROVE MappingTypes'
  <2>1. mapping' \in {Dirty, Unmapped}
    BY <1>7, Zenon DEF CommitUpdateEvent
  <2> QED BY <2>1, <1>2
<1>8. ASSUME NEW c \in Clients, CommitUpdateTask(c) PROVE MappingTypes'
  <2>1. mapping' = Dirty \/ mapping' = Unmapped
    BY <1>8, Zenon DEF CommitUpdateTask, RemoveEvent
  <2> QED BY <2>1, <1>2
<1>9. ASSUME NEW c \in Clients,
             CommitDeleteTask(c) \/ CommitDeleteEvent(c) \/ CommitDeleteCalendar(c) \/ CommitRemap(c)
      PROVE  MappingTypes'
  <2>1. mapping' = Unmapped
    BY <1>9, Zenon DEF CommitDeleteTask, CommitDeleteEvent, CommitDeleteCalendar, CommitRemap, RemoveEvent
  <2> QED BY <2>1, <1>2
<1>10. ASSUME NEW c \in Clients, CommitPush(c) PROVE MappingTypes'
  <2>1. mapping' = IF mapping.id # 0 THEN [mapping EXCEPT !.dirty = FALSE]
                   ELSE IF event.live THEN [mapping EXCEPT !.id = mapping.made + 1, !.made = @ + 1]
                   ELSE mapping
    BY <1>10, Zenon DEF CommitPush
  <2>2. mapping.id \in Nat /\ mapping.made \in Nat /\ mapping.made + 1 \in Nat
    BY DEF MappingTypes
  <2>3. [mapping EXCEPT !.dirty = FALSE] \in Types
    BY DEF MappingTypes
  <2>4. [mapping EXCEPT !.id = mapping.made + 1, !.made = @ + 1] \in Types
    BY <2>2 DEF MappingTypes
  <2> HIDE DEF Types
  <2>5. mapping \in Types
    BY DEF MappingTypes, Types
  <2>6. mapping' \in Types
    BY <2>1, <2>3, <2>4, <2>5, Zenon
  <2> QED BY <2>6 DEF MappingTypes, Types
<1>11. ASSUME NEW c \in Clients, CommitPull(c) PROVE MappingTypes'
  <2>1. mapping' = mapping \/ mapping' = [mapping EXCEPT !.conflict = TRUE]
    BY <1>11, Zenon DEF CommitPull
  <2> QED BY <2>1 DEF MappingTypes
<1>12. ASSUME NEW r \in Receipts, Expire(r) PROVE MappingTypes'
  BY <1>12, <1>2 DEF Expire
<1>13. ASSUME NEW to \in Times, GoogleEdit(to) PROVE MappingTypes'
  BY <1>13, <1>2 DEF GoogleEdit
<1> QED
  BY <1>3, <1>4, <1>5, <1>6, <1>7, <1>8, <1>9, <1>10, <1>11, <1>12, <1>13, Zenon DEF Next, Commit

\* The move made before the first state is marked.
LEMMA InitReach == Init => ReachInv
<1> SUFFICES ASSUME Init PROVE ReachInv
  OBVIOUS
<1>1. PICK linked \in BOOLEAN, id \in {0, 1}, moved \in {0, 1} : InitItem(linked, id, moved)
  BY Zenon DEF Init
<1>2. mapping = [NoMapping EXCEPT !.id = id, !.dirty = id = 1 /\ moved = 1] /\ last = moved
  BY <1>1, Zenon DEF InitItem
<1>3. /\ mapping \in [id : Nat, conflict : BOOLEAN, dirty : BOOLEAN, made : Nat]
      /\ mapping.id = id /\ mapping.dirty = (id = 1 /\ moved = 1)
  <2> DEFINE b == id = 1 /\ moved = 1
  <2>1. b \in BOOLEAN /\ mapping = [NoMapping EXCEPT !.id = id, !.dirty = b]
    BY <1>2
  <2> HIDE DEF b
  <2>2. /\ mapping \in [id : Nat, conflict : BOOLEAN, dirty : BOOLEAN, made : Nat]
        /\ mapping.id = id /\ mapping.dirty = b
    <3>1. mapping = [id |-> id, conflict |-> FALSE, dirty |-> b, made |-> 1]
      BY <2>1 DEF NoMapping
    <3>2. mapping.id = id /\ mapping.dirty = b
      BY <3>1, Zenon
    <3>3. id \in Nat /\ 1 \in Nat /\ FALSE \in BOOLEAN
      OBVIOUS
    <3>4. [id |-> id, conflict |-> FALSE, dirty |-> b, made |-> 1]
            \in [id : Nat, conflict : BOOLEAN, dirty : BOOLEAN, made : Nat]
      BY <2>1, <3>3, Zenon
    <3> QED BY <3>1, <3>2, <3>4, Zenon
  <2> QED BY <2>2 DEF b
<1>4. MovesReachGoogle
  BY <1>2, <1>3 DEF MovesReachGoogle
<1>5. tx = [c \in Clients |-> Idle] /\ holder = [l \in Locks |-> {}]
  BY Zenon DEF Init
<1>6. SyncInv
  BY <1>5 DEF SyncInv, Begun, Idle, Jobs, Moves, Locks
<1>7. PushInv
  BY <1>5 DEF PushInv, Idle
<1> QED BY <1>3, <1>4, <1>6, <1>7 DEF ReachInv, MappingTypes

Reach == PushInv /\ MovesReachGoogle

\* Steps that end a transaction.
LEMMA CommitReach ==
  ASSUME LockInv, ReachInv, NEW c \in Clients, Refused(c) \/ Abort(c) \/ Commit(c)
  PROVE  Reach'
<1> USE DEF Reach
<1>1. /\ TxInv /\ SyncInv /\ PushInv /\ MovesReachGoogle
      /\ mapping \in [id : Nat, conflict : BOOLEAN, dirty : BOOLEAN, made : Nat]
  BY DEF LockInv, ReachInv, MappingTypes
<1>2. ASSUME End(c) PROVE tx'[c].kind # "push" /\ \A d \in Clients : d # c => tx'[d] = tx[d]
  <2>1. tx'[c] = Idle /\ \A d \in Clients : d # c => tx'[d] = tx[d]
    BY <1>1, <1>2 DEF End, TxInv
  <2> QED BY <2>1 DEF Idle
\* A writer that is no move.
<1>3. ASSUME End(c), last' = 0 PROVE Reach'
  BY <1>1, <1>2, <1>3 DEF PushInv, MovesReachGoogle
<1>4. ASSUME NEW d \in Clients, AllLocked(c), tx[c].kind \in Jobs \cup Moves, d # c, tx[d].kind = "push"
      PROVE  tx[d].pc <= 1
  <2>1. Begun(c)
    BY <1>4, LockedBegun
  <2>2. ~Begun(d)
    BY <1>1, <1>4, <2>1 DEF SyncInv
  <2> QED BY <1>1, <1>4, <2>2 DEF Begun, Jobs, TxInv
<1>5. ASSUME NEW r \in Receipts, CommitMove(c, r) PROVE Reach'
  <2>1. /\ AllLocked(c) /\ tx[c].kind \in Moves /\ mapping' = Dirty /\ End(c)
    BY <1>5 DEF CommitMove, Moves
  <2>2. mapping'.id # 0 => mapping'.dirty
    BY <1>1, <2>1 DEF Dirty
  <2>3. \A d \in Clients : tx'[d].kind = "push" => tx'[d].pc <= 1 /\ tx'[d] = tx[d] /\ tx'[d].pc \in Nat
    BY <1>1, <1>2, <1>4, <2>1 DEF TxInv
  <2> QED BY <1>1, <2>2, <2>3 DEF PushInv, MovesReachGoogle
<1>6. ASSUME \/ \E r \in Receipts : CommitUndo(c, r)
             \/ \E elsewhere \in BOOLEAN : CommitUpdateEvent(c, elsewhere)
             \/ CommitUpdateTask(c) \/ CommitDeleteTask(c) \/ CommitDeleteEvent(c) \/ CommitDeleteCalendar(c)
      PROVE  Reach'
  <2>1. End(c) /\ last' = 0
    BY <1>6, Zenon DEF CommitUndo, CommitUpdateEvent, CommitUpdateTask, CommitDeleteTask, CommitDeleteEvent,
       CommitDeleteCalendar
  <2> QED BY <2>1, <1>3
<1>7. ASSUME Refused(c) \/ Abort(c) \/ CommitFocus(c) PROVE Reach'
  <2>1. End(c) /\ UNCHANGED <<event, mapping, google, pulled, last>>
    BY <1>7, Zenon DEF Refused, Abort, CommitFocus, Items
  <2> QED BY <1>1, <1>2, <2>1 DEF PushInv, MovesReachGoogle
<1>8. ASSUME CommitPush(c) PROVE Reach'
  <2>1. /\ AllLocked(c) /\ tx[c].kind = "push" /\ End(c) /\ UNCHANGED <<event, google, pulled, last>>
    BY <1>8, Zenon DEF CommitPush
  <2>2. tx[c].pc > 4 /\ tx[c].pc \in Nat
    BY <1>1, <2>1, LockedBegun DEF Jobs, TxInv
  <2>3. last # 0 /\ pulled => google = event.sched
    BY <1>1, <2>1, <2>2 DEF PushInv
  <2> QED BY <1>1, <1>2, <2>1, <2>3 DEF PushInv, MovesReachGoogle
<1>9. ASSUME CommitPull(c) PROVE Reach'
  <2>1. CASE mapping.dirty
    <3>1. /\ End(c) /\ UNCHANGED <<event, google, pulled, last>>
          /\ mapping' = [mapping EXCEPT !.conflict = TRUE]
      BY <1>9, <2>1, Zenon DEF CommitPull
    <3>2. mapping'.conflict
      BY <1>1, <3>1
    <3> QED BY <1>1, <1>2, <3>1, <3>2 DEF PushInv, MovesReachGoogle
  <2>2. CASE ~mapping.dirty
    BY <1>3, <1>9, <2>2, Zenon DEF CommitPull
  <2> QED BY <2>1, <2>2
<1>10. ASSUME CommitRemap(c) PROVE Reach'
  <2>1. /\ AllLocked(c) /\ tx[c].kind \in Jobs /\ End(c) /\ mapping' = Unmapped
        /\ UNCHANGED <<event, google, last>>
    BY <1>10 DEF CommitRemap, Jobs
  <2>2. mapping'.id = 0
    BY <1>1, <2>1 DEF Unmapped
  <2>3. \A d \in Clients : tx'[d].kind = "push" => tx'[d].pc <= 1 /\ tx'[d] = tx[d] /\ tx'[d].pc \in Nat
    BY <1>1, <1>2, <1>4, <2>1 DEF TxInv
  <2> QED BY <1>1, <2>1, <2>2, <2>3 DEF PushInv, MovesReachGoogle
<1> QED
  BY <1>5, <1>6, <1>7, <1>8, <1>9, <1>10, Zenon DEF Commit

\* Steps on the way there, and those of Google.
LEMMA OtherReach ==
  ASSUME LockInv, ReachInv,
         \/ UNCHANGED vars
         \/ \E c \in Clients : \/ \E kind \in Kinds : Begin(c, kind)
                               \/ Connect(c) \/ TakeSecond(c) \/ CallGoogle(c) \/ Grant(c)
         \/ \E r \in Receipts : Expire(r)
         \/ \E to \in Times : GoogleEdit(to)
  PROVE  Reach'
<1> USE DEF Reach
<1>1. TxInv /\ SyncInv /\ PushInv /\ MovesReachGoogle
  BY DEF LockInv, ReachInv
<1> DEFINE Same == UNCHANGED <<event, mapping, google, pulled, last>>
           PushOK(d) == /\ tx'[d].pc <= 2 => tx'[d].to = "none"
                        /\ tx'[d].pc = 3 /\ tx'[d].to # "none" /\ last # 0 => tx'[d].to = event.sched
                        /\ tx'[d].pc > 3 /\ last # 0 /\ pulled => google = event.sched
<1>0. \A d \in Clients : tx[d].kind = "push" =>
          /\ tx[d].pc <= 2 => tx[d].to = "none"
          /\ tx[d].pc > 3 => (last # 0 /\ pulled => google = event.sched)
  BY <1>1, Zenon DEF PushInv
<1>2. ASSUME Same, NEW c \in Clients, \A d \in Clients : d # c => tx'[d] = tx[d],
             tx'[c].kind = "push" => PushOK(c)
      PROVE  Reach'
  BY <1>1, <1>2 DEF PushInv, MovesReachGoogle
<1>3. CASE UNCHANGED vars
  BY <1>1, <1>3 DEF vars, PushInv, MovesReachGoogle
<1>4. ASSUME NEW c \in Clients, NEW kind \in Kinds, Begin(c, kind) PROVE Reach'
  <2>1. Same
    BY <1>4, Zenon DEF Begin, Items
  <2>2. PICK to, r :
            /\ to # "none" => kind \in {"move_event", "move_task", "update_event", "update_task"}
            /\ tx' = [tx EXCEPT ![c] =
                [kind |-> kind, linked |-> task.linked, pc |-> IF PoolFree THEN 1 ELSE 0, to |-> to, r |-> r,
                 expect |-> IF kind \in EventKinds THEN event.version
                            ELSE IF kind \in TaskKinds THEN task.version ELSE 0]]
    BY <1>4, Zenon DEF Begin
  <2> DEFINE p == IF PoolFree THEN 1 ELSE 0
             v == IF kind \in EventKinds THEN event.version
                  ELSE IF kind \in TaskKinds THEN task.version ELSE 0
             t == [kind |-> kind, linked |-> task.linked, pc |-> p, to |-> to, r |-> r, expect |-> v]
  <2>3. p \in {0, 1}
    OBVIOUS
  <2>4. tx' = [tx EXCEPT ![c] = t]
    BY <2>2
  <2> HIDE DEF p, v
  <2>5. t.kind = kind /\ t.pc = p /\ t.to = to
    OBVIOUS
  <2> HIDE DEF t
  <2>6. tx'[c] = t /\ \A d \in Clients : d # c => tx'[d] = tx[d]
    BY <1>1, <2>4 DEF TxInv
  <2>7. tx'[c].kind = "push" => PushOK(c)
    BY <2>2, <2>3, <2>5, <2>6
  <2> QED BY <2>1, <2>6, <2>7, <1>2
<1>5. ASSUME NEW c \in Clients, Connect(c) PROVE Reach'
  <2> DEFINE t == [tx[c] EXCEPT !.pc = 1]
  <2>1. Same /\ tx[c].pc = 0 /\ tx' = [tx EXCEPT ![c] = t]
    BY <1>5, Zenon DEF Connect, Items
  <2>2. t.kind = tx[c].kind /\ t.pc = 1 /\ t.to = tx[c].to
    BY <1>1 DEF TxInv, Fields
  <2> HIDE DEF t
  <2>3. tx'[c] = t /\ \A d \in Clients : d # c => tx'[d] = tx[d]
    BY <1>1, <2>1 DEF TxInv
  <2>4. tx'[c].kind = "push" => PushOK(c)
    <3>1. tx[c].kind = "push" => tx[c].to = "none"
      BY <1>0, <2>1
    <3>2. tx'[c].pc = 1 /\ tx'[c].kind = tx[c].kind /\ tx'[c].to = tx[c].to
      BY <2>2, <2>3
    <3> QED BY <3>1, <3>2
  <2> QED BY <2>1, <2>3, <2>4, <1>2
<1>6. ASSUME NEW c \in Clients, TakeSecond(c) PROVE Reach'
  <2> DEFINE to == IF tx[c].kind = "push" /\ tx[c].pc = 2 /\ Pushable THEN event.sched ELSE tx[c].to
             t == [tx[c] EXCEPT !.pc = @ + 1, !.to = to]
  <2>1. Same /\ AtRequest(c) /\ Asked(c).lock = "pool"
    BY <1>6, Zenon DEF TakeSecond, Items
  <2>2. tx' = [tx EXCEPT ![c] = t]
    BY <1>6, <1>1 DEF TakeSecond, TxInv, Fields
  <2>3. tx[c].kind = "push" => /\ tx[c].pc = 2 /\ (to = event.sched \/ to = tx[c].to)
                               \/ tx[c].pc = 4
    BY <2>1, JobRequests DEF Jobs
  <2> HIDE DEF to
  <2>4. t.kind = tx[c].kind /\ t.pc = tx[c].pc + 1 /\ t.to = to
    BY <1>1 DEF TxInv, Fields
  <2> HIDE DEF t
  <2>5. tx'[c] = t /\ \A d \in Clients : d # c => tx'[d] = tx[d]
    BY <1>1, <2>2 DEF TxInv
  <2>6. tx'[c].kind = "push" => PushOK(c)
    <3>1. CASE tx[c].kind = "push" /\ tx[c].pc = 2
      BY <1>0, <2>3, <2>4, <2>5, <3>1
    <3>2. CASE tx[c].kind = "push" /\ tx[c].pc = 4
      <4>1. last # 0 /\ pulled => google = event.sched
        BY <1>0, <3>2
      <4> QED BY <2>4, <2>5, <3>2, <4>1
    <3> QED BY <2>3, <2>4, <2>5, <3>1, <3>2
  <2> QED BY <2>1, <2>5, <2>6, <1>2
<1>7. ASSUME NEW c \in Clients, CallGoogle(c) PROVE Reach'
  <2> DEFINE t == [tx[c] EXCEPT !.pc = @ + 1, !.to = google']
  <2>1. /\ AtRequest(c) /\ Asked(c).lock = "provider"
        /\ tx[c].kind = "push" => tx[c].to # "none" /\ pulled
        /\ google' = IF tx[c].kind = "push" THEN tx[c].to ELSE google
        /\ UNCHANGED <<event, mapping, pulled, last>>
    BY <1>7, Zenon DEF CallGoogle
  <2>2. tx' = [tx EXCEPT ![c] = t]
    BY <1>7, <1>1 DEF CallGoogle, TxInv, Fields
  <2>3. t.kind = tx[c].kind /\ t.pc = tx[c].pc + 1
    BY <1>1 DEF TxInv, Fields
  <2> HIDE DEF t
  <2>4. tx'[c] = t /\ \A d \in Clients : d # c => tx'[d] = tx[d]
    BY <1>1, <2>2 DEF TxInv
  <2>5. CASE tx[c].kind # "push"
    <3>1. Same
      BY <2>1, <2>5
    <3> QED BY <2>3, <2>4, <2>5, <3>1, <1>2
  <2>6. CASE tx[c].kind = "push"
    <3>1. tx[c].pc = 3
      BY <2>1, <2>6, JobRequests DEF Jobs
    <3>2. last # 0 => google' = event.sched
      BY <1>1, <2>1, <2>6, <3>1 DEF PushInv
    <3>3. ASSUME NEW d \in Clients, d # c, tx[d].kind = "push" PROVE tx[d].pc <= 1
      <4>1. Begun(c) /\ (Begun(d) \/ tx[d].pc <= 1)
        BY <1>1, <2>6, <3>1, <3>3 DEF Begun, Jobs, TxInv
      <4> QED BY <1>1, <3>3, <4>1 DEF SyncInv
    <3>4. \A d \in Clients : d # c /\ tx'[d].kind = "push" => tx'[d].pc <= 1 /\ tx'[d] = tx[d] /\ tx'[d].pc \in Nat
      BY <1>1, <2>4, <3>3 DEF TxInv
    <3>5. tx'[c].pc = 4
      BY <2>3, <2>4, <3>1
    <3> QED BY <1>1, <2>1, <3>2, <3>4, <3>5 DEF PushInv, MovesReachGoogle
  <2> QED BY <2>5, <2>6
<1>8. ASSUME NEW c \in Clients, Grant(c) PROVE Reach'
  <2> DEFINE n == Cardinality(Batch(c))
             t == [tx[c] EXCEPT !.pc = @ + n]
  <2>1. /\ AtRequest(c) /\ Asked(c).lock \in Locks /\ Same
        /\ tx' = [tx EXCEPT ![c] = t]
    BY <1>8, Zenon DEF Grant, Items
  <2>2. tx[c].kind = "push" => /\ tx[c].pc = 1 \/ tx[c].pc > 4
                               /\ n \in Nat
                               /\ tx[c].pc = 1 => n = 1
    <3> SUFFICES ASSUME tx[c].kind = "push"
                 PROVE  /\ tx[c].pc = 1 \/ tx[c].pc > 4
                        /\ n \in Nat
                        /\ tx[c].pc = 1 => n = 1
      OBVIOUS
    <3>1. (tx[c].pc = 1 \/ tx[c].pc > 4) /\ (tx[c].pc = 1 => Asked(c).wait)
      BY <2>1, JobRequests DEF Jobs
    <3>2. tx[c].kind \in Jobs /\ tx[c].kind \in Kinds /\ tx[c].linked \in BOOLEAN /\ tx[c].pc \in Nat
      BY <1>1 DEF TxInv, Jobs
    <3>3. Len(Requests(c)) \in Nat
      BY <3>2, RequestsPlan DEF JobPlan
    <3>4. n \in Nat
      BY <2>1, <3>2, <3>3, BatchSize
    <3>5. tx[c].pc = 1 => Batch(c) = {1}
      BY <2>1, <3>1, <3>2, <3>3, WaitAlone
    <3>6. Cardinality({1}) = 1
      BY FS_Singleton
    <3> QED BY <3>1, <3>4, <3>5, <3>6
  <2> HIDE DEF n
  <2>3. t.kind = tx[c].kind /\ t.pc = tx[c].pc + n /\ t.to = tx[c].to
    BY <1>1 DEF TxInv, Fields
  <2> HIDE DEF t
  <2>4. tx'[c] = t /\ \A d \in Clients : d # c => tx'[d] = tx[d]
    BY <1>1, <2>1 DEF TxInv
  <2>5. tx'[c].kind = "push" => PushOK(c)
    <3>1. tx[c].pc \in Nat
      BY <1>1 DEF TxInv
    <3>2. CASE tx[c].kind = "push" /\ tx[c].pc = 1
      BY <1>0, <2>2, <2>3, <2>4, <3>2
    <3>3. CASE tx[c].kind = "push" /\ tx[c].pc > 4
      <4>1. last # 0 /\ pulled => google = event.sched
        BY <1>0, <3>1, <3>3
      <4>2. tx'[c].pc > 3 /\ ~(tx'[c].pc <= 2) /\ tx'[c].pc # 3
        BY <2>2, <2>3, <2>4, <3>1, <3>3
      <4> QED BY <4>1, <4>2
    <3> QED BY <2>2, <2>3, <2>4, <3>2, <3>3
  <2> QED BY <2>1, <2>4, <2>5, <1>2
<1>9. ASSUME NEW r \in Receipts, Expire(r) PROVE Reach'
  BY <1>1, <1>9 DEF Expire, PushInv, MovesReachGoogle
<1>10. ASSUME NEW to \in Times, GoogleEdit(to) PROVE Reach'
  BY <1>1, <1>10 DEF GoogleEdit, PushInv, MovesReachGoogle
<1> QED
  BY <1>3, <1>4, <1>5, <1>6, <1>7, <1>8, <1>9, <1>10

\* Every step keeps what a push has read and sent in line with the last move.
LEMMA StepReach == LockInv /\ ReachInv /\ [Next]_vars => ReachInv'
<1> SUFFICES ASSUME LockInv, ReachInv, [Next]_vars PROVE ReachInv'
  OBVIOUS
<1>1. MappingTypes' /\ SyncInv'
  BY StepMapping, StepSync DEF ReachInv
<1>2. Reach'
  BY CommitReach, OtherReach, Zenon DEF Next
<1> QED BY <1>1, <1>2 DEF ReachInv, Reach

\* No push, pull or repair that overlaps a move leaves the move unmarked and unsent: the owner's lock,
\* held by a job over its call to Google and tried by lock_move, is enough for it.
THEOREM MovesAreSent == Spec => []MovesReachGoogle
<1>1. Spec => []ReachInv
  BY LocksInvariance, InitReach, StepReach, PTL DEF Spec
<1>2. ReachInv => MovesReachGoogle
  BY DEF ReachInv
<1> QED BY <1>1, <1>2, PTL
=============================================================================
