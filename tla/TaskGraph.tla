----------------------------- MODULE TaskGraph -----------------------------
(***************************************************************************)
(* The task table: projects, subtasks and repeating tasks.  A transaction  *)
(* that changes the relations between tasks takes the user's advisory lock *)
(* (lock_task_graph) and is one step, except two that are cut where the    *)
(* lock does not exclude a concurrent write: reopening a completed task    *)
(* reads its successor without locking the row and deletes it later, and   *)
(* an import inserts its rows one by one.  Calendar edits, the jobs of     *)
(* CalendarSync and the daily review change task rows without that lock.   *)
(***************************************************************************)
EXTENDS Naturals, FiniteSets

CONSTANTS
    Tasks, Projects,   \* identifiers, each used for one row
    Editors,           \* clients that read a task and save it later
    Rules, Period,     \* repeat rules and the days each one adds
    Horizon,           \* last deadline a date can represent
    Dues, Blocks,      \* deadlines and time blocks a user enters
    MaxEdits,          \* bound: requests and changes made elsewhere
    Aspects            \* bound: sets of fields that one request may change together

NoTask == "no task"
NoProject == "no project"
NoRule == "none"

ASSUME GraphAssumption ==
    /\ NoTask \notin Tasks /\ NoProject \notin Projects /\ NoRule \notin Rules
    /\ Period \in [Rules -> Nat \ {0}]
    /\ Horizon \in Nat /\ MaxEdits \in Nat
    /\ Dues \subseteq 1..Horizon /\ Blocks \subseteq Nat \ {0}

VARIABLES
    task,       \* tasks, their rows (version 0: no row)
    projects,   \* projects, their versions (0: no row)
    receipt,    \* task_delete_undos, as far as the rows here go
    draft,      \* what each editor has read
    tx,         \* a reopening or an import under way
    copy,       \* what became of each task's time block in Google
    born,       \* identifiers in use or used
    imported,   \* history: rows inserted by an import
    reopened,   \* history: successors removed by reopening their source
    edits

vars == <<task, projects, receipt, draft, tx, copy, born, imported, reopened, edits>>

---------------------------------------------------------------------------
(* Rows *)

\* recurrence_defaults with recurrence_project_id; no defaults when it has no rule.
NoBase == [project |-> NoProject, recur |-> NoRule, due |-> 0, block |-> 0]

NoRow == [ver |-> 0, project |-> NoProject, parent |-> NoTask, done |-> FALSE, recur |-> NoRule,
          due |-> 0, block |-> 0, source |-> NoTask, base |-> NoBase]

NoReceipt == [row |-> NoRow, next |-> {}, seen |-> [u \in Tasks |-> NoRow],
              pver |-> [p \in Projects |-> 0], mapped |-> FALSE]

NoDraft == [task |-> NoTask, row |-> NoRow]

NoTx == [kind |-> "none", editor |-> "nobody", request |-> NoRow, next |-> NoTask,
         project |-> NoProject, rows |-> {}]

Days == 0..Horizon

Bases == [project : Projects \cup {NoProject}, recur : Rules \cup {NoRule}, due : Days, block : Nat]

Rows == [ver : Nat, project : Projects \cup {NoProject}, parent : Tasks \cup {NoTask},
         done : BOOLEAN, recur : Rules \cup {NoRule}, due : Days, block : Nat,
         source : Tasks \cup {NoTask}, base : Bases]

Receipts == [row : Rows, next : SUBSET Tasks, seen : [Tasks -> Rows],
             pver : [Projects -> Nat], mapped : BOOLEAN]

Transactions == [kind : {"none", "reopen", "import"}, editor : Editors \cup {"nobody"},
                 request : Rows, next : Tasks \cup {NoTask},
                 project : Projects \cup {NoProject}, rows : SUBSET Tasks]

\* No copy of the task's block, or one marked for deletion; a job has read the event to
\* post it and has not inserted the mapping; mapped; a copy that nothing will take back.
Copies == {"none", "posting", "mapped", "left"}

TypeOK ==
    /\ task \in [Tasks -> Rows]
    /\ projects \in [Projects -> Nat]
    /\ receipt \in [Tasks -> Receipts]
    /\ draft \in [Editors -> [task : Tasks \cup {NoTask}, row : Rows]]
    /\ tx \in Transactions
    /\ copy \in [Tasks -> Copies] /\ born \subseteq Tasks \cup Projects
    /\ imported \subseteq Tasks /\ reopened \subseteq Tasks
    /\ edits \in 0..MaxEdits

Live == {t \in Tasks : task[t].ver > 0}

\* Rows other connections see: an import's rows appear when it commits.
Visible == Live \ tx.rows

\* Rows the open transaction has locked with FOR UPDATE.
Locked == IF tx.kind = "reopen" THEN {draft[tx.editor].task} ELSE {}

LockFree == tx = NoTx

HasSubtasks(t) == \E u \in Tasks : task[u].parent = t

\* The rows WITH RECURSIVE parent_chain collects from q: the least set with q
\* and the parents of its members.
ParentChain(q) ==
    {x \in Tasks : \A S \in SUBSET Tasks :
        (q \in S /\ \A y \in S : task[y].parent \in Live => task[y].parent \in S) => x \in S}

Init ==
    /\ task = [t \in Tasks |-> NoRow]
    /\ projects = [p \in Projects |-> 0]
    /\ receipt = [t \in Tasks |-> NoReceipt]
    /\ draft = [c \in Editors |-> NoDraft]
    /\ tx = NoTx
    /\ copy = [t \in Tasks |-> "none"] /\ born = {} /\ imported = {} /\ reopened = {}
    /\ edits = 0

\* Requests and outside changes are counted; a new project uses up an identifier.
Counted == edits < MaxEdits /\ edits' = edits + 1

---------------------------------------------------------------------------
(* Validation *)

ValidFields(r) == r.recur # NoRule => r.due # 0 /\ r.parent = NoTask

\* Fault for ParentsExist: a repeating task is accepted as a parent.
ValidRelationshipsAnyRule(r) ==
    /\ r.project # NoProject => projects[r.project] > 0
    /\ r.parent # NoTask => r.parent \in Live /\ task[r.parent].project = r.project

ValidRelationships(r) ==
    /\ r.project # NoProject => projects[r.project] > 0
    /\ r.parent # NoTask =>
        /\ r.parent \in Live
        /\ task[r.parent].project = r.project
        /\ task[r.parent].recur = NoRule

\* Fault for NoCycle: only the task itself is refused as its parent.
AcceptAnyParent(t, r) == HasSubtasks(t) => r.recur = NoRule /\ r.project = task[t].project

ValidUpdateRelationships(t, r) ==
    /\ HasSubtasks(t) => r.recur = NoRule /\ r.project = task[t].project
    /\ r.parent # NoTask => t \notin ParentChain(r.parent)

---------------------------------------------------------------------------
(* Creating *)

NewRow(r) == [r EXCEPT !.ver = 1, !.source = NoTask, !.base = NoBase]

Fresh == (Tasks \cup Projects) \ born

\* What a field of a form can hold: the value it was opened with or, when the request
\* may change the field, one that the user enters.
Entered(field, aspect, values, shown) == IF field \in aspect THEN values \cup {shown} ELSE {shown}

Forms(row, aspect) ==
    [done : Entered("done", aspect, BOOLEAN, row.done),
     recur : Entered("recur", aspect, Rules \cup {NoRule}, row.recur),
     due : Entered("due", aspect, Dues \cup {0}, row.due),
     block : Entered("block", aspect, Blocks \cup {0}, row.block),
     project : Entered("project", aspect, Projects \cup {NoProject}, row.project),
     parent : Entered("parent", aspect, Tasks \cup {NoTask}, row.parent)]

Requests(row) ==
    {[row EXCEPT !.done = x.done, !.recur = x.recur, !.due = x.due, !.block = x.block,
                 !.project = x.project, !.parent = x.parent] :
        x \in UNION {Forms(row, aspect) : aspect \in Aspects}}

CreateTask(t, r) ==
    /\ LockFree /\ t \in Fresh /\ Counted
    /\ ValidFields(r) /\ ~(r.recur # NoRule /\ r.done)
    /\ ValidRelationships(r)
    /\ task' = [task EXCEPT ![t] = NewRow(r)]
    /\ born' = born \cup {t}
    /\ UNCHANGED <<projects, receipt, draft, tx, copy, imported, reopened>>

CreateProject(p) ==
    /\ p \in Fresh
    /\ projects' = [projects EXCEPT ![p] = 1]
    /\ born' = born \cup {p}
    /\ UNCHANGED <<task, receipt, draft, tx, copy, imported, reopened, edits>>

UpdateProject(p) ==
    /\ projects[p] > 0 /\ p # tx.project /\ Counted
    /\ projects' = [projects EXCEPT ![p] = @ + 1]
    /\ UNCHANGED <<task, receipt, draft, tx, copy, born, imported, reopened>>

\* import_todoist_project: the project, then one row after the other, each with
\* a parent among the rows before it.
BeginImport(p) ==
    /\ LockFree /\ p \in Fresh
    /\ projects' = [projects EXCEPT ![p] = 1]
    /\ born' = born \cup {p}
    /\ tx' = [NoTx EXCEPT !.kind = "import", !.project = p]
    /\ UNCHANGED <<task, receipt, draft, copy, imported, reopened, edits>>

ImportRow(t, r) ==
    /\ tx.kind = "import" /\ t \in Fresh /\ Counted
    /\ ValidFields(r) /\ ~r.done
    /\ r.parent \in tx.rows \cup {NoTask}
    /\ task' = [task EXCEPT ![t] = [NewRow(r) EXCEPT !.project = tx.project]]
    /\ tx' = [tx EXCEPT !.rows = @ \cup {t}]
    /\ born' = born \cup {t}
    /\ imported' = imported \cup {t}
    /\ UNCHANGED <<projects, receipt, draft, copy, reopened>>

CommitImport ==
    /\ tx.kind = "import"
    /\ tx' = NoTx
    /\ UNCHANGED <<task, projects, receipt, draft, copy, born, imported, reopened, edits>>

\* An error or a lost connection rolls the import back.
AbortImport ==
    /\ tx.kind = "import"
    /\ task' = [t \in Tasks |-> IF t \in tx.rows THEN NoRow ELSE task[t]]
    /\ projects' = [projects EXCEPT ![tx.project] = 0]
    /\ tx' = NoTx
    /\ UNCHANGED <<receipt, draft, copy, born, imported, reopened, edits>>

---------------------------------------------------------------------------
(* Editing *)

\* A view reads a task, also again after a conflict.
OpenEditor(c, t) ==
    /\ t \in Visible /\ tx.editor # c
    /\ draft' = [draft EXCEPT ![c] = [task |-> t, row |-> task[t]]]
    /\ UNCHANGED <<task, projects, receipt, tx, copy, born, imported, reopened, edits>>

\* RecurringTaskState::prepare: may this scope be used, and the defaults it leaves.
ScopeAllowed(row, r, scope) ==
    /\ scope # "none" => ~row.done
    /\ scope = "this" => row.recur # NoRule /\ r.recur = row.recur

Defaults(row) == [project |-> row.project, recur |-> row.recur, due |-> row.due, block |-> row.block]

\* Fault for OneOffKeepsSeries: every one-occurrence edit starts from the row.
RepeatedBase(row, r, scope) ==
    CASE scope = "this" -> Defaults(row)
      [] scope = "future" -> NoBase
      [] scope = "none" -> IF r.recur # row.recur \/ r.recur = NoRule THEN NoBase ELSE row.base

PreparedBase(row, r, scope) ==
    CASE scope = "this" -> IF row.base = NoBase THEN Defaults(row) ELSE row.base
      [] scope = "future" -> NoBase
      [] scope = "none" -> IF r.recur # row.recur \/ r.recur = NoRule THEN NoBase ELSE row.base

\* The row the UPDATE of update_task_scoped leaves.
UpdatedRow(row, r, scope) ==
    [r EXCEPT !.ver = row.ver + 1, !.source = row.source, !.base = PreparedBase(row, r, scope)]

SuccessorSource(row) == IF row.base # NoBase THEN row.base ELSE Defaults(row)

NextDue(s) == s.due + Period[s.recur]

\* Fault for TypeOK: the date is added without checking.
AnyDate(s) == TRUE

\* checked_add_signed and checked_add_months of next_recurrence_date.
InRange(s) == NextDue(s) <= Horizon

\* create_next_recurring_task: what follows row, the row of task t.
Successor(t, row) ==
    LET s == SuccessorSource(row)
    IN  [NoRow EXCEPT !.ver = 1, !.project = s.project, !.recur = s.recur, !.due = NextDue(s),
            !.block = IF s.block = 0 THEN 0 ELSE s.block + Period[s.recur], !.source = t]

\* The copies that a job or a mapping knows of.
Followed == {t \in Tasks : copy[t] \in {"posting", "mapped"}}

\* A block is removed: mark_event_for_sync marks the mapping, and finds none while a job is
\* between the SELECT and the INSERT of push_calendar: then the copy stays in Google, and
\* the INSERT fails, or leaves a mapping that is not marked (delete_calendar_event).
Removed(status) ==
    CASE status = "mapped" -> "none"
      [] status = "posting" -> "left"
      [] OTHER -> status

\* The event goes by ON DELETE CASCADE, and nothing is marked.
Abandoned(status) == IF status \in {"posting", "mapped"} THEN "left" ELSE status

\* Fault for BlocksKeepTheirTask: the event is deleted and its mapping is not marked.
RemappedNever(t, row) == copy

\* sync_task_calendar_event: unscheduling marks the Google event for deletion.
Remapped(t, row) == IF row.block = 0 THEN [copy EXCEPT ![t] = Removed(@)] ELSE copy

\* The checks of update_task_scoped, up to its first write.
Admitted(c, r, scope) ==
    LET t == draft[c].task IN
    /\ t \in Live /\ LockFree
    /\ ValidFields(r) /\ r.parent # t
    /\ ValidRelationships(r) /\ ValidUpdateRelationships(t, r)
    /\ task[t].ver = draft[c].row.ver
    /\ ScopeAllowed(task[t], r, scope)

\* A task that is not reopened, nor completed while it repeats.
SaveTask(c, r, scope) ==
    LET t == draft[c].task
        row == UpdatedRow(task[t], r, scope)
    IN
    /\ Counted /\ Admitted(c, r, scope)
    /\ task[t].done => r.done
    /\ task[t].done \/ ~r.done \/ r.recur = NoRule
    /\ task' = [task EXCEPT ![t] = row]
    /\ copy' = Remapped(t, row)
    /\ draft' = [draft EXCEPT ![c] = NoDraft]
    /\ UNCHANGED <<projects, receipt, tx, born, imported, reopened>>

CompleteRepeating(c, s, r, scope) ==
    LET t == draft[c].task
        row == UpdatedRow(task[t], r, scope)
    IN
    /\ Counted /\ Admitted(c, r, scope)
    /\ ~task[t].done /\ r.done /\ r.recur # NoRule
    /\ InRange(SuccessorSource(row))
    /\ s \in Fresh
    /\ task' = [task EXCEPT ![t] = row, ![s] = Successor(t, row)]
    /\ born' = born \cup {s}
    /\ copy' = Remapped(t, row)
    /\ draft' = [draft EXCEPT ![c] = NoDraft]
    /\ UNCHANGED <<projects, receipt, tx, imported, reopened>>

NextOf(t) == {u \in Tasks : task[u].ver > 0 /\ task[u].source = t}

\* remove_next_occurrence_for_reopen reads the successor without locking it ...
BeginReopen(c, r) ==
    LET t == draft[c].task IN
    /\ Counted /\ Admitted(c, r, "none")
    /\ task[t].done /\ ~r.done
    /\ \E u \in NextOf(t) \cup {NoTask} :
        /\ u = NoTask => NextOf(t) = {}
        /\ u # NoTask => ~task[u].done /\ task[u].ver = 1
        /\ tx' = [NoTx EXCEPT !.kind = "reopen", !.editor = c, !.request = r, !.next = u]
    /\ UNCHANGED <<task, projects, receipt, draft, copy, born, imported, reopened>>

\* Rows after a DELETE FROM tasks: the source of a successor becomes NULL.
Without(gone) ==
    [u \in Tasks |->
        IF u \in gone THEN NoRow
        ELSE IF task[u].source \in gone THEN [task[u] EXCEPT !.source = NoTask] ELSE task[u]]

\* ... and deletes it by its identifier, with the rest of update_task_scoped.
FinishReopen ==
    LET t == draft[tx.editor].task
        gone == {tx.next} \cap Tasks
        row == UpdatedRow(task[t], tx.request, "none")
    IN
    /\ tx.kind = "reopen"
    /\ task' = [Without(gone) EXCEPT ![t] = row]
    /\ copy' = [u \in Tasks |-> IF u \in gone THEN Abandoned(copy[u]) ELSE Remapped(t, row)[u]]
    /\ reopened' = reopened \cup gone
    /\ draft' = [draft EXCEPT ![tx.editor] = NoDraft]
    /\ tx' = NoTx
    /\ UNCHANGED <<projects, receipt, born, imported, edits>>

\* The connection is lost between the two.
AbortReopen ==
    /\ tx.kind = "reopen"
    /\ tx' = NoTx
    /\ UNCHANGED <<task, projects, receipt, draft, copy, born, imported, reopened, edits>>

---------------------------------------------------------------------------
(* Deleting *)

Deletable(c) ==
    LET t == draft[c].task IN
    /\ t \in Live /\ LockFree
    /\ ~HasSubtasks(t)
    /\ task[t].ver = draft[c].row.ver

DeleteTask(c) ==
    LET t == draft[c].task IN
    /\ Counted /\ Deletable(c)
    /\ task' = Without({t})
    /\ copy' = [copy EXCEPT ![t] = Removed(@)]
    /\ draft' = [draft EXCEPT ![c] = NoDraft]
    /\ UNCHANGED <<projects, receipt, tx, born, imported, reopened>>

\* delete_task_with_undo: the receipt holds the row and the rows it depends on,
\* its successors as they are once detached.  A job that is posting the block holds the
\* synchronization lock; a block that it left without mapping is refused.
DeleteWithUndo(c) ==
    LET t == draft[c].task
        deps == NextOf(t) \cup ({task[t].parent, task[t].source} \cap Tasks)
    IN
    /\ Counted /\ Deletable(c) /\ copy[t] # "posting"
    /\ task' = Without({t})
    /\ receipt' = [receipt EXCEPT ![t] =
        [row |-> task[t], next |-> NextOf(t),
         seen |-> [u \in Tasks |-> IF u \in deps THEN Without({t})[u] ELSE NoRow],
         pver |-> [p \in Projects |->
                    IF p \in {task[t].project, task[t].base.project} THEN projects[p] ELSE 0],
         mapped |-> copy[t] = "mapped"]]
    /\ copy' = [copy EXCEPT ![t] = Removed(@)]
    /\ draft' = [draft EXCEPT ![c] = NoDraft]
    /\ UNCHANGED <<projects, tx, born, imported, reopened>>

\* Fault for OneSuccessor: the tasks a receipt names are not compared.
ProjectsAsDeleted(r) == \A p \in Projects : r.pver[p] > 0 => projects[p] = r.pver[p]

\* Every row the receipt guards is as it was.
AsDeleted(r) ==
    /\ \A p \in Projects : r.pver[p] > 0 => projects[p] = r.pver[p]
    /\ \A u \in Tasks : r.seen[u].ver > 0 => task[u] = r.seen[u]

\* undo_task_delete.  A receipt that has expired is one nobody uses any more.
UndoDelete(t) ==
    LET r == receipt[t] IN
    /\ r.row.ver > 0 /\ LockFree /\ AsDeleted(r)
    /\ task' = [u \in Tasks |->
        IF u = t THEN [r.row EXCEPT !.ver = @ + 1]
        ELSE IF u \in r.next THEN [task[u] EXCEPT !.source = t, !.ver = @ + 1] ELSE task[u]]
    /\ copy' = IF r.mapped THEN [copy EXCEPT ![t] = "mapped"] ELSE copy
    /\ receipt' = [receipt EXCEPT ![t] = NoReceipt]
    /\ UNCHANGED <<projects, draft, tx, born, imported, reopened, edits>>

\* Fault for NoLostUpdate: the trigger of migration 0024 is missing.
UnassignedUncounted(row, p) ==
    IF row.base.project = p THEN [row EXCEPT !.base.project = NoProject] ELSE row

\* Defaults that name a deleted project lose it, and the version counts up.
Unassigned(row, p) ==
    IF row.base.project = p THEN [row EXCEPT !.base.project = NoProject, !.ver = @ + 1] ELSE row

\* delete_project, with ON DELETE CASCADE of its tasks.
DeleteProject(p) ==
    LET gone == {t \in Tasks : task[t].project = p} IN
    /\ projects[p] > 0 /\ LockFree /\ Counted
    /\ projects' = [projects EXCEPT ![p] = 0]
    /\ task' = [t \in Tasks |-> Unassigned(Without(gone)[t], p)]
    /\ copy' = [t \in Tasks |-> IF t \in gone THEN Removed(copy[t]) ELSE copy[t]]
    /\ UNCHANGED <<receipt, draft, tx, born, imported, reopened>>

---------------------------------------------------------------------------
(* Writers that do not take the task graph lock *)

\* update_calendar_event and a job's update_canonical_event, of a task's block.
MoveBlock(t, b) ==
    /\ t \in Visible \ Locked /\ task[t].block # 0 /\ Counted
    /\ task' = [task EXCEPT ![t].block = b, ![t].ver = @ + 1]
    /\ UNCHANGED <<projects, receipt, draft, tx, copy, born, imported, reopened>>

\* delete_calendar_event and a job's delete_canonical_event.
RemoveBlock(t) ==
    /\ t \in Visible \ Locked /\ task[t].block # 0 /\ Counted
    /\ task' = [task EXCEPT ![t].block = 0, ![t].ver = @ + 1]
    /\ copy' = [copy EXCEPT ![t] = Removed(@)]
    /\ UNCHANGED <<projects, receipt, draft, tx, born, imported, reopened>>

\* complete_daily_review: the task was unfinished when the review read it and
\* may be completed by now.
Reschedule(t, d) ==
    /\ t \in Visible \ Locked /\ Counted
    /\ task' = [task EXCEPT ![t].due = d, ![t].ver = @ + 1]
    /\ UNCHANGED <<projects, receipt, draft, tx, copy, born, imported, reopened>>

\* push_calendar selects the events without mapping and posts them one after the other;
\* a block of the task that is left from before is not followed any more.
Post(t) ==
    /\ t \in Visible /\ task[t].block # 0 /\ copy[t] \in {"none", "left"} /\ Counted
    /\ copy' = [copy EXCEPT ![t] = "posting"]
    /\ UNCHANGED <<task, projects, receipt, draft, tx, born, imported, reopened>>

\* The mapping is inserted, after an interruption by the next job, whose POST is answered
\* with 409; or the job failed before the POST.
InsertMapping(t) ==
    /\ copy[t] = "posting"
    /\ \E status \in {"mapped", "none"} : copy' = [copy EXCEPT ![t] = status]
    /\ UNCHANGED <<task, projects, receipt, draft, tx, born, imported, reopened, edits>>

---------------------------------------------------------------------------
Scopes == {"none", "this", "future"}

Edit(c) ==
    /\ draft[c].task \in Live
    /\ \E r \in Requests(draft[c].row) :
        \/ \E scope \in Scopes : SaveTask(c, r, scope)
        \/ \E scope \in Scopes, s \in Fresh \cap Tasks : CompleteRepeating(c, s, r, scope)
        \/ BeginReopen(c, r)

Next ==
    \/ \E t \in Fresh \cap Tasks, r \in Requests(NoRow) : CreateTask(t, r) \/ ImportRow(t, r)
    \/ \E p \in Projects :
        CreateProject(p) \/ UpdateProject(p) \/ DeleteProject(p) \/ BeginImport(p)
    \/ CommitImport \/ AbortImport \/ FinishReopen \/ AbortReopen
    \/ \E c \in Editors : Edit(c) \/ DeleteTask(c) \/ DeleteWithUndo(c)
    \/ \E c \in Editors, t \in Tasks : OpenEditor(c, t)
    \/ \E t \in Tasks : UndoDelete(t) \/ RemoveBlock(t) \/ Post(t) \/ InsertMapping(t)
    \/ \E t \in Tasks, b \in Blocks : MoveBlock(t, b)
    \/ \E t \in Tasks, d \in Dues : Reschedule(t, d)

Spec == Init /\ [][Next]_vars

---------------------------------------------------------------------------
(* Properties *)

\* The parent of every task is a row of the same project.  No foreign key checks
\* this for tasks without a project (project_id is NULL), and reopening deletes a
\* successor without looking for subtasks: the checks of every other request have
\* to make it impossible that it has any.
ParentsExist ==
    \A t \in Live : task[t].parent # NoTask =>
        task[t].parent \in Live /\ task[task[t].parent].project = task[t].project

\* No task is its own ancestor, whatever sequence of moves validate_task_update_
\* relationships let through: in every set of tasks one has its parent outside.
NoCycle == \A S \in SUBSET Tasks : S # {} => \E t \in S : task[t].parent \notin S

\* A repeating task has no parent, and it has subtasks only when it came with them
\* from an import, which does not check its rows against each other as create_task
\* and update_task do.
RepeatingStandAlone ==
    \A t \in Live : task[t].recur # NoRule =>
        task[t].parent = NoTask /\ (HasSubtasks(t) => t \in imported)

\* Only a completed task has a successor, and one at most: completing a task never
\* runs into the unique index on recurrence_source_id, through reopening, deleting
\* and restoring on both sides.
OneSuccessor ==
    \A u, v \in Live : task[u].source # NoTask =>
        /\ task[u].source \in Live /\ task[task[u].source].done
        /\ u # v => task[v].source # task[u].source

\* A block that a job is posting, or that is mapped and not marked for deletion, belongs to
\* a scheduled task: deleting, unscheduling, restoring, completing and the cascade of a
\* project leave no mapping behind whose event is gone, wherever a push has arrived.  The
\* copies that the code does lose sight of are on record as "left".
BlocksKeepTheirTask ==
    \A t \in Followed : t \in Live /\ task[t].block # 0

\* What an editor shows of a row.
Shown(row) == [row EXCEPT !.source = NoTask]

\* An editor saves or deletes a task only as it was shown: every writer, the ones
\* without the task graph lock and the cascade of a project included, changes the
\* version when it changes anything else.
NoLostUpdate ==
    [][\A c \in Editors :
        LET t == draft[c].task IN
        (t \in Live /\ draft'[c] # draft[c] /\ task'[t] # task[t])
            => Shown(task[t]) = Shown(draft[c].row)]_vars

\* While a task is an exception of its series (it was saved as "this occurrence",
\* once or again), no edit, move, outside change or status update alters what its
\* successor will be, except that a deleted project is no longer its project.
OneOffKeepsSeries ==
    [][\A t \in Live : task'[t].base # NoBase =>
        LET old == SuccessorSource(task[t])
            new == SuccessorSource(task'[t])
        IN  \/ new = old
            \/ new = [old EXCEPT !.project = NoProject] /\ projects'[old.project] = 0]_vars

\* Reopening a completed task removes its successor only when nobody changed it.
OnlyUntouchedRemoved ==
    [][\A t \in Tasks : t \in reopened' \ reopened => task[t].ver = 1]_vars
=============================================================================
