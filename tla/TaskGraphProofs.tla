-------------------------- MODULE TaskGraphProofs --------------------------
(***************************************************************************)
(* The subtask forest is sound for any number of tasks, projects and       *)
(* editors: parents exist in the same project, no task is its own          *)
(* ancestor, and repeating tasks stand alone unless they were imported.    *)
(* Versions keep what editors, receipts and open transactions have read    *)
(* apart from what came later: no update is lost, a task has at most one   *)
(* successor, a series survives its exceptions, and no block is left in    *)
(* Google.                                                                 *)
(***************************************************************************)
EXTENDS TaskGraph, TLAPS

\* The forest is stated for any table T, so that a request that changes several
\* rows can be followed change by change; imp is the set of imported rows.
LiveIn(T) == {t \in Tasks : T[t].ver > 0}

Parents(T) ==
    \A t \in Tasks : T[t].parent # NoTask =>
        T[t].parent \in LiveIn(T) /\ T[T[t].parent].project = T[t].project

Acyclic(T) == \A S \in SUBSET Tasks : S # {} => \E t \in S : T[t].parent \notin S

StandAlone(T, imp) ==
    \A t \in Tasks : T[t].recur # NoRule =>
        T[t].parent = NoTask /\ \A u \in Tasks : T[u].parent = t => t \in imp

Sound(T, imp) ==
    /\ T \in [Tasks -> Rows]
    /\ \A t \in Tasks : T[t].ver = 0 => T[t] = NoRow
    /\ Parents(T) /\ Acyclic(T) /\ StandAlone(T, imp)

\* Some set with q and the parents of its members does not have t.
Outside(T, t, q) ==
    \E A \in SUBSET Tasks :
        /\ q \in A /\ t \notin A
        /\ \A y \in A : T[y].parent \in LiveIn(T) => T[y].parent \in A

\* What the checks of update_task_scoped establish of the new relations of t.
Fits(T, t, r) ==
    /\ t \in LiveIn(T)
    /\ r.recur # NoRule => r.parent = NoTask
    /\ r.parent # t
    /\ r.parent # NoTask =>
        /\ r.parent \in LiveIn(T)
        /\ T[r.parent].project = r.project
        /\ T[r.parent].recur = NoRule
        /\ Outside(T, t, r.parent)
    /\ \A u \in Tasks : T[u].parent = t => r.recur = NoRule /\ r.project = T[t].project

\* Identifiers are used once: what has a row or a receipt is born, and never both.
Known ==
    /\ Live \subseteq born /\ imported \subseteq born
    /\ \A t \in Tasks : receipt[t].row.ver > 0 => t \in born /\ t \notin Live

\* Defaults always have a repeat rule; a successor nobody changed repeats.
Steady(t, row, imp) ==
    /\ row.base # NoBase => row.base.recur # NoRule
    /\ row.source # t
    /\ row.ver = 1 /\ row.source # NoTask => row.recur # NoRule /\ t \notin imp

Repeats == \A t \in Tasks : Steady(t, task[t], imported)

\* What the row of a receipt relies on was true when the receipt was written.
Restorable(t, r, imp) ==
    /\ r.row.base # NoBase => r.row.base.recur # NoRule
    /\ r.row.source # t
    /\ r.row.recur # NoRule => r.row.parent = NoTask
    /\ r.row.parent # NoTask =>
        /\ r.row.parent # t
        /\ r.seen[r.row.parent].ver > 0
        /\ r.seen[r.row.parent].project = r.row.project
        /\ r.seen[r.row.parent].recur # NoRule => r.row.parent \in imp
    /\ \A u \in r.next : u # t /\ r.seen[u].ver > 0

ReceiptInv == \A t \in Tasks : receipt[t].row.ver > 0 => Restorable(t, receipt[t], imported)

\* The rows of an open import refer to each other and nothing else to them.
ImportInv ==
    /\ tx.kind # "import" => tx.rows = {}
    /\ tx.kind = "import" => tx.project \in Projects
    /\ \A u \in tx.rows : u \in Live /\ u \in imported /\ task[u].project = tx.project
    /\ \A u \in Tasks : task[u].parent \in tx.rows => u \in tx.rows

\* What a reopening found before it read the successor still holds at its DELETE.
ReopenInv ==
    tx.kind = "reopen" =>
        /\ tx.editor \in Editors
        /\ Fits(task, draft[tx.editor].task, tx.request)
        /\ tx.next # NoTask =>
            /\ tx.next \in Live /\ tx.next # draft[tx.editor].task
            /\ task[tx.next].recur # NoRule /\ tx.next \notin imported

GraphInv == TypeOK /\ Sound(task, imported) /\ Known /\ Repeats /\ ReceiptInv /\ ImportInv /\ ReopenInv

---------------------------------------------------------------------------
(* Types *)

\* The rows, receipts, drafts and transactions that stand for nothing are typed.
LEMMA EmptyTyped ==
    /\ NoBase \in Bases /\ NoRow \in Rows /\ NoReceipt \in Receipts
    /\ NoDraft \in [task : Tasks \cup {NoTask}, row : Rows] /\ NoTx \in Transactions
<1>1. 0 \in Days
  BY GraphAssumption DEF Days
<1>2. NoBase \in Bases
  BY <1>1 DEF NoBase, Bases
<1>3. NoRow \in Rows
  BY <1>1, <1>2 DEF NoRow, Rows
<1>4. NoReceipt \in Receipts
  BY <1>3 DEF NoReceipt, Receipts
<1>5. NoTx \in Transactions
  BY <1>3 DEF NoTx, Transactions
<1>6. QED
  BY <1>2, <1>3, <1>4, <1>5 DEF NoDraft

\* What a form can hold is a row (CreateTaskRequest, UpdateTaskRequest).
LEMMA RequestTyped ==
  ASSUME NEW row \in Rows, NEW r \in Requests(row)
  PROVE  r \in Rows
<1>1. Dues \cup {0} \subseteq Days /\ Blocks \cup {0} \subseteq Nat
  BY GraphAssumption DEF Days
<1>2. PICK x \in UNION {Forms(row, aspect) : aspect \in Aspects} :
        r = [row EXCEPT !.done = x.done, !.recur = x.recur, !.due = x.due, !.block = x.block,
                        !.project = x.project, !.parent = x.parent]
  BY Zenon DEF Requests
<1>3. PICK aspect \in Aspects : x \in Forms(row, aspect)
  BY <1>2, Zenon
<1>4. /\ x.recur \in Entered("recur", aspect, Rules \cup {NoRule}, row.recur)
      /\ x.due \in Entered("due", aspect, Dues \cup {0}, row.due)
      /\ x.block \in Entered("block", aspect, Blocks \cup {0}, row.block)
      /\ x.project \in Entered("project", aspect, Projects \cup {NoProject}, row.project)
      /\ x.parent \in Entered("parent", aspect, Tasks \cup {NoTask}, row.parent)
      /\ x.done \in Entered("done", aspect, BOOLEAN, row.done)
  BY <1>3 DEF Forms
<1>5. /\ x.recur \in Rules \cup {NoRule} /\ x.due \in Days /\ x.block \in Nat
      /\ x.project \in Projects \cup {NoProject} /\ x.parent \in Tasks \cup {NoTask}
  BY <1>1, <1>4 DEF Entered, Rows
<1>6. x.done \in BOOLEAN
  <2>1. row.done \in BOOLEAN
    BY DEF Rows
  <2>2. QED
    BY <1>4, <2>1 DEF Entered
<1>7. \A k \in Rules \cup {NoRule}, e \in Days, b \in Nat, p \in Projects \cup {NoProject},
         q \in Tasks \cup {NoTask} :
        /\ [row EXCEPT !.done = TRUE, !.recur = k, !.due = e, !.block = b, !.project = p, !.parent = q] \in Rows
        /\ [row EXCEPT !.done = FALSE, !.recur = k, !.due = e, !.block = b, !.project = p, !.parent = q] \in Rows
  <2>1. [row EXCEPT !.done = TRUE] \in Rows /\ [row EXCEPT !.done = FALSE] \in Rows
    BY DEF Rows
  <2>2. ASSUME NEW w \in Rows, NEW k \in Rules \cup {NoRule}, NEW e \in Days, NEW b \in Nat,
               NEW p \in Projects \cup {NoProject}, NEW q \in Tasks \cup {NoTask}
        PROVE  [w EXCEPT !.recur = k, !.due = e, !.block = b, !.project = p, !.parent = q] \in Rows
    BY DEF Rows
  <2>3. QED
    BY <2>1, <2>2, Zenon
<1>8. CASE x.done = TRUE
  <2>1. r = [row EXCEPT !.done = TRUE, !.recur = x.recur, !.due = x.due, !.block = x.block,
                        !.project = x.project, !.parent = x.parent]
    BY <1>2, <1>8, Zenon
  <2>2. QED
    BY <1>5, <1>7, <2>1, Zenon
<1>9. CASE x.done = FALSE
  <2>1. r = [row EXCEPT !.done = FALSE, !.recur = x.recur, !.due = x.due, !.block = x.block,
                        !.project = x.project, !.parent = x.parent]
    BY <1>2, <1>9, Zenon
  <2>2. QED
    BY <1>5, <1>7, <2>1, Zenon
<1>10. QED
  BY <1>6, <1>8, <1>9

\* Counting up the version keeps a row typed, with another source or block.
LEMMA CountedTyped ==
  ASSUME NEW row \in Rows
  PROVE  /\ [row EXCEPT !.ver = @ + 1] \in Rows
         /\ \A t \in Tasks : [row EXCEPT !.source = t, !.ver = @ + 1] \in Rows
         /\ \A b \in Nat : [row EXCEPT !.block = b, !.ver = @ + 1] \in Rows
<1>1. row.ver + 1 \in Nat
  BY DEF Rows
<1>2. \A v \in Nat : [row EXCEPT !.ver = v] \in Rows
  BY DEF Rows
<1>3. \A v \in Nat, t \in Tasks : [row EXCEPT !.source = t, !.ver = v] \in Rows
  BY DEF Rows
<1>4. \A v \in Nat, b \in Nat : [row EXCEPT !.block = b, !.ver = v] \in Rows
  BY DEF Rows
<1>5. QED
  BY <1>1, <1>2, <1>3, <1>4

\* A new row, whatever the form says of its version, source and defaults.
LEMMA NewRowTyped ==
  ASSUME NEW r \in Rows
  PROVE  NewRow(r) \in Rows
BY EmptyTyped DEF NewRow, Rows

\* The UPDATE of update_task_scoped leaves a typed row.
LEMMA UpdatedTyped ==
  ASSUME NEW row \in Rows, NEW r \in Rows, NEW scope \in Scopes
  PROVE  UpdatedRow(row, r, scope) \in Rows
<1>1. Defaults(row) \in Bases
  BY DEF Defaults, Rows, Bases
<1>2. row.base \in Bases
  BY DEF Rows
<1>3. PreparedBase(row, r, scope) \in Bases
  BY <1>1, <1>2, EmptyTyped DEF PreparedBase, Scopes
<1>4. row.ver + 1 \in Nat /\ row.source \in Tasks \cup {NoTask}
  BY DEF Rows
<1>5. \A v \in Nat, s \in Tasks \cup {NoTask}, b \in Bases :
        [r EXCEPT !.ver = v, !.source = s, !.base = b] \in Rows
  BY DEF Rows
<1>6. QED
  BY <1>3, <1>4, <1>5 DEF UpdatedRow

\* The successor of a typed row is typed when its date is in range.
LEMMA SuccessorTyped ==
  ASSUME NEW t \in Tasks, NEW row \in Rows, row.recur # NoRule,
         row.base # NoBase => row.base.recur # NoRule, InRange(SuccessorSource(row))
  PROVE  Successor(t, row) \in Rows
<1> DEFINE s == SuccessorSource(row)
<1>1. s \in Bases
  BY DEF SuccessorSource, Defaults, Rows, Bases
<1>2. s.recur \in Rules
  BY DEF SuccessorSource, Defaults, Rows, Bases
<1>3. Period[s.recur] \in Nat
  BY <1>2, GraphAssumption
<1>4. NextDue(s) \in Days
  BY <1>1, <1>3, GraphAssumption DEF NextDue, InRange, Days, Bases
<1>5. (IF s.block = 0 THEN 0 ELSE s.block + Period[s.recur]) \in Nat
  BY <1>1, <1>3 DEF Bases
<1>6. s.project \in Projects \cup {NoProject}
  BY <1>1 DEF Bases
<1> HIDE DEF s
<1>7. [NoRow EXCEPT !.ver = 1, !.project = s.project, !.recur = s.recur, !.due = NextDue(s),
            !.block = IF s.block = 0 THEN 0 ELSE s.block + Period[s.recur], !.source = t] \in Rows
  BY <1>2, <1>4, <1>5, <1>6, EmptyTyped DEF Rows
<1>8. QED
  BY <1>7 DEF Successor, s

\* Deleting rows leaves a typed table.
LEMMA WithoutTyped ==
  ASSUME TypeOK, NEW gone
  PROVE  Without(gone) \in [Tasks -> Rows]
<1>1. SUFFICES ASSUME NEW u \in Tasks PROVE Without(gone)[u] \in Rows
  BY DEF Without
<1>2. task[u] \in Rows
  BY DEF TypeOK
<1>3. [task[u] EXCEPT !.source = NoTask] \in Rows
  BY <1>2 DEF Rows
<1>4. QED
  BY <1>2, <1>3, EmptyTyped DEF Without

\* What a removal leaves of a copy is a copy's status.
LEMMA CopiesTyped ==
  ASSUME TypeOK
  PROVE  /\ \A s \in Copies : Removed(s) \in Copies /\ Abandoned(s) \in Copies
         /\ \A t \in Tasks : [copy EXCEPT ![t] = Removed(@)] \in [Tasks -> Copies]
         /\ \A t, row : Remapped(t, row) \in [Tasks -> Copies]
<1>1. \A s \in Copies : Removed(s) \in Copies /\ Abandoned(s) \in Copies
  BY DEF Copies, Removed, Abandoned
<1>2. copy \in [Tasks -> Copies]
  BY DEF TypeOK
<1> QED BY <1>1, <1>2 DEF Remapped

\* Every step keeps the types; in particular no deadline passes the last date.
LEMMA TypeStep ==
  ASSUME TypeOK, Repeats, ReopenInv, [Next]_vars
  PROVE  TypeOK'
<1>0. /\ task \in [Tasks -> Rows]
      /\ projects \in [Projects -> Nat]
      /\ receipt \in [Tasks -> Receipts]
      /\ draft \in [Editors -> [task : Tasks \cup {NoTask}, row : Rows]]
      /\ tx \in Transactions
      /\ copy \in [Tasks -> Copies] /\ born \subseteq Tasks \cup Projects
      /\ imported \subseteq Tasks /\ reopened \subseteq Tasks
      /\ edits \in 0..MaxEdits /\ MaxEdits \in Nat
  BY GraphAssumption DEF TypeOK
<1>count. Counted => edits' \in 0..MaxEdits
  BY <1>0 DEF Counted
<1>form. \A r \in Requests(NoRow) : r \in Rows
  BY RequestTyped, EmptyTyped
<1>1. ASSUME NEW t \in Tasks, NEW r \in Requests(NoRow), CreateTask(t, r)
      PROVE  TypeOK'
  <2>1. task' \in [Tasks -> Rows]
    BY <1>1, <1>0, <1>form, NewRowTyped DEF CreateTask
  <2>2. QED
    BY <1>1, <2>1, <1>0, <1>count DEF CreateTask, TypeOK
<1>2. ASSUME NEW t \in Tasks, NEW r \in Requests(NoRow), ImportRow(t, r)
      PROVE  TypeOK'
  <2>1. NewRow(r) \in Rows
    BY <1>form, NewRowTyped
  <2>2. tx.project \in Projects \cup {NoProject} /\ tx.rows \subseteq Tasks
    BY <1>0 DEF Transactions
  <2>3. [NewRow(r) EXCEPT !.project = tx.project] \in Rows
    BY <2>1, <2>2 DEF Rows
  <2>4. task' \in [Tasks -> Rows]
    BY <1>2, <1>0, <2>3 DEF ImportRow
  <2>5. tx' \in Transactions
    BY <1>2, <1>0, <2>2 DEF ImportRow, Transactions
  <2>6. QED
    BY <1>2, <2>4, <2>5, <1>0, <1>count DEF ImportRow, TypeOK
<1>3. ASSUME NEW p \in Projects, CreateProject(p) \/ UpdateProject(p)
      PROVE  TypeOK'
  BY <1>3, <1>0, <1>count DEF CreateProject, UpdateProject, TypeOK
<1>4. ASSUME NEW p \in Projects, BeginImport(p)
      PROVE  TypeOK'
  <2>1. tx' \in Transactions
    BY <1>4, EmptyTyped DEF BeginImport, Transactions
  <2>2. QED
    BY <1>4, <2>1, <1>0 DEF BeginImport, TypeOK
<1>5. ASSUME NEW p \in Projects, DeleteProject(p)
      PROVE  TypeOK'
  <2> DEFINE gone == {t \in Tasks : task[t].project = p}
  <2>1. \A row \in Rows : Unassigned(row, p) \in Rows
    <3>1. SUFFICES ASSUME NEW row \in Rows PROVE Unassigned(row, p) \in Rows
      OBVIOUS
    <3>2. [row.base EXCEPT !.project = NoProject] \in Bases
      BY DEF Rows, Bases
    <3>3. row.ver + 1 \in Nat
      BY DEF Rows
    <3>4. \A b \in Bases, v \in Nat : [row EXCEPT !.base = b, !.ver = v] \in Rows
      BY DEF Rows
    <3>5. [row EXCEPT !.base.project = NoProject, !.ver = @ + 1]
            = [row EXCEPT !.base = [row.base EXCEPT !.project = NoProject], !.ver = row.ver + 1]
      BY DEF Rows
    <3>6. [row EXCEPT !.base.project = NoProject, !.ver = @ + 1] \in Rows
      BY <3>2, <3>3, <3>4, <3>5
    <3>7. QED
      BY <3>6 DEF Unassigned
  <2>2. task' \in [Tasks -> Rows]
    BY <1>5, <2>1, WithoutTyped DEF DeleteProject
  <2>3. copy' \in [Tasks -> Copies]
    BY <1>5, <1>0, CopiesTyped DEF DeleteProject
  <2>4. QED
    BY <1>5, <2>2, <2>3, <1>0, <1>count DEF DeleteProject, TypeOK
<1>6. CASE CommitImport \/ AbortReopen
  BY <1>6, <1>0, EmptyTyped DEF CommitImport, AbortReopen, TypeOK
<1>7. CASE AbortImport
  <2>1. task' \in [Tasks -> Rows]
    BY <1>7, <1>0, EmptyTyped DEF AbortImport
  <2>2. QED
    BY <1>7, <2>1, <1>0, EmptyTyped DEF AbortImport, TypeOK
<1>8. CASE FinishReopen
  <2> DEFINE t == draft[tx.editor].task
             gone == {tx.next} \cap Tasks
             row == UpdatedRow(task[t], tx.request, "none")
  <2>1. t \in Tasks /\ tx.editor \in Editors
    BY <1>8 DEF FinishReopen, ReopenInv, Fits, LiveIn
  <2>2. tx.request \in Rows
    BY <1>0 DEF Transactions
  <2>3. row \in Rows
    BY <2>1, <2>2, <1>0, UpdatedTyped DEF Scopes
  <2>4. Without(gone) \in [Tasks -> Rows]
    BY WithoutTyped
  <2>5. task' = [Without(gone) EXCEPT ![t] = row]
    BY <1>8 DEF FinishReopen
  <2>6. task' \in [Tasks -> Rows]
    BY <2>3, <2>4, <2>5
  <2>7. QED
    <3>1. copy' \in [Tasks -> Copies]
      BY <1>8, <1>0, CopiesTyped DEF FinishReopen
    <3> QED BY <1>8, <2>1, <2>6, <3>1, <1>0, EmptyTyped DEF FinishReopen, TypeOK
<1>9. ASSUME NEW c \in Editors, NEW r \in Requests(draft[c].row), NEW scope \in Scopes,
             SaveTask(c, r, scope)
      PROVE  TypeOK'
  <2> DEFINE t == draft[c].task
             row == UpdatedRow(task[t], r, scope)
  <2>1. t \in Tasks
    BY <1>9 DEF SaveTask, Admitted, Live
  <2>2. r \in Rows
    BY <1>0, RequestTyped
  <2>3. row \in Rows
    BY <2>1, <2>2, <1>0, UpdatedTyped
  <2>4. task' = [task EXCEPT ![t] = row]
    BY <1>9 DEF SaveTask
  <2>5. task' \in [Tasks -> Rows]
    BY <2>3, <2>4, <1>0
  <2>6. QED
    BY <1>9, <2>5, <1>0, <1>count, EmptyTyped, CopiesTyped DEF SaveTask, TypeOK
<1>10. ASSUME NEW c \in Editors, NEW s \in Tasks, NEW r \in Requests(draft[c].row),
              NEW scope \in Scopes, CompleteRepeating(c, s, r, scope)
       PROVE  TypeOK'
  <2> DEFINE t == draft[c].task
             row == UpdatedRow(task[t], r, scope)
  <2>1. t \in Tasks
    BY <1>10 DEF CompleteRepeating, Admitted, Live
  <2>2. r \in Rows
    BY <1>0, RequestTyped
  <2>3. row \in Rows
    BY <2>1, <2>2, <1>0, UpdatedTyped
  <2>4. row.recur # NoRule
    BY <1>10, <2>2 DEF CompleteRepeating, UpdatedRow, Rows
  <2>5. row.base # NoBase => row.base.recur # NoRule
    BY <1>10, <2>1, <2>2, <1>0 DEF CompleteRepeating, Admitted, ScopeAllowed, UpdatedRow, PreparedBase,
        Defaults, Repeats, Steady, Rows, Scopes
  <2>6. Successor(t, row) \in Rows
    BY <1>10, <2>1, <2>3, <2>4, <2>5, SuccessorTyped DEF CompleteRepeating
  <2>7. task' = [task EXCEPT ![t] = row, ![s] = Successor(t, row)]
    BY <1>10 DEF CompleteRepeating
  <2>8. task' \in [Tasks -> Rows]
    BY <2>3, <2>6, <2>7, <1>0
  <2>9. QED
    BY <1>10, <2>8, <1>0, <1>count, EmptyTyped, CopiesTyped DEF CompleteRepeating, TypeOK
<1>11. ASSUME NEW c \in Editors, NEW r \in Requests(draft[c].row), BeginReopen(c, r)
       PROVE  TypeOK'
  <2>1. r \in Rows
    BY <1>0, RequestTyped
  <2>2. PICK u \in NextOf(draft[c].task) \cup {NoTask} :
          tx' = [NoTx EXCEPT !.kind = "reopen", !.editor = c, !.request = r, !.next = u]
    BY <1>11 DEF BeginReopen
  <2>3. tx' \in Transactions
    BY <2>1, <2>2, EmptyTyped DEF NextOf, Transactions
  <2>4. QED
    BY <1>11, <2>3, <1>0, <1>count DEF BeginReopen, TypeOK
<1>12. ASSUME NEW c \in Editors, DeleteTask(c)
       PROVE  TypeOK'
  BY <1>12, <1>0, <1>count, WithoutTyped, EmptyTyped, CopiesTyped DEF DeleteTask, Deletable, Live, TypeOK
<1>13. ASSUME NEW c \in Editors, DeleteWithUndo(c)
       PROVE  TypeOK'
  <2> DEFINE t == draft[c].task
             deps == NextOf(t) \cup ({task[t].parent, task[t].source} \cap Tasks)
             rec == [row |-> task[t], next |-> NextOf(t),
                     seen |-> [u \in Tasks |-> IF u \in deps THEN Without({t})[u] ELSE NoRow],
                     pver |-> [p \in Projects |->
                       IF p \in {task[t].project, task[t].base.project} THEN projects[p] ELSE 0],
                     mapped |-> copy[t] = "mapped"]
  <2>1. t \in Tasks
    BY <1>13 DEF DeleteWithUndo, Deletable, Live
  <2>2. task' = Without({t}) /\ Without({t}) \in [Tasks -> Rows]
    BY <1>13, WithoutTyped DEF DeleteWithUndo
  <2>3. rec \in Receipts
    <3>1. rec.row \in Rows
      BY <2>1, <1>0
    <3>2. rec.next \in SUBSET Tasks
      BY DEF NextOf
    <3>3. rec.seen \in [Tasks -> Rows]
      BY <2>2, EmptyTyped
    <3>4. rec.pver \in [Projects -> Nat]
      BY <1>0
    <3>5. rec.mapped \in BOOLEAN
      OBVIOUS
    <3>6. QED
      BY <3>1, <3>2, <3>3, <3>4, <3>5 DEF Receipts
  <2>4. receipt' = [receipt EXCEPT ![t] = rec]
    BY <1>13 DEF DeleteWithUndo
  <2> HIDE DEF rec
  <2>5. receipt' \in [Tasks -> Receipts]
    BY <2>3, <2>4, <1>0
  <2>6. QED
    BY <1>13, <2>1, <2>2, <2>5, <1>0, <1>count, EmptyTyped, CopiesTyped DEF DeleteWithUndo, TypeOK
<1>14. ASSUME NEW c \in Editors, NEW t \in Tasks, OpenEditor(c, t)
       PROVE  TypeOK'
  BY <1>14, <1>0 DEF OpenEditor, TypeOK
<1>15. ASSUME NEW t \in Tasks, UndoDelete(t)
       PROVE  TypeOK'
  <2>1. receipt[t].row \in Rows
    BY <1>0 DEF Receipts
  <2>2. [receipt[t].row EXCEPT !.ver = @ + 1] \in Rows
    BY <2>1, CountedTyped
  <2>3. \A u \in Tasks : [task[u] EXCEPT !.source = t, !.ver = @ + 1] \in Rows
    BY <1>0, CountedTyped
  <2>4. task' \in [Tasks -> Rows]
    BY <1>15, <2>2, <2>3, <1>0 DEF UndoDelete
  <2>5. QED
    BY <1>15, <2>4, <1>0, EmptyTyped DEF UndoDelete, Copies, TypeOK
<1>16. ASSUME NEW t \in Tasks, RemoveBlock(t) \/ Post(t) \/ InsertMapping(t)
       PROVE  TypeOK'
  <2>0. task[t] \in Rows
    BY <1>0
  <2>1. [task[t] EXCEPT !.block = 0, !.ver = @ + 1] \in Rows
    BY <2>0, CountedTyped
  <2>2. task' \in [Tasks -> Rows]
    BY <1>16, <2>1, <1>0 DEF RemoveBlock, Post, InsertMapping, Rows
  <2>3. QED
    BY <1>16, <2>2, <1>0, <1>count, CopiesTyped DEF RemoveBlock, Post, InsertMapping, Copies, TypeOK
<1>17. ASSUME NEW t \in Tasks, NEW b \in Blocks, MoveBlock(t, b)
       PROVE  TypeOK'
  <2>1. b \in Nat
    BY GraphAssumption
  <2>2. task' \in [Tasks -> Rows]
    BY <1>17, <2>1, <1>0 DEF MoveBlock, Rows
  <2>3. QED
    BY <1>17, <2>2, <1>0, <1>count DEF MoveBlock, TypeOK
<1>18. ASSUME NEW t \in Tasks, NEW d \in Dues, Reschedule(t, d)
       PROVE  TypeOK'
  <2>1. d \in Days
    BY GraphAssumption DEF Days
  <2>2. task' \in [Tasks -> Rows]
    BY <1>18, <2>1, <1>0 DEF Reschedule, Rows
  <2>3. QED
    BY <1>18, <2>2, <1>0, <1>count DEF Reschedule, TypeOK
<1>19. CASE UNCHANGED vars
  BY <1>19, <1>0 DEF vars, TypeOK
<1>20. QED
  BY <1>1, <1>2, <1>3, <1>4, <1>5, <1>6, <1>7, <1>8, <1>9, <1>10, <1>11, <1>12, <1>13, <1>14, <1>15,
     <1>16, <1>17, <1>18, <1>19 DEF Next, Edit
---------------------------------------------------------------------------
(* Tables *)

\* The relations of a row, as far as the forest goes, are the same afterwards.
SameRelations(a, b) ==
    a = b \/ (a.ver > 0 /\ b.ver > 0 /\ b.parent = a.parent /\ b.project = a.project /\ b.recur = a.recur)

\* Deleting rows without subtasks, and changing no relation, keeps the forest sound.
LEMMA RemoveSound ==
  ASSUME NEW T, NEW U \in [Tasks -> Rows], NEW imp, NEW gone,
         Sound(T, imp),
         \A u \in Tasks : IF u \in gone THEN U[u] = NoRow ELSE SameRelations(T[u], U[u]),
         \A u \in Tasks : u \notin gone => T[u].parent \notin gone
  PROVE  Sound(U, imp)
<1>1. /\ T \in [Tasks -> Rows]
      /\ \A t \in Tasks : T[t].ver = 0 => T[t] = NoRow
      /\ Parents(T) /\ Acyclic(T) /\ StandAlone(T, imp)
  BY DEF Sound
<1>2. NoRow.ver = 0 /\ NoRow.parent = NoTask /\ NoRow.recur = NoRule /\ NoTask \notin Tasks
  BY GraphAssumption DEF NoRow
<1>3. \A u \in Tasks : u \notin gone =>
        /\ U[u].parent = T[u].parent /\ U[u].project = T[u].project /\ U[u].recur = T[u].recur
        /\ U[u].ver > 0 <=> T[u].ver > 0
        /\ U[u].ver = 0 => U[u] = NoRow
  BY <1>1 DEF SameRelations
<1>4. \A u \in Tasks : u \in gone => U[u].parent = NoTask /\ U[u].recur = NoRule
  BY <1>2
<1>5. \A t \in Tasks : U[t].ver = 0 => U[t] = NoRow
  BY <1>3
<1>6. Parents(U)
  <2>1. SUFFICES ASSUME NEW t \in Tasks, U[t].parent # NoTask
                 PROVE  U[t].parent \in LiveIn(U) /\ U[U[t].parent].project = U[t].project
    BY DEF Parents
  <2>2. t \notin gone /\ U[t].parent = T[t].parent /\ U[t].project = T[t].project
    BY <2>1, <1>3, <1>4
  <2>3. T[t].parent \in LiveIn(T) /\ T[T[t].parent].project = T[t].project /\ T[t].parent \notin gone
    BY <2>1, <2>2, <1>1 DEF Parents
  <2>4. QED
    BY <2>2, <2>3, <1>3 DEF LiveIn
<1>7. Acyclic(U)
  <2>1. SUFFICES ASSUME NEW S \in SUBSET Tasks, S # {}
                 PROVE  \E t \in S : U[t].parent \notin S
    BY DEF Acyclic
  <2>2. PICK t \in S : T[t].parent \notin S
    BY <2>1, <1>1 DEF Acyclic
  <2>3. NoTask \notin S
    BY <1>2
  <2>4. QED
    BY <2>2, <2>3, <1>3, <1>4
<1>8. StandAlone(U, imp)
  BY <1>1, <1>2, <1>3, <1>4 DEF StandAlone
<1>9. QED
  BY <1>5, <1>6, <1>7, <1>8 DEF Sound

\* A new or restored row keeps the forest sound when its parent, if any, is a row of
\* its project that does not repeat or was imported.
LEMMA AddSound ==
  ASSUME NEW T, NEW imp, NEW imp2, NEW t \in Tasks, NEW row \in Rows,
         Sound(T, imp), imp \subseteq imp2,
         t \notin LiveIn(T), row.ver > 0,
         row.recur # NoRule => row.parent = NoTask,
         row.parent # NoTask =>
            /\ row.parent \in LiveIn(T) /\ T[row.parent].project = row.project
            /\ T[row.parent].recur # NoRule => row.parent \in imp2
  PROVE  Sound([T EXCEPT ![t] = row], imp2)
<1> DEFINE U == [T EXCEPT ![t] = row]
<1>1. /\ T \in [Tasks -> Rows]
      /\ \A x \in Tasks : T[x].ver = 0 => T[x] = NoRow
      /\ Parents(T) /\ Acyclic(T) /\ StandAlone(T, imp)
  BY DEF Sound
<1>2. NoTask \notin Tasks
  BY GraphAssumption
<1>3. U \in [Tasks -> Rows] /\ U[t] = row /\ \A x \in Tasks : x # t => U[x] = T[x]
  BY <1>1
<1>4. \A x \in Tasks : T[x].parent # t
  BY <1>1, <1>2 DEF Parents
<1>5. row.parent # t
  BY <1>2
<1> HIDE DEF U
<1>6. Parents(U)
  BY <1>1, <1>3, <1>4, <1>5 DEF Parents, LiveIn
<1>7. Acyclic(U)
  <2>1. SUFFICES ASSUME NEW S \in SUBSET Tasks, S # {}
                 PROVE  \E x \in S : U[x].parent \notin S
    BY DEF Acyclic
  <2>2. CASE S = {t}
    BY <2>2, <1>3, <1>5
  <2>3. CASE S # {t}
    <3>1. S \ {t} \in SUBSET Tasks /\ S \ {t} # {}
      BY <2>1, <2>3
    <3>2. PICK x \in S \ {t} : T[x].parent \notin S \ {t}
      BY <3>1, <1>1 DEF Acyclic
    <3>3. QED
      BY <3>2, <1>3, <1>4
  <2>4. QED
    BY <2>2, <2>3
<1>8. StandAlone(U, imp2)
  <2>1. SUFFICES ASSUME NEW x \in Tasks, U[x].recur # NoRule
                 PROVE  U[x].parent = NoTask /\ \A u \in Tasks : U[u].parent = x => x \in imp2
    BY DEF StandAlone
  <2>2. CASE x = t
    BY <2>1, <2>2, <1>3, <1>4, <1>5
  <2>3. CASE x # t
    BY <2>1, <2>3, <1>1, <1>2, <1>3 DEF StandAlone
  <2>4. QED
    BY <2>2, <2>3
<1>9. \A x \in Tasks : U[x].ver = 0 => U[x] = NoRow
  BY <1>1, <1>3
<1>10. QED
  BY <1>3, <1>6, <1>7, <1>8, <1>9 DEF Sound, U

\* An update that fits keeps the forest sound.  A cycle through the moved task would
\* have its other members among the ancestors of the new parent, where t is not.
LEMMA UpdateSound ==
  ASSUME NEW T, NEW imp, NEW t \in Tasks, NEW row \in Rows,
         Sound(T, imp), Fits(T, t, row), row.ver > 0
  PROVE  Sound([T EXCEPT ![t] = row], imp)
<1> DEFINE U == [T EXCEPT ![t] = row]
<1>1. /\ T \in [Tasks -> Rows]
      /\ \A x \in Tasks : T[x].ver = 0 => T[x] = NoRow
      /\ Parents(T) /\ Acyclic(T) /\ StandAlone(T, imp)
  BY DEF Sound
<1>2. NoTask \notin Tasks
  BY GraphAssumption
<1>3. U \in [Tasks -> Rows] /\ U[t] = row /\ \A x \in Tasks : x # t => U[x] = T[x]
  BY <1>1
<1>4. LiveIn(U) = LiveIn(T)
  BY <1>3 DEF LiveIn, Fits
<1> HIDE DEF U
<1>5. Parents(U)
  <2>1. SUFFICES ASSUME NEW x \in Tasks, U[x].parent # NoTask
                 PROVE  U[x].parent \in LiveIn(T) /\ U[U[x].parent].project = U[x].project
    BY <1>4 DEF Parents
  <2>2. CASE x = t
    BY <2>1, <2>2, <1>3 DEF Fits, LiveIn
  <2>3. CASE x # t /\ T[x].parent = t
    BY <2>1, <2>3, <1>1, <1>3 DEF Fits, Parents
  <2>4. CASE x # t /\ T[x].parent # t
    BY <2>1, <2>4, <1>1, <1>3 DEF LiveIn, Parents
  <2>5. QED
    BY <2>2, <2>3, <2>4
<1>6. Acyclic(U)
  <2>1. SUFFICES ASSUME NEW S \in SUBSET Tasks, S # {}, \A x \in S : U[x].parent \in S
                 PROVE  FALSE
    BY DEF Acyclic
  <2>2. t \in S
    BY <2>1, <1>1, <1>3 DEF Acyclic
  <2>3. row.parent \in S /\ row.parent # NoTask
    BY <2>1, <2>2, <1>2, <1>3
  <2>4. PICK A \in SUBSET Tasks :
          /\ row.parent \in A /\ t \notin A
          /\ \A y \in A : T[y].parent \in LiveIn(T) => T[y].parent \in A
    BY <2>3 DEF Fits, Outside
  <2>5. S \cap A \in SUBSET Tasks /\ S \cap A # {}
    BY <2>3, <2>4
  <2>6. \A y \in S \cap A : T[y].parent \in S \cap A
    <3>1. SUFFICES ASSUME NEW y \in S \cap A PROVE T[y].parent \in S \cap A
      OBVIOUS
    <3>2. y \in Tasks /\ y # t /\ T[y].parent \in S
      BY <2>1, <2>4, <1>3
    <3>3. T[y].parent # NoTask
      BY <3>2, <1>2
    <3>4. QED
      BY <3>2, <3>3, <2>4, <1>1 DEF Parents
  <2>7. QED
    BY <2>5, <2>6, <1>1 DEF Acyclic
<1>7. StandAlone(U, imp)
  <2>1. SUFFICES ASSUME NEW x \in Tasks, U[x].recur # NoRule
                 PROVE  U[x].parent = NoTask /\ \A u \in Tasks : U[u].parent = x => x \in imp
    BY DEF StandAlone
  <2>2. CASE x = t
    BY <2>1, <2>2, <1>2, <1>3 DEF Fits
  <2>3. CASE x # t
    BY <2>1, <2>3, <1>1, <1>2, <1>3 DEF Fits, StandAlone
  <2>4. QED
    BY <2>2, <2>3
<1>8. \A x \in Tasks : U[x].ver = 0 => U[x] = NoRow
  BY <1>1, <1>3
<1>9. QED
  BY <1>3, <1>5, <1>6, <1>7, <1>8 DEF Sound, U

\* What fits still fits after rows other than the task and its new parent are deleted.
LEMMA FitsKept ==
  ASSUME NEW T, NEW U, NEW gone, NEW t \in Tasks, NEW r \in Rows, Fits(T, t, r),
         \A u \in Tasks : IF u \in gone THEN U[u] = NoRow ELSE SameRelations(T[u], U[u]),
         t \notin gone, r.parent \notin gone
  PROVE  Fits(U, t, r)
<1>1. NoRow.ver = 0 /\ NoRow.parent = NoTask /\ NoTask \notin Tasks
  BY GraphAssumption DEF NoRow
<1>2. \A u \in Tasks : u \notin gone =>
        /\ U[u].parent = T[u].parent /\ U[u].project = T[u].project /\ U[u].recur = T[u].recur
        /\ U[u].ver > 0 <=> T[u].ver > 0
  BY DEF SameRelations
<1>3. \A u \in Tasks : u \in gone => U[u].parent = NoTask /\ ~(U[u].ver > 0)
  BY <1>1
<1>4. LiveIn(U) \subseteq LiveIn(T)
  BY <1>2, <1>3 DEF LiveIn
<1>5. t \in LiveIn(U) /\ (r.parent \in LiveIn(T) => r.parent \in LiveIn(U))
  BY <1>2 DEF LiveIn, Fits
<1>6. Outside(T, t, r.parent) => Outside(U, t, r.parent)
  <2>1. SUFFICES ASSUME NEW A \in SUBSET Tasks, r.parent \in A, t \notin A,
                        \A y \in A : T[y].parent \in LiveIn(T) => T[y].parent \in A
                 PROVE  \A y \in A : U[y].parent \in LiveIn(U) => U[y].parent \in A
    BY DEF Outside
  <2>2. QED
    BY <2>1, <1>1, <1>2, <1>3, <1>4 DEF LiveIn
<1>7. \A u \in Tasks : U[u].parent = t => T[u].parent = t
  BY <1>1, <1>2, <1>3
<1>8. r.parent # NoTask => r.parent \in Tasks
  BY DEF Rows
<1>9. QED
  BY <1>2, <1>5, <1>6, <1>7, <1>8 DEF Fits
---------------------------------------------------------------------------
(* Rows after a request *)

\* What the UPDATE of update_task_scoped takes from the form and from the row.
LEMMA UpdatedFields ==
  ASSUME NEW row \in Rows, NEW r \in Rows, NEW scope \in Scopes
  PROVE  LET n == UpdatedRow(row, r, scope) IN
         /\ n.parent = r.parent /\ n.project = r.project /\ n.recur = r.recur
         /\ n.source = row.source /\ n.ver = row.ver + 1 /\ n.base = PreparedBase(row, r, scope)
BY DEF UpdatedRow, Rows

\* What the INSERT of create_task and of an import takes from the form.
LEMMA NewRowFields ==
  ASSUME NEW r \in Rows
  PROVE  /\ NewRow(r).parent = r.parent /\ NewRow(r).project = r.project /\ NewRow(r).recur = r.recur
         /\ NewRow(r).source = NoTask /\ NewRow(r).ver = 1 /\ NewRow(r).base = NoBase
BY DEF NewRow, Rows

\* A prepared update keeps the series well defined: the row satisfies Steady again.
LEMMA UpdatedSteady ==
  ASSUME NEW t, NEW row \in Rows, NEW r \in Rows, NEW scope \in Scopes, NEW imp,
         Steady(t, row, imp), row.ver > 0, ScopeAllowed(row, r, scope)
  PROVE  Steady(t, UpdatedRow(row, r, scope), imp)
<1> DEFINE n == UpdatedRow(row, r, scope)
<1>1. n.source = row.source /\ n.ver = row.ver + 1 /\ n.base = PreparedBase(row, r, scope)
  BY UpdatedFields
<1>2. PreparedBase(row, r, scope) # NoBase => PreparedBase(row, r, scope).recur # NoRule
  BY DEF Steady, ScopeAllowed, PreparedBase, Defaults, Scopes
<1>3. row.ver \in Nat
  BY DEF Rows
<1> HIDE DEF n
<1>4. Steady(t, n, imp)
  BY <1>1, <1>2, <1>3 DEF Steady
<1>5. QED
  BY <1>4 DEF n

\* A DELETE leaves the other rows as they are, but for the source of a successor.
LEMMA WithoutRows ==
  ASSUME TypeOK, Sound(task, imported), NEW gone \in SUBSET Tasks, NEW u \in Tasks
  PROVE  IF u \in gone THEN Without(gone)[u] = NoRow
         ELSE /\ SameRelations(task[u], Without(gone)[u])
              /\ Without(gone)[u].ver = task[u].ver /\ Without(gone)[u].base = task[u].base
              /\ Without(gone)[u].source \in {task[u].source, NoTask}
<1>1. task[u] \in Rows
  BY DEF TypeOK
<1>2. LET n == [task[u] EXCEPT !.source = NoTask] IN
      /\ n.ver = task[u].ver /\ n.parent = task[u].parent /\ n.project = task[u].project
      /\ n.recur = task[u].recur /\ n.base = task[u].base /\ n.source = NoTask
  BY <1>1 DEF Rows
<1>3. task[u].source \in gone => task[u].ver > 0
  <2>1. NoRow.source \notin Tasks
    BY GraphAssumption DEF NoRow
  <2>2. task[u].ver \in Nat /\ (task[u].ver = 0 => task[u] = NoRow)
    BY <1>1 DEF Sound, Rows
  <2>3. QED
    BY <2>1, <2>2
<1>4. CASE u \in gone
  BY <1>4 DEF Without
<1>5. CASE u \notin gone /\ task[u].source \in gone
  <2>1. Without(gone)[u] = [task[u] EXCEPT !.source = NoTask]
    BY <1>5 DEF Without
  <2>2. QED
    BY <1>2, <1>3, <1>5, <2>1 DEF SameRelations
<1>6. CASE u \notin gone /\ task[u].source \notin gone
  BY <1>6 DEF Without, SameRelations
<1>7. QED
  BY <1>4, <1>5, <1>6

\* Deleting rows nobody has as parent leaves a sound table of steady rows.
LEMMA WithoutSound ==
  ASSUME TypeOK, Sound(task, imported), Repeats, NEW gone \in SUBSET Tasks,
         \A u \in Tasks : u \notin gone => task[u].parent \notin gone
  PROVE  /\ Sound(Without(gone), imported)
         /\ \A u \in Tasks : Steady(u, Without(gone)[u], imported)
<1>1. Without(gone) \in [Tasks -> Rows]
  BY WithoutTyped
<1>2. Sound(Without(gone), imported)
  BY <1>1, WithoutRows, RemoveSound
<1>3. \A u \in Tasks : Steady(u, Without(gone)[u], imported)
  <2>1. SUFFICES ASSUME NEW u \in Tasks PROVE Steady(u, Without(gone)[u], imported)
    OBVIOUS
  <2>2. Steady(u, NoRow, imported) /\ NoTask # u
    BY GraphAssumption DEF Steady, NoRow
  <2>3. Steady(u, task[u], imported)
    BY DEF Repeats
  <2>4. u \notin gone => /\ SameRelations(task[u], Without(gone)[u])
                         /\ Without(gone)[u].ver = task[u].ver /\ Without(gone)[u].base = task[u].base
                         /\ Without(gone)[u].source \in {task[u].source, NoTask}
    BY WithoutRows
  <2>5. u \notin gone => Without(gone)[u].recur = task[u].recur
    BY <2>4 DEF SameRelations
  <2>6. u \in gone => Without(gone)[u] = NoRow
    BY WithoutRows
  <2>7. QED
    BY <2>2, <2>3, <2>4, <2>5, <2>6 DEF Steady
<1>4. QED
  BY <1>2, <1>3

\* What update_task_scoped has checked before it writes.
LEMMA AdmittedFits ==
  ASSUME TypeOK, NEW c \in Editors, NEW r \in Rows, NEW scope, Admitted(c, r, scope)
  PROVE  draft[c].task \in Tasks /\ Fits(task, draft[c].task, r)
<1> DEFINE t == draft[c].task
<1>1. t \in LiveIn(task) /\ t \in Tasks /\ r.parent # t
  BY DEF Admitted, Live, LiveIn
<1>2. r.recur # NoRule => r.parent = NoTask
  BY DEF Admitted, ValidFields
<1>3. r.parent # NoTask => r.parent \in LiveIn(task) /\ task[r.parent].project = r.project
                           /\ task[r.parent].recur = NoRule
  BY DEF Admitted, ValidRelationships, Live, LiveIn
<1>4. \A u \in Tasks : task[u].parent = t => r.recur = NoRule /\ r.project = task[t].project
  BY DEF Admitted, ValidUpdateRelationships, HasSubtasks
<1>5. r.parent # NoTask => Outside(task, t, r.parent)
  <2>1. SUFFICES ASSUME r.parent # NoTask PROVE Outside(task, t, r.parent)
    OBVIOUS
  <2>2. t \notin ParentChain(r.parent)
    BY <2>1 DEF Admitted, ValidUpdateRelationships
  <2>3. QED
    BY <2>2, <1>1 DEF ParentChain, Outside, Live, LiveIn
<1>6. QED
  BY <1>1, <1>2, <1>3, <1>4, <1>5 DEF Fits

---------------------------------------------------------------------------
(* Steps *)

\* Nothing is under way after a step that ends with the lock free.
LEMMA IdleTx ==
  ASSUME tx' = NoTx
  PROVE  ImportInv' /\ ReopenInv'
BY DEF NoTx, ImportInv, ReopenInv

\* A row that a writer without the task graph lock may leave: nothing of its
\* relations or its series is changed, and it is not taken for untouched.
Quiet(a, b) ==
    a = b \/ (/\ a.ver > 0 /\ b.ver > 0 /\ b.ver # 1 /\ b.parent = a.parent /\ b.project = a.project
              /\ b.recur = a.recur /\ b.source = a.source /\ b.base = a.base)

QuietTable == \A u \in Tasks : Quiet(task[u], task'[u])

\* A quiet step leaves the same identifiers with rows.
LEMMA QuietLive ==
  ASSUME TypeOK, QuietTable
  PROVE  Live' = Live /\ LiveIn(task') = LiveIn(task)
BY DEF QuietTable, Quiet, Live, LiveIn

\* A step that is quiet for every row keeps what is said of rows and receipts.
LEMMA QuietRows ==
  ASSUME GraphInv, TypeOK', QuietTable, receipt' = receipt, imported' = imported, born \subseteq born'
  PROVE  Sound(task', imported') /\ Known' /\ Repeats' /\ ReceiptInv'
<1>1. Sound(task', imported')
  <2>1. task' \in [Tasks -> Rows] /\ Sound(task, imported)
    BY DEF TypeOK, GraphInv
  <2>2. \A u \in Tasks : SameRelations(task[u], task'[u])
    BY DEF QuietTable, Quiet, SameRelations
  <2>3. PICK gone \in SUBSET Tasks : gone = {}
    OBVIOUS
  <2>4. \A u \in Tasks : u \notin gone /\ task[u].parent \notin gone
    BY <2>3
  <2>5. QED
    BY <2>1, <2>2, <2>4, RemoveSound
<1>2. Known'
  BY QuietLive DEF GraphInv, Known
<1>3. Repeats'
  BY DEF GraphInv, Repeats, Steady, QuietTable, Quiet
<1>4. ReceiptInv'
  BY DEF GraphInv, ReceiptInv
<1>5. QED
  BY <1>1, <1>2, <1>3, <1>4

\* It also keeps what is said of the transaction under way.
LEMMA QuietTx ==
  ASSUME GraphInv, TypeOK', QuietTable, imported' = imported, tx' = tx,
         tx.kind = "reopen" => draft'[tx.editor] = draft[tx.editor]
  PROVE  ImportInv' /\ ReopenInv'
<1>1. \A u \in Tasks : task'[u].parent = task[u].parent /\ task'[u].project = task[u].project
                       /\ task'[u].recur = task[u].recur
  BY DEF QuietTable, Quiet
<1>2. Live' = Live
  BY QuietLive DEF GraphInv
<1>3. ImportInv'
  BY <1>1, <1>2 DEF GraphInv, ImportInv, Live
<1>4. ReopenInv'
  <2>1. SUFFICES ASSUME tx.kind = "reopen" PROVE ReopenInv'
    BY DEF ReopenInv
  <2> DEFINE t == draft[tx.editor].task
  <2>2. /\ tx.editor \in Editors /\ Fits(task, t, tx.request)
        /\ tx.next # NoTask => /\ tx.next \in Live /\ tx.next # t
                               /\ task[tx.next].recur # NoRule /\ tx.next \notin imported
    BY <2>1 DEF GraphInv, ReopenInv
  <2>3. t \in Tasks /\ tx.request \in Rows
    BY <2>2 DEF Fits, LiveIn, GraphInv, TypeOK, Transactions
  <2>4. \A u \in Tasks : SameRelations(task[u], task'[u])
    BY DEF QuietTable, Quiet, SameRelations
  <2>5. PICK gone \in SUBSET Tasks : gone = {}
    OBVIOUS
  <2>6. Fits(task', t, tx.request)
    <3>1. t \notin gone /\ tx.request.parent \notin gone
      BY <2>5
    <3>2. \A u \in Tasks : IF u \in gone THEN task'[u] = NoRow ELSE SameRelations(task[u], task'[u])
      BY <2>4, <2>5
    <3>3. QED
      BY <2>2, <2>3, <3>1, <3>2, FitsKept
  <2>7. tx.next \in Live => task'[tx.next].recur = task[tx.next].recur
    BY <1>1 DEF Live
  <2>8. QED
    BY <2>1, <2>2, <2>6, <2>7, <1>2 DEF ReopenInv
<1>5. QED
  BY <1>3, <1>4
\* Receipts stay restorable when more rows are imported.
LEMMA ReceiptsKept ==
  ASSUME GraphInv, receipt' = receipt, imported \subseteq imported'
  PROVE  ReceiptInv'
<1>1. \A t \in Tasks : \A r : Restorable(t, r, imported) => Restorable(t, r, imported')
  BY DEF Restorable
<1>2. QED
  BY <1>1 DEF GraphInv, ReceiptInv

\* Steps that change no relation: the writers without the lock, projects, reading.
LEMMA QuietStep ==
  ASSUME GraphInv, TypeOK', QuietTable, receipt' = receipt, imported' = imported, born \subseteq born',
         tx' = tx, tx.kind = "reopen" => draft'[tx.editor] = draft[tx.editor]
  PROVE  GraphInv'
BY QuietRows, QuietTx DEF GraphInv

\* Writers without the lock count the version up and keep relations and series.
LEMMA ContentStep ==
  ASSUME GraphInv, TypeOK', NEW t \in Tasks,
         \/ RemoveBlock(t) \/ Post(t) \/ InsertMapping(t)
         \/ \E b \in Blocks : MoveBlock(t, b)
         \/ \E d \in Dues : Reschedule(t, d)
  PROVE  GraphInv'
<1>1. task \in [Tasks -> Rows] /\ task[t] \in Rows
  BY DEF GraphInv, TypeOK
<1>2. task[t].ver \in Nat
  BY <1>1 DEF Rows
<1>3. QuietTable
  <2>1. CASE RemoveBlock(t)
    BY <2>1, <1>1, <1>2 DEF RemoveBlock, Visible, Live, QuietTable, Quiet, Rows
  <2>2. CASE Post(t) \/ InsertMapping(t)
    BY <2>2 DEF Post, InsertMapping, QuietTable, Quiet
  <2>3. ASSUME NEW b \in Blocks, MoveBlock(t, b) PROVE QuietTable
    <3>1. task' = [task EXCEPT ![t] = [task[t] EXCEPT !.block = b, !.ver = @ + 1]]
      BY <2>3, <1>1 DEF MoveBlock, Rows
    <3>2. task[t].ver > 0
      BY <2>3 DEF MoveBlock, Visible, Live
    <3>3. QED
      BY <3>1, <3>2, <1>1, <1>2 DEF QuietTable, Quiet, Rows
  <2>4. ASSUME NEW d \in Dues, Reschedule(t, d) PROVE QuietTable
    <3>1. task' = [task EXCEPT ![t] = [task[t] EXCEPT !.due = d, !.ver = @ + 1]]
      BY <2>4, <1>1 DEF Reschedule, Rows
    <3>2. task[t].ver > 0
      BY <2>4 DEF Reschedule, Visible, Live
    <3>3. QED
      BY <3>1, <3>2, <1>1, <1>2 DEF QuietTable, Quiet, Rows
  <2>5. QED
    BY <2>1, <2>2, <2>3, <2>4
<1>4. receipt' = receipt /\ imported' = imported /\ born' = born /\ tx' = tx /\ draft' = draft
  BY DEF RemoveBlock, Post, InsertMapping, MoveBlock, Reschedule
<1>5. QED
  BY <1>3, <1>4, QuietStep

\* Transactions that begin, and the ones that end without a change of rows.
LEMMA BeginStep ==
  ASSUME GraphInv, TypeOK',
         \/ CommitImport \/ AbortReopen
         \/ \E p \in Projects : BeginImport(p)
         \/ \E c \in Editors, r \in Rows : BeginReopen(c, r)
  PROVE  GraphInv'
<1>1. task' = task /\ receipt' = receipt /\ imported' = imported /\ born \subseteq born'
  BY DEF CommitImport, AbortReopen, BeginImport, BeginReopen
<1>2. Sound(task', imported') /\ Known' /\ Repeats' /\ ReceiptInv'
  BY <1>1, QuietRows DEF QuietTable, Quiet
<1>3. CASE CommitImport \/ AbortReopen
  <2>1. tx' = NoTx
    BY <1>3 DEF CommitImport, AbortReopen
  <2>2. QED
    BY <1>2, <2>1, IdleTx DEF GraphInv
<1>4. ASSUME NEW p \in Projects, BeginImport(p) PROVE GraphInv'
  <2>1. tx'.kind = "import" /\ tx'.project = p /\ tx'.rows = {}
    BY <1>4 DEF BeginImport, NoTx
  <2>2. ImportInv' /\ ReopenInv'
    BY <2>1 DEF ImportInv, ReopenInv
  <2>3. QED
    BY <1>2, <2>2 DEF GraphInv
<1>5. ASSUME NEW c \in Editors, NEW r \in Rows, BeginReopen(c, r) PROVE GraphInv'
  <2> DEFINE t == draft[c].task
  <2>1. t \in Tasks /\ Fits(task, t, r)
    BY <1>5, AdmittedFits DEF BeginReopen, GraphInv
  <2>2. PICK u \in NextOf(t) \cup {NoTask} :
          /\ u # NoTask => ~task[u].done /\ task[u].ver = 1
          /\ tx' = [NoTx EXCEPT !.kind = "reopen", !.editor = c, !.request = r, !.next = u]
    BY <1>5 DEF BeginReopen
  <2>3. tx'.kind = "reopen" /\ tx'.editor = c /\ tx'.request = r /\ tx'.next = u /\ tx'.rows = {}
    BY <2>2 DEF NoTx
  <2>4. u # NoTask => u \in Live /\ u # t /\ task[u].recur # NoRule /\ u \notin imported
    <3>1. SUFFICES ASSUME u # NoTask PROVE u \in Live /\ u # t /\ task[u].recur # NoRule /\ u \notin imported
      OBVIOUS
    <3>2. u \in Live /\ u \in Tasks /\ task[u].source = t
      BY <3>1 DEF NextOf, Live
    <3>3. task[t].done /\ t # NoTask
      BY <1>5, <2>1, GraphAssumption DEF BeginReopen
    <3>4. Steady(u, task[u], imported)
      BY <3>2 DEF GraphInv, Repeats
    <3>5. QED
      BY <2>2, <3>1, <3>2, <3>3, <3>4 DEF Steady
  <2>5. draft' = draft
    BY <1>5 DEF BeginReopen
  <2>6. ImportInv' /\ ReopenInv'
    <3>1. ImportInv'
      BY <2>3 DEF ImportInv
    <3>2. Live' = Live
      BY <1>1 DEF Live
    <3>3. ReopenInv'
      BY <1>1, <2>1, <2>3, <2>4, <2>5, <3>2 DEF ReopenInv
    <3>4. QED
      BY <3>1, <3>3
  <2>7. QED
    BY <1>2, <2>6 DEF GraphInv
<1>6. QED
  BY <1>3, <1>4, <1>5
\* What is known of an identifier that is still unused.
LEMMA FreshTask ==
  ASSUME GraphInv, NEW t \in Tasks, t \in Fresh
  PROVE  /\ t \notin Live /\ t \notin LiveIn(task) /\ t \notin born /\ t \notin imported
         /\ t # NoTask /\ ~(receipt[t].row.ver > 0)
BY GraphAssumption DEF GraphInv, Known, Fresh, Live, LiveIn

\* Only t gets a row, and nothing else is born or restored.
LEMMA KnownKept ==
  ASSUME GraphInv, NEW t \in Tasks, Live' \subseteq Live \cup {t}, born' = born \cup {t},
         imported' \subseteq imported \cup {t}, receipt' = receipt, t \in Live \/ t \in Fresh
  PROVE  Known'
BY FreshTask DEF GraphInv, Known

\* create_task keeps every relation.
LEMMA CreateStep ==
  ASSUME GraphInv, TypeOK', NEW t \in Tasks, NEW r \in Rows, CreateTask(t, r)
  PROVE  GraphInv'
<1> DEFINE row == NewRow(r)
<1>1. task \in [Tasks -> Rows] /\ row \in Rows
  BY NewRowTyped DEF GraphInv, TypeOK
<1>2. /\ row.parent = r.parent /\ row.project = r.project /\ row.recur = r.recur
      /\ row.source = NoTask /\ row.ver = 1 /\ row.base = NoBase
  BY NewRowFields
<1>3. t \in Fresh /\ task' = [task EXCEPT ![t] = row] /\ born' = born \cup {t}
      /\ imported' = imported /\ receipt' = receipt /\ tx' = NoTx
  BY DEF CreateTask, LockFree
<1>4. /\ r.recur # NoRule => r.parent = NoTask
      /\ r.parent # NoTask => r.parent \in LiveIn(task) /\ task[r.parent].project = r.project
                              /\ task[r.parent].recur = NoRule
  BY DEF CreateTask, ValidFields, ValidRelationships, Live, LiveIn
<1> HIDE DEF row
<1>5. t \notin LiveIn(task) /\ t # NoTask
  BY <1>3, FreshTask
<1>6. Sound(task, imported)
  BY DEF GraphInv
<1>7. Sound(task', imported')
  <2>1. /\ row.ver > 0 /\ imported \subseteq imported'
        /\ row.recur # NoRule => row.parent = NoTask
        /\ row.parent # NoTask => /\ row.parent \in LiveIn(task) /\ task[row.parent].project = row.project
                                  /\ task[row.parent].recur # NoRule => row.parent \in imported'
    BY <1>2, <1>3, <1>4
  <2>2. Sound([task EXCEPT ![t] = row], imported')
    BY <1>1, <1>5, <1>6, <2>1, AddSound
  <2>3. QED
    BY <1>3, <2>2
<1>8. Live' \subseteq Live \cup {t}
  BY <1>1, <1>3 DEF Live
<1>9. Known'
  BY <1>3, <1>8, KnownKept
<1>10. Repeats'
  BY <1>1, <1>2, <1>3, <1>5 DEF GraphInv, Repeats, Steady
<1>11. QED
  BY <1>3, <1>7, <1>9, <1>10, ReceiptsKept, IdleTx DEF GraphInv

\* A row of an import refers only to rows of the same import.
LEMMA ImportRowStep ==
  ASSUME GraphInv, TypeOK', NEW t \in Tasks, NEW r \in Rows, ImportRow(t, r)
  PROVE  GraphInv'
<1> DEFINE row == [NewRow(r) EXCEPT !.project = tx.project]
<1>1. task \in [Tasks -> Rows] /\ NewRow(r) \in Rows /\ tx.project \in Projects /\ tx.kind = "import"
      /\ tx \in Transactions
  BY NewRowTyped DEF GraphInv, TypeOK, ImportInv, ImportRow
<1>2. row \in Rows
  BY <1>1 DEF Rows
<1>3. /\ row.parent = r.parent /\ row.project = tx.project /\ row.recur = r.recur
      /\ row.source = NoTask /\ row.ver = 1 /\ row.base = NoBase
  <2>1. /\ row.project = tx.project /\ row.parent = NewRow(r).parent /\ row.recur = NewRow(r).recur
        /\ row.source = NewRow(r).source /\ row.ver = NewRow(r).ver /\ row.base = NewRow(r).base
    BY <1>1 DEF Rows
  <2>2. QED
    BY <2>1, NewRowFields
<1>4. t \in Fresh /\ task' = [task EXCEPT ![t] = row] /\ born' = born \cup {t}
      /\ imported' = imported \cup {t} /\ receipt' = receipt
  BY DEF ImportRow
<1>5. tx'.kind = "import" /\ tx'.project = tx.project /\ tx'.rows = tx.rows \cup {t}
  BY <1>1 DEF ImportRow, Transactions
<1>6. /\ r.recur # NoRule => r.parent = NoTask
      /\ r.parent \in tx.rows \cup {NoTask}
  BY DEF ImportRow, ValidFields
<1> HIDE DEF row
<1>7. /\ \A u \in tx.rows : u \in Live /\ u \in imported /\ task[u].project = tx.project
      /\ \A u \in Tasks : task[u].parent \in tx.rows => u \in tx.rows
      /\ Sound(task, imported)
  BY DEF GraphInv, ImportInv
<1>8. t \notin Live /\ t \notin LiveIn(task) /\ t # NoTask
  BY <1>4, FreshTask
<1>9. r.parent # NoTask => r.parent \in LiveIn(task) /\ task[r.parent].project = tx.project
                           /\ r.parent \in imported'
  BY <1>4, <1>6, <1>7 DEF Live, LiveIn
<1>10. Sound(task', imported')
  <2>1. /\ row.ver > 0 /\ imported \subseteq imported'
        /\ row.recur # NoRule => row.parent = NoTask
        /\ row.parent # NoTask => /\ row.parent \in LiveIn(task) /\ task[row.parent].project = row.project
                                  /\ task[row.parent].recur # NoRule => row.parent \in imported'
    BY <1>3, <1>4, <1>6, <1>9
  <2>2. Sound([task EXCEPT ![t] = row], imported')
    BY <1>2, <1>7, <1>8, <2>1, AddSound
  <2>3. QED
    BY <1>4, <2>2
<1>11. Live' = Live \cup {t}
  BY <1>1, <1>3, <1>4 DEF Live
<1>12. Known'
  BY <1>4, <1>11, KnownKept
<1>13. Repeats'
  <2>1. SUFFICES ASSUME NEW u \in Tasks PROVE Steady(u, task'[u], imported')
    BY DEF Repeats
  <2>2. CASE u = t
    BY <2>2, <1>1, <1>3, <1>4, <1>8 DEF Steady
  <2>3. CASE u # t
    BY <2>3, <1>1, <1>4 DEF GraphInv, Repeats, Steady
  <2>4. QED
    BY <2>2, <2>3
<1>14. ImportInv'
  <2>1. \A u \in Tasks : task[u].parent # t
    BY <1>7, <1>8 DEF Sound, Parents
  <2>2. \A u \in Tasks : u # t => task'[u] = task[u]
    BY <1>1, <1>4
  <2>3. task'[t] = row
    BY <1>1, <1>4
  <2>4. tx.rows \subseteq Tasks
    BY <1>1 DEF Transactions
  <2>5. \A u \in tx'.rows : u \in Live' /\ u \in imported' /\ task'[u].project = tx'.project
    BY <1>3, <1>4, <1>5, <1>7, <1>8, <1>11, <2>2, <2>3, <2>4
  <2>6. \A u \in Tasks : task'[u].parent \in tx'.rows => u \in tx'.rows
    BY <1>5, <1>7, <2>1, <2>2
  <2>7. QED
    BY <1>1, <1>5, <2>5, <2>6 DEF ImportInv
<1>15. ReopenInv'
  BY <1>5 DEF ReopenInv
<1>16. QED
  BY <1>4, <1>10, <1>12, <1>13, <1>14, <1>15, ReceiptsKept DEF GraphInv

\* Rolling an import back takes exactly its rows, which nothing else refers to.
LEMMA AbortImportStep ==
  ASSUME GraphInv, TypeOK', AbortImport
  PROVE  GraphInv'
<1>1. task' \in [Tasks -> Rows] /\ Sound(task, imported) /\ Repeats
  BY DEF GraphInv, TypeOK
<1>2. /\ \A u \in Tasks : IF u \in tx.rows THEN task'[u] = NoRow ELSE task'[u] = task[u]
      /\ receipt' = receipt /\ imported' = imported /\ born' = born /\ tx' = NoTx
  BY DEF AbortImport
<1>3. \A u \in Tasks : u \notin tx.rows => task[u].parent \notin tx.rows
  BY DEF GraphInv, ImportInv
<1>4. \A u \in Tasks : IF u \in tx.rows THEN task'[u] = NoRow ELSE SameRelations(task[u], task'[u])
  BY <1>2 DEF SameRelations
<1>5. Sound(task', imported')
  BY <1>1, <1>2, <1>3, <1>4, RemoveSound
<1>6. Known'
  <2>1. NoRow.ver = 0
    BY DEF NoRow
  <2>2. Live' \subseteq Live
    BY <1>2, <2>1 DEF Live
  <2>3. QED
    BY <1>2, <2>2 DEF GraphInv, Known
<1>7. Repeats'
  <2>1. \A u \in Tasks : Steady(u, NoRow, imported)
    BY GraphAssumption DEF Steady, NoRow
  <2>2. QED
    BY <1>1, <1>2, <2>1 DEF Repeats
<1>8. QED
  BY <1>2, <1>5, <1>6, <1>7, ReceiptsKept, IdleTx DEF GraphInv

\* An admitted update of one row: what SaveTask and CompleteRepeating share.
LEMMA AdmittedSound ==
  ASSUME GraphInv, NEW c \in Editors, NEW r \in Rows, NEW scope \in Scopes, Admitted(c, r, scope)
  PROVE  LET t == draft[c].task
             row == UpdatedRow(task[t], r, scope)
         IN  /\ t \in Tasks /\ t \in Live /\ row \in Rows /\ row.ver > 0 /\ row.recur = r.recur
             /\ Steady(t, row, imported)
             /\ Sound([task EXCEPT ![t] = row], imported)
<1> DEFINE t == draft[c].task
           row == UpdatedRow(task[t], r, scope)
<1>1. t \in Tasks /\ Fits(task, t, r)
  BY AdmittedFits DEF GraphInv
<1>2. task[t] \in Rows /\ task[t].ver > 0 /\ t \in Live
  BY <1>1 DEF GraphInv, TypeOK, Fits, LiveIn, Live
<1>3. task[t].ver \in Nat
  BY <1>2 DEF Rows
<1>4. row \in Rows
  BY <1>2, UpdatedTyped
<1>5. row.parent = r.parent /\ row.project = r.project /\ row.recur = r.recur /\ row.ver = task[t].ver + 1
  BY <1>2, UpdatedFields
<1>6. Steady(t, row, imported)
  <2>1. ScopeAllowed(task[t], r, scope)
    BY DEF Admitted
  <2>2. Steady(t, task[t], imported)
    BY <1>1 DEF GraphInv, Repeats
  <2>3. QED
    BY <1>2, <2>1, <2>2, UpdatedSteady
<1> HIDE DEF row
<1>7. Fits(task, t, row)
  BY <1>1, <1>5 DEF Fits
<1>8. Sound(task, imported)
  BY DEF GraphInv
<1>9. row.ver > 0
  BY <1>3, <1>5
<1>10. Sound([task EXCEPT ![t] = row], imported)
  BY <1>1, <1>4, <1>7, <1>8, <1>9, UpdateSound
<1>11. QED
  BY <1>1, <1>2, <1>4, <1>5, <1>6, <1>9, <1>10 DEF row

\* Saving a task keeps every relation.
LEMMA SaveStep ==
  ASSUME GraphInv, TypeOK', NEW c \in Editors, NEW r \in Rows, NEW scope \in Scopes,
         SaveTask(c, r, scope)
  PROVE  GraphInv'
<1> DEFINE t == draft[c].task
           row == UpdatedRow(task[t], r, scope)
<1>1. Admitted(c, r, scope) /\ task' = [task EXCEPT ![t] = row] /\ receipt' = receipt
      /\ imported' = imported /\ born' = born /\ tx' = NoTx
  BY DEF SaveTask, Admitted, LockFree
<1>2. /\ t \in Tasks /\ t \in Live /\ Steady(t, row, imported)
      /\ Sound([task EXCEPT ![t] = row], imported)
  BY <1>1, AdmittedSound
<1>3. task \in [Tasks -> Rows] /\ Live \subseteq born
  BY DEF GraphInv, TypeOK, Known
<1> HIDE DEF row
<1>4. Live' \subseteq Live \cup {t}
  BY <1>1, <1>3 DEF Live
<1>5. Known'
  BY <1>1, <1>2, <1>3, <1>4, KnownKept
<1>6. Repeats'
  BY <1>1, <1>2, <1>3 DEF GraphInv, Repeats
<1>7. QED
  BY <1>1, <1>2, <1>5, <1>6, ReceiptsKept, IdleTx DEF GraphInv

\* Completing a repeating task adds a successor without a parent.
LEMMA CompleteStep ==
  ASSUME GraphInv, TypeOK', NEW c \in Editors, NEW s \in Tasks, NEW r \in Rows, NEW scope \in Scopes,
         CompleteRepeating(c, s, r, scope)
  PROVE  GraphInv'
<1> DEFINE t == draft[c].task
           row == UpdatedRow(task[t], r, scope)
           next == Successor(t, row)
           U == [task EXCEPT ![t] = row]
<1>1. Admitted(c, r, scope) /\ task' = [task EXCEPT ![t] = row, ![s] = next] /\ receipt' = receipt
      /\ imported' = imported /\ born' = born \cup {s} /\ tx' = NoTx /\ s \in Fresh
      /\ r.recur # NoRule /\ InRange(SuccessorSource(row))
  BY DEF CompleteRepeating, Admitted, LockFree
<1>2. /\ t \in Tasks /\ t \in Live /\ row \in Rows /\ row.ver > 0 /\ row.recur = r.recur
      /\ Steady(t, row, imported) /\ Sound(U, imported)
  BY <1>1, AdmittedSound
<1>3. task \in [Tasks -> Rows]
  BY DEF GraphInv, TypeOK
<1>4. s \notin Live /\ s \notin imported /\ s # t /\ s # NoTask
  BY <1>1, <1>2, FreshTask
<1>5. row.base # NoBase => row.base.recur # NoRule
  BY <1>2 DEF Steady
<1>6. next \in Rows
  BY <1>1, <1>2, <1>5, SuccessorTyped
<1>7. next.ver = 1 /\ next.parent = NoTask /\ next.source = t /\ next.base = NoBase
      /\ next.recur = SuccessorSource(row).recur
  BY DEF Successor, NoRow
<1>8. next.recur # NoRule
  BY <1>1, <1>2, <1>5, <1>7 DEF SuccessorSource, Defaults
<1> HIDE DEF row, next
<1>9. U \in [Tasks -> Rows] /\ U[s] = task[s] /\ task' = [U EXCEPT ![s] = next]
  BY <1>1, <1>2, <1>3, <1>4
<1>10. s \notin LiveIn(U)
  BY <1>4, <1>9 DEF LiveIn, Live
<1> HIDE DEF U
<1>11. Sound(task', imported')
  <2>1. next.ver > 0 /\ imported \subseteq imported'
    BY <1>1, <1>7
  <2>2. Sound([U EXCEPT ![s] = next], imported')
    BY <1>2, <1>6, <1>7, <1>10, <2>1, AddSound
  <2>3. QED
    BY <1>9, <2>2
<1>12. Live' \subseteq Live \cup {s}
  BY <1>1, <1>2, <1>3 DEF Live
<1>13. Known'
  BY <1>1, <1>12, KnownKept
<1>14. Repeats'
  <2>1. Steady(s, next, imported)
    BY <1>2, <1>4, <1>7, <1>8 DEF Steady
  <2>2. QED
    BY <1>1, <1>2, <1>3, <1>4, <2>1 DEF GraphInv, Repeats
<1>15. QED
  BY <1>1, <1>11, <1>13, <1>14, ReceiptsKept, IdleTx DEF GraphInv
\* Reopening deletes the successor without looking for subtasks; it has none, since it
\* repeats and was not imported, so the update still fits the table without it.
LEMMA ReopenStep ==
  ASSUME GraphInv, TypeOK', FinishReopen
  PROVE  GraphInv'
<1> DEFINE t == draft[tx.editor].task
           gone == {tx.next} \cap Tasks
           row == UpdatedRow(task[t], tx.request, "none")
           U == Without(gone)
<1>1. tx.kind = "reopen" /\ task' = [U EXCEPT ![t] = row] /\ receipt' = receipt
      /\ imported' = imported /\ born' = born /\ tx' = NoTx
  BY DEF FinishReopen
<1>2. /\ Fits(task, t, tx.request)
      /\ tx.next # NoTask => /\ tx.next \in Live /\ tx.next # t
                             /\ task[tx.next].recur # NoRule /\ tx.next \notin imported
  BY <1>1 DEF GraphInv, ReopenInv
<1>3. /\ t \in Tasks /\ task[t] \in Rows /\ task[t].ver > 0 /\ t \in Live /\ tx.request \in Rows
      /\ tx.request.parent # NoTask => task[tx.request.parent].recur = NoRule
  BY <1>2 DEF Fits, LiveIn, Live, GraphInv, TypeOK, Transactions
<1>4. Sound(task, imported) /\ Repeats /\ TypeOK /\ NoTask \notin Tasks
  BY GraphAssumption DEF GraphInv
<1>5. \A u \in gone : task[u].recur # NoRule /\ u \notin imported /\ u # t
  BY <1>2, <1>4
<1>6. \A u \in Tasks : task[u].parent \notin gone
  BY <1>4, <1>5 DEF Sound, StandAlone
<1>7. t \notin gone /\ tx.request.parent \notin gone
  BY <1>3, <1>4, <1>5
<1>8. gone \in SUBSET Tasks
  OBVIOUS
<1> HIDE DEF gone
<1>9. Sound(U, imported) /\ \A u \in Tasks : Steady(u, U[u], imported)
  BY <1>4, <1>6, <1>8, WithoutSound
<1>10. \A u \in Tasks : IF u \in gone THEN U[u] = NoRow
                        ELSE SameRelations(task[u], U[u]) /\ U[u].ver = task[u].ver
  BY <1>4, <1>8, WithoutRows
<1>11. U \in [Tasks -> Rows]
  BY <1>9 DEF Sound
<1> HIDE DEF U
<1>12. Fits(U, t, tx.request)
  BY <1>2, <1>3, <1>7, <1>10, FitsKept
<1>13. row \in Rows /\ row.parent = tx.request.parent /\ row.project = tx.request.project
       /\ row.recur = tx.request.recur /\ row.ver = task[t].ver + 1
  BY <1>3, UpdatedTyped, UpdatedFields DEF Scopes
<1>14. Steady(t, row, imported)
  <2>1. ScopeAllowed(task[t], tx.request, "none")
    BY DEF ScopeAllowed
  <2>2. Steady(t, task[t], imported)
    BY <1>3, <1>4 DEF Repeats
  <2>3. QED
    BY <1>3, <2>1, <2>2, UpdatedSteady DEF Scopes
<1> HIDE DEF row
<1>15. row.ver > 0
  BY <1>3, <1>13 DEF Rows
<1>16. Sound([U EXCEPT ![t] = row], imported)
  <2>1. Fits(U, t, row)
    BY <1>12, <1>13 DEF Fits
  <2>2. QED
    BY <1>3, <1>9, <1>13, <1>15, <2>1, UpdateSound
<1>17. Known'
  <2>1. NoRow.ver = 0
    BY DEF NoRow
  <2>2. Live' \subseteq Live
    BY <1>1, <1>3, <1>10, <1>11, <2>1 DEF Live
  <2>3. QED
    BY <1>1, <2>2 DEF GraphInv, Known
<1>18. Repeats'
  BY <1>1, <1>9, <1>11, <1>14 DEF Repeats
<1>19. QED
  BY <1>1, <1>16, <1>17, <1>18, ReceiptsKept, IdleTx DEF GraphInv

\* Deleting a task without subtasks; a receipt records rows that satisfy Restorable.
LEMMA DeleteStep ==
  ASSUME GraphInv, TypeOK', NEW c \in Editors, DeleteTask(c) \/ DeleteWithUndo(c)
  PROVE  GraphInv'
<1> DEFINE t == draft[c].task
<1>1. Deletable(c) /\ task' = Without({t}) /\ imported' = imported /\ born' = born /\ tx' = NoTx
  BY DEF DeleteTask, DeleteWithUndo, Deletable, LockFree
<1>2. t \in Tasks /\ t \in Live /\ \A u \in Tasks : task[u].parent # t
  BY <1>1 DEF Deletable, Live, HasSubtasks
<1>3. Sound(task, imported) /\ Repeats /\ TypeOK /\ NoTask \notin Tasks
  BY GraphAssumption DEF GraphInv
<1>4. Sound(task', imported') /\ Repeats'
  <2>1. {t} \in SUBSET Tasks /\ \A u \in Tasks : task[u].parent \notin {t}
    BY <1>2
  <2>2. QED
    BY <1>1, <1>3, <2>1, WithoutSound DEF Repeats
<1>5. task'[t] = NoRow /\ \A u \in Tasks : u # t => /\ SameRelations(task[u], task'[u])
                                                    /\ task'[u].ver = task[u].ver
  <2>1. {t} \in SUBSET Tasks
    BY <1>2
  <2>2. \A u \in Tasks :
          IF u \in {t} THEN Without({t})[u] = NoRow
          ELSE SameRelations(task[u], Without({t})[u]) /\ Without({t})[u].ver = task[u].ver
    BY <1>3, <2>1, WithoutRows
  <2>3. QED
    BY <1>1, <1>2, <2>2
<1>6. Live' = Live \ {t}
  <2>1. ~(NoRow.ver > 0)
    BY DEF NoRow
  <2>2. QED
    BY <1>2, <1>5, <2>1 DEF Live
<1>7. t \in born /\ Live \subseteq born /\ imported \subseteq born
  BY <1>2 DEF GraphInv, Known
<1>8. CASE DeleteTask(c)
  <2>1. receipt' = receipt
    BY <1>8 DEF DeleteTask
  <2>2. Known'
    BY <1>1, <1>6, <2>1 DEF GraphInv, Known
  <2>3. QED
    BY <1>1, <1>4, <2>1, <2>2, ReceiptsKept, IdleTx DEF GraphInv
<1>9. CASE DeleteWithUndo(c)
  <2> DEFINE deps == NextOf(t) \cup ({task[t].parent, task[t].source} \cap Tasks)
             rec == receipt'[t]
  <2>1. /\ \A u \in Tasks : u # t => receipt'[u] = receipt[u]
        /\ rec.row = task[t] /\ rec.next = NextOf(t)
        /\ \A u \in deps : rec.seen[u] = task'[u]
    <3>1. receipt' = [receipt EXCEPT ![t] =
            [row |-> task[t], next |-> NextOf(t),
             seen |-> [u \in Tasks |-> IF u \in deps THEN Without({t})[u] ELSE NoRow],
             pver |-> [p \in Projects |->
                        IF p \in {task[t].project, task[t].base.project} THEN projects[p] ELSE 0],
             mapped |-> copy[t] = "mapped"]]
      BY <1>9 DEF DeleteWithUndo
    <3>2. receipt \in [Tasks -> Receipts]
      BY <1>3 DEF TypeOK
    <3>3. rec = [row |-> task[t], next |-> NextOf(t),
                 seen |-> [u \in Tasks |-> IF u \in deps THEN Without({t})[u] ELSE NoRow],
                 pver |-> [p \in Projects |->
                            IF p \in {task[t].project, task[t].base.project} THEN projects[p] ELSE 0],
                 mapped |-> copy[t] = "mapped"]
      BY <1>2, <3>1, <3>2
    <3>4. deps \subseteq Tasks
      BY DEF NextOf
    <3>5. QED
      BY <1>1, <1>2, <3>1, <3>2, <3>3, <3>4
  <2>2. Restorable(t, rec, imported)
    <3>1. Steady(t, task[t], imported)
      BY <1>2, <1>3 DEF Repeats
    <3>2. task[t].recur # NoRule => task[t].parent = NoTask
      BY <1>2, <1>3 DEF Sound, StandAlone
    <3>3. task[t].parent # NoTask =>
            LET q == task[t].parent IN
            /\ q \in Tasks /\ q # t /\ task[q].ver > 0 /\ task[q].project = task[t].project
            /\ task[q].recur # NoRule => q \in imported
      BY <1>2, <1>3 DEF Sound, Parents, StandAlone, LiveIn
    <3>4. task[t].parent # NoTask =>
            LET q == task[t].parent IN
            rec.seen[q] = task'[q] /\ task'[q].ver > 0 /\ task'[q].project = task[q].project
            /\ task'[q].recur = task[q].recur
      BY <3>3, <2>1, <1>5 DEF SameRelations
    <3>5. \A u \in NextOf(t) : u \in Tasks /\ u # t /\ task[u].ver > 0
      BY <1>3 DEF NextOf, Repeats, Steady
    <3>6. \A u \in NextOf(t) : u # t /\ rec.seen[u].ver > 0
      BY <3>5, <2>1, <1>5
    <3> HIDE DEF rec
    <3>7. QED
      BY <2>1, <3>1, <3>2, <3>3, <3>4, <3>6 DEF Restorable, Steady
  <2> HIDE DEF rec
  <2>3. Known'
    BY <1>1, <1>6, <1>7, <2>1 DEF GraphInv, Known
  <2>4. ReceiptInv'
    BY <1>1, <2>1, <2>2 DEF GraphInv, ReceiptInv, rec
  <2>5. QED
    BY <1>1, <1>4, <2>3, <2>4, IdleTx DEF GraphInv
<1>10. QED
  BY <1>8, <1>9

\* The cascade of a project takes whole trees, since subtasks share the project, and
\* the trigger of migration 0024 changes nothing but the defaults' project.
LEMMA DeleteProjectStep ==
  ASSUME GraphInv, TypeOK', NEW p \in Projects, DeleteProject(p)
  PROVE  GraphInv'
<1> DEFINE gone == {t \in Tasks : task[t].project = p}
           U == Without(gone)
<1>1. /\ task' = [t \in Tasks |-> Unassigned(U[t], p)] /\ receipt' = receipt
      /\ imported' = imported /\ born' = born /\ tx' = NoTx
  BY DEF DeleteProject, LockFree
<1>2. Sound(task, imported) /\ Repeats /\ TypeOK /\ NoTask \notin Tasks
  BY GraphAssumption DEF GraphInv
<1>3. \A u \in Tasks : u \notin gone => task[u].parent \notin gone
  BY <1>2 DEF Sound, Parents
<1>4. gone \in SUBSET Tasks
  OBVIOUS
<1>5. Sound(U, imported) /\ \A u \in Tasks : Steady(u, U[u], imported)
  BY <1>2, <1>3, <1>4, WithoutSound
<1>6. \A u \in Tasks : IF u \in gone THEN U[u] = NoRow ELSE U[u].ver = task[u].ver
  BY <1>2, <1>4, WithoutRows
<1> HIDE DEF gone, U
<1>7. \A u \in Tasks :
        /\ SameRelations(U[u], task'[u])
        /\ task'[u] = U[u] \/ (/\ U[u].ver > 0 /\ task'[u].ver = U[u].ver + 1
                               /\ task'[u].source = U[u].source
                               /\ U[u].base # NoBase /\ task'[u].base.recur = U[u].base.recur)
  <2>1. SUFFICES ASSUME NEW u \in Tasks
                 PROVE  \/ task'[u] = U[u]
                        \/ /\ U[u].ver > 0 /\ task'[u].ver = U[u].ver + 1 /\ task'[u].ver > 0
                           /\ task'[u].parent = U[u].parent /\ task'[u].project = U[u].project
                           /\ task'[u].recur = U[u].recur /\ task'[u].source = U[u].source
                           /\ U[u].base # NoBase /\ task'[u].base.recur = U[u].base.recur
    BY DEF SameRelations
  <2>2. U[u] \in Rows /\ (U[u].ver = 0 => U[u] = NoRow)
    BY <1>5 DEF Sound
  <2>3. CASE U[u].base.project = p
    <3>1. task'[u] = [U[u] EXCEPT !.base.project = NoProject, !.ver = @ + 1]
      BY <1>1, <2>3 DEF Unassigned
    <3>2. U[u].base # NoBase
      BY <2>3, GraphAssumption DEF NoBase
    <3>3. U[u].ver > 0 /\ U[u].ver \in Nat
      BY <2>2, <3>2 DEF NoRow, Rows
    <3>4. U[u].base \in Bases
      BY <2>2 DEF Rows
    <3>5. /\ task'[u].ver = U[u].ver + 1 /\ task'[u].parent = U[u].parent
          /\ task'[u].project = U[u].project /\ task'[u].recur = U[u].recur
          /\ task'[u].source = U[u].source
          /\ task'[u].base = [U[u].base EXCEPT !.project = NoProject]
      BY <3>1, <2>2 DEF Rows
    <3>6. task'[u].base.recur = U[u].base.recur
      BY <3>4, <3>5 DEF Bases
    <3>7. QED
      BY <3>2, <3>3, <3>5, <3>6
  <2>4. CASE U[u].base.project # p
    BY <1>1, <2>4 DEF Unassigned
  <2>5. QED
    BY <2>3, <2>4
<1>8. Sound(task', imported')
  <2>1. PICK none \in SUBSET Tasks : none = {}
    OBVIOUS
  <2>2. \A u \in Tasks : u \notin none /\ U[u].parent \notin none
    BY <2>1
  <2>3. task' \in [Tasks -> Rows]
    BY DEF TypeOK
  <2>4. QED
    BY <1>1, <1>5, <1>7, <2>2, <2>3, RemoveSound
<1>9. Known'
  <2>1. NoRow.ver = 0
    BY DEF NoRow
  <2>2. \A u \in Tasks : task'[u].ver > 0 => U[u].ver > 0
    BY <1>7
  <2>3. Live' \subseteq Live
    BY <1>6, <2>1, <2>2 DEF Live
  <2>4. QED
    BY <1>1, <2>3 DEF GraphInv, Known
<1>10. Repeats'
  <2>1. SUFFICES ASSUME NEW u \in Tasks PROVE Steady(u, task'[u], imported)
    BY <1>1 DEF Repeats
  <2>2. U[u].ver \in Nat
    BY <1>5 DEF Sound, Rows
  <2>3. QED
    BY <1>5, <1>7, <2>2 DEF Steady
<1>11. QED
  BY <1>1, <1>8, <1>9, <1>10, ReceiptsKept, IdleTx DEF GraphInv

\* A receipt whose rows are unchanged restores a row that fits the table again.
LEMMA UndoStep ==
  ASSUME GraphInv, TypeOK', NEW t \in Tasks, UndoDelete(t)
  PROVE  GraphInv'
<1> DEFINE r == receipt[t]
           row == [r.row EXCEPT !.ver = @ + 1]
           U == [u \in Tasks |-> IF u \in r.next THEN [task[u] EXCEPT !.source = t, !.ver = @ + 1]
                                 ELSE task[u]]
<1>1. /\ r.row.ver > 0 /\ AsDeleted(r) /\ receipt' = [receipt EXCEPT ![t] = NoReceipt]
      /\ imported' = imported /\ born' = born /\ tx' = NoTx
      /\ task' = [u \in Tasks |-> IF u = t THEN row
                   ELSE IF u \in r.next THEN [task[u] EXCEPT !.source = t, !.ver = @ + 1] ELSE task[u]]
  BY DEF UndoDelete, LockFree
<1>2. Restorable(t, r, imported) /\ t \in born /\ t \notin Live
  BY <1>1 DEF GraphInv, ReceiptInv, Known
<1>3. Sound(task, imported) /\ Repeats /\ TypeOK /\ NoTask \notin Tasks /\ r \in Receipts
  BY GraphAssumption DEF GraphInv, TypeOK
<1>4. r.row \in Rows /\ r.next \subseteq Tasks
  BY <1>3 DEF Receipts
<1>5. /\ row \in Rows /\ row.ver = r.row.ver + 1 /\ row.parent = r.row.parent
      /\ row.project = r.row.project /\ row.recur = r.row.recur
      /\ row.source = r.row.source /\ row.base = r.row.base
  <2>1. row \in Rows
    BY <1>4, CountedTyped
  <2>2. QED
    BY <1>4, <2>1 DEF Rows
<1> HIDE DEF row
<1>6. row.ver > 0 /\ row.ver # 1
  <2>1. r.row.ver \in Nat
    BY <1>4 DEF Rows
  <2>2. r.row.ver > 0
    BY <1>1
  <2>3. row.ver = r.row.ver + 1
    BY <1>5
  <2>4. QED
    BY <2>1, <2>2, <2>3
<1>7. \A u \in r.next : u \in Tasks /\ u # t /\ task[u].ver > 0
  BY <1>1, <1>2, <1>4 DEF Restorable, AsDeleted
<1>8. \A u \in Tasks : u \in r.next => /\ U[u] \in Rows /\ U[u].ver = task[u].ver + 1
                                       /\ U[u].parent = task[u].parent /\ U[u].project = task[u].project
                                       /\ U[u].recur = task[u].recur /\ U[u].source = t
                                       /\ U[u].base = task[u].base
  <2>1. SUFFICES ASSUME NEW u \in Tasks, u \in r.next
                 PROVE  /\ U[u] \in Rows /\ U[u].ver = task[u].ver + 1
                        /\ U[u].parent = task[u].parent /\ U[u].project = task[u].project
                        /\ U[u].recur = task[u].recur /\ U[u].source = t
                        /\ U[u].base = task[u].base
    BY Zenon
  <2>2. task[u] \in Rows
    BY <1>3 DEF TypeOK
  <2>3. U[u] = [task[u] EXCEPT !.source = t, !.ver = @ + 1]
    BY <2>1
  <2>4. U[u] \in Rows
    BY <2>2, <2>3, CountedTyped
  <2>5. QED
    BY <2>2, <2>3, <2>4 DEF Rows
<1>9. \A u \in Tasks : u \notin r.next => U[u] = task[u]
  OBVIOUS
<1>10. U \in [Tasks -> Rows]
  BY <1>3, <1>8 DEF TypeOK
<1>11. task' = [U EXCEPT ![t] = row] /\ U[t] = task[t]
  BY <1>1, <1>7
<1> HIDE DEF U
<1>emptied. ~(receipt'[t].row.ver > 0) /\ \A u \in Tasks : u # t => receipt'[u] = receipt[u]
  <2>1. receipt \in [Tasks -> Receipts]
    BY <1>3 DEF TypeOK
  <2>2. receipt'[t] = NoReceipt /\ \A u \in Tasks : u # t => receipt'[u] = receipt[u]
    BY <1>1, <2>1
  <2>3. ~(NoReceipt.row.ver > 0)
    BY DEF NoReceipt, NoRow
  <2>4. QED
    BY <2>2, <2>3
<1>12. Sound(U, imported)
  <2>1. \A u \in Tasks : SameRelations(task[u], U[u])
    <3>1. \A u \in Tasks : u \in r.next => U[u].ver > 0
      BY <1>3, <1>7, <1>8 DEF TypeOK, Rows
    <3>2. QED
      BY <1>7, <1>8, <1>9, <3>1 DEF SameRelations
  <2>2. PICK none \in SUBSET Tasks : none = {}
    OBVIOUS
  <2>3. \A u \in Tasks : u \notin none /\ task[u].parent \notin none
    BY <2>2
  <2>4. QED
    BY <1>3, <1>10, <2>1, <2>3, RemoveSound
<1>13. Sound(task', imported')
  <2>1. t \notin LiveIn(U)
    BY <1>2, <1>11 DEF LiveIn, Live
  <2>2. row.recur # NoRule => row.parent = NoTask
    BY <1>2, <1>5 DEF Restorable
  <2>3. row.parent # NoTask =>
          /\ row.parent \in Tasks /\ task[row.parent].ver > 0 /\ task[row.parent].project = row.project
          /\ task[row.parent].recur # NoRule => row.parent \in imported
    <3>1. row.parent = r.row.parent /\ row.project = r.row.project /\ row.parent \in Tasks \cup {NoTask}
      BY <1>5 DEF Rows
    <3>2. r.row.parent # NoTask => /\ r.seen[r.row.parent].ver > 0
                                   /\ r.seen[r.row.parent].project = r.row.project
                                   /\ r.seen[r.row.parent].recur # NoRule => r.row.parent \in imported
      BY <1>2 DEF Restorable
    <3>3. \A u \in Tasks : r.seen[u].ver > 0 => task[u] = r.seen[u]
      BY <1>1 DEF AsDeleted
    <3> HIDE DEF r
    <3>4. QED
      BY <3>1, <3>2, <3>3
  <2>4. row.parent # NoTask =>
          /\ row.parent \in LiveIn(U) /\ U[row.parent].project = row.project
          /\ U[row.parent].recur # NoRule => row.parent \in imported
    <3>1. \A u \in Tasks : task[u].ver > 0 => U[u].ver > 0 /\ U[u].project = task[u].project
                                              /\ U[u].recur = task[u].recur
      BY <1>3, <1>8, <1>9 DEF TypeOK, Rows
    <3>2. QED
      BY <2>3, <3>1 DEF LiveIn
  <2>5. imported \subseteq imported
    OBVIOUS
  <2>6. Sound([U EXCEPT ![t] = row], imported)
    BY <1>5, <1>6, <1>12, <2>1, <2>2, <2>4, <2>5, AddSound
  <2>7. QED
    BY <1>1, <1>11, <2>6
<1>14. Known'
  <2>1. Live' \subseteq Live \cup {t}
    BY <1>7, <1>9, <1>10, <1>11 DEF Live
  <2>2. QED
    BY <1>1, <1>2, <1>emptied, <2>1 DEF GraphInv, Known
<1>15. Repeats'
  <2>1. SUFFICES ASSUME NEW u \in Tasks PROVE Steady(u, task'[u], imported)
    BY <1>1 DEF Repeats
  <2>2. Steady(u, task[u], imported) /\ task[u].ver \in Nat
    BY <1>3 DEF Repeats, TypeOK, Rows
  <2>3. CASE u = t
    BY <2>3, <1>2, <1>5, <1>6, <1>10, <1>11 DEF Steady, Restorable
  <2>4. CASE u # t /\ u \in r.next
    BY <2>2, <2>4, <1>7, <1>8, <1>10, <1>11 DEF Steady
  <2>5. CASE u # t /\ u \notin r.next
    BY <2>2, <2>5, <1>9, <1>10, <1>11
  <2>6. QED
    BY <2>3, <2>4, <2>5
<1>16. ReceiptInv'
  BY <1>1, <1>emptied DEF GraphInv, ReceiptInv
<1>17. QED
  BY <1>1, <1>13, <1>14, <1>15, <1>16, IdleTx DEF GraphInv

---------------------------------------------------------------------------
(* Theorems *)

\* The empty table satisfies the invariant.
LEMMA InitInv == Init => GraphInv
<1> SUFFICES ASSUME Init PROVE GraphInv
  OBVIOUS
<1>1. TypeOK
  BY EmptyTyped, GraphAssumption DEF Init, TypeOK, Copies
<1>2. /\ NoRow.ver = 0 /\ NoRow.parent = NoTask /\ NoRow.recur = NoRule /\ NoRow.source = NoTask
      /\ NoRow.base = NoBase /\ NoReceipt.row = NoRow /\ NoTx.kind = "none" /\ NoTx.rows = {}
      /\ NoTask \notin Tasks
  BY GraphAssumption DEF NoRow, NoReceipt, NoTx
<1>3. \A t \in Tasks : task[t] = NoRow /\ receipt[t] = NoReceipt
  BY DEF Init
<1>4. Sound(task, imported)
  <2>1. Acyclic(task)
    BY <1>2, <1>3 DEF Acyclic
  <2>2. QED
    BY <1>1, <1>2, <1>3, <2>1 DEF Sound, Parents, StandAlone, TypeOK
<1>5. Known /\ ReceiptInv
  BY <1>2, <1>3 DEF Known, ReceiptInv, Live, Init
<1>6. Repeats
  BY <1>2, <1>3 DEF Repeats, Steady
<1>7. ImportInv /\ ReopenInv
  BY <1>2 DEF ImportInv, ReopenInv, Init
<1>8. QED
  BY <1>1, <1>4, <1>5, <1>6, <1>7 DEF GraphInv

\* Every request, callback and outside change keeps the invariant.
LEMMA GraphStep ==
  ASSUME GraphInv, [Next]_vars
  PROVE  GraphInv'
<1>1. TypeOK'
  BY TypeStep DEF GraphInv
<1>2. \A r \in Requests(NoRow) : r \in Rows
  BY RequestTyped, EmptyTyped
<1>3. \A c \in Editors : \A r \in Requests(draft[c].row) : r \in Rows
  BY RequestTyped DEF GraphInv, TypeOK
<1>4. ASSUME NEW t \in Tasks, NEW r \in Requests(NoRow), CreateTask(t, r) \/ ImportRow(t, r)
      PROVE  GraphInv'
  BY <1>1, <1>2, <1>4, CreateStep, ImportRowStep
<1>5. ASSUME NEW p \in Projects, CreateProject(p) \/ UpdateProject(p)
      PROVE  GraphInv'
  BY <1>1, <1>5, QuietStep DEF CreateProject, UpdateProject, QuietTable, Quiet
<1>6. ASSUME NEW p \in Projects, DeleteProject(p)
      PROVE  GraphInv'
  BY <1>1, <1>6, DeleteProjectStep
<1>7. CASE CommitImport \/ AbortReopen \/ \E p \in Projects : BeginImport(p)
  BY <1>1, <1>7, BeginStep
<1>8. CASE AbortImport
  BY <1>1, <1>8, AbortImportStep
<1>9. CASE FinishReopen
  BY <1>1, <1>9, ReopenStep
<1>10. ASSUME NEW c \in Editors, NEW r \in Requests(draft[c].row), NEW scope \in Scopes,
              SaveTask(c, r, scope)
       PROVE  GraphInv'
  BY <1>1, <1>3, <1>10, SaveStep
<1>11. ASSUME NEW c \in Editors, NEW r \in Requests(draft[c].row), NEW scope \in Scopes,
              NEW s \in Tasks, CompleteRepeating(c, s, r, scope)
       PROVE  GraphInv'
  BY <1>1, <1>3, <1>11, CompleteStep
<1>12. ASSUME NEW c \in Editors, NEW r \in Requests(draft[c].row), BeginReopen(c, r)
       PROVE  GraphInv'
  BY <1>1, <1>3, <1>12, BeginStep
<1>13. ASSUME NEW c \in Editors, DeleteTask(c) \/ DeleteWithUndo(c)
       PROVE  GraphInv'
  BY <1>1, <1>13, DeleteStep
<1>14. ASSUME NEW c \in Editors, NEW t \in Tasks, OpenEditor(c, t)
       PROVE  GraphInv'
  <2>1. tx.kind = "reopen" => draft'[tx.editor] = draft[tx.editor]
    BY <1>14 DEF OpenEditor, GraphInv, ReopenInv, TypeOK
  <2>2. QED
    BY <1>1, <1>14, <2>1, QuietStep DEF OpenEditor, QuietTable, Quiet
<1>15. ASSUME NEW t \in Tasks, UndoDelete(t)
       PROVE  GraphInv'
  BY <1>1, <1>15, UndoStep
<1>16. ASSUME NEW t \in Tasks,
              \/ RemoveBlock(t) \/ Post(t) \/ InsertMapping(t)
              \/ \E b \in Blocks : MoveBlock(t, b)
              \/ \E d \in Dues : Reschedule(t, d)
       PROVE  GraphInv'
  BY <1>1, <1>16, ContentStep
<1>17. CASE UNCHANGED vars
  BY <1>1, <1>17, QuietStep DEF vars, QuietTable, Quiet
<1>18. QED
  BY <1>4, <1>5, <1>6, <1>7, <1>8, <1>9, <1>10, <1>11, <1>12, <1>13, <1>14, <1>15, <1>16, <1>17
     DEF Next, Edit

\* The invariant behind the theorems below holds in every reachable state.
THEOREM GraphInvariant == Spec => []GraphInv
<1>1. Init => GraphInv
  BY InitInv
<1>2. GraphInv /\ [Next]_vars => GraphInv'
  BY GraphStep
<1>3. QED
  BY <1>1, <1>2, PTL DEF Spec

\* Every row is typed; in particular next_recurrence_date never leaves the range of
\* dates, whatever deadlines and defaults a series has gone through.
THEOREM TypeCorrect == Spec => []TypeOK
<1>1. GraphInv => TypeOK
  BY DEF GraphInv
<1>2. QED
  BY <1>1, GraphInvariant, PTL

\* The parent of every task is a row of the same project, with or without a project:
\* reopening deletes a successor unconditionally and still never leaves an orphan.
THEOREM NoOrphans == Spec => []ParentsExist
<1>1. GraphInv => ParentsExist
  BY DEF GraphInv, Sound, Parents, ParentsExist, Live, LiveIn
<1>2. QED
  BY <1>1, GraphInvariant, PTL

\* validate_task_update_relationships keeps the parent relation free of cycles, for
\* trees of any depth.
THEOREM ForestHasNoCycle == Spec => []NoCycle
<1>1. GraphInv => NoCycle
  BY DEF GraphInv, Sound, Acyclic, NoCycle
<1>2. QED
  BY <1>1, GraphInvariant, PTL

\* A repeating task has no parent, and subtasks only when an import brought them.
THEOREM RepeatingTasksStandAlone == Spec => []RepeatingStandAlone
<1>1. GraphInv => RepeatingStandAlone
  BY DEF GraphInv, Sound, StandAlone, RepeatingStandAlone, HasSubtasks, Live
<1>2. QED
  BY <1>1, GraphInvariant, PTL

---------------------------------------------------------------------------
(* Versions *)

\* b is the row a, later: its version is higher, or an editor sees no difference.
Later(a, b) == b.ver > a.ver \/ (b.ver = a.ver /\ Shown(b) = Shown(a))

\* A row is kept or replaced by a later one, and one that comes back from a receipt is
\* later than the one that was deleted.
Aging ==
    /\ born \subseteq born'
    /\ \A t \in Tasks : t \in born =>
        /\ task'[t].ver > 0 =>
            \/ task[t].ver > 0 /\ Later(task[t], task'[t])
            \/ receipt[t].row.ver > 0 /\ task'[t].ver > receipt[t].row.ver
        /\ receipt'[t].row.ver > 0 =>
            \/ receipt[t].row.ver > 0 /\ receipt'[t].row.ver = receipt[t].row.ver
            \/ task[t].ver > 0 /\ receipt'[t].row.ver = task[t].ver

\* The row of t has been at version v.
Past(t, v) ==
    /\ t \in born
    /\ task[t].ver > 0 => v <= task[t].ver
    /\ receipt[t].row.ver > 0 => v <= receipt[t].row.ver

\* The version an editor has read tells whether it shows the row as it is.
DraftInv ==
    \A c \in Editors : draft[c].task # NoTask =>
        /\ Past(draft[c].task, draft[c].row.ver) /\ draft[c].row.ver > 0
        /\ task[draft[c].task].ver = draft[c].row.ver => Shown(task[draft[c].task]) = Shown(draft[c].row)

\* OneSuccessor, for the rows that do not exist as well.
SuccInv ==
    \A u \in Tasks : task[u].source # NoTask =>
        /\ task[task[u].source].ver > 0 /\ task[task[u].source].done
        /\ \A v \in Tasks : v # u => task[v].source # task[u].source

\* What a receipt of t says of the source of t: while it has the version it had, it has
\* no other successor and no other receipt will give it one.
SourceSafe(t) ==
    LET r == receipt[t]
        s == r.row.source
    IN  /\ r.seen[s].ver > 0 /\ r.seen[s].done /\ Past(s, r.seen[s].ver)
        /\ task[s].ver = r.seen[s].ver => \A u \in Tasks : task[u].source # s
        /\ \A v \in Tasks : v # t /\ receipt[v].row.ver > 0 /\ receipt[v].row.source = s =>
              receipt[v].seen[s].ver # r.seen[s].ver

SourceInv ==
    \A t \in Tasks : receipt[t].row.ver > 0 /\ receipt[t].row.source # NoTask => SourceSafe(t)

\* ... and of the one successor it has detached.
NextSafe(r) ==
    \A u \in r.next : r.row.done /\ r.seen[u].ver > 0 /\ r.seen[u].source = NoTask /\ r.next = {u}

NextInv == \A t \in Tasks : receipt[t].row.ver > 0 => NextSafe(receipt[t])

\* A job or a mapping knows of the copy of the task's block.
Kept(t) == copy[t] \in {"posting", "mapped"}

\* What a transaction under way has read, or inserted, is still so.
TxInv ==
    /\ tx.kind = "reopen" => /\ NextOf(draft[tx.editor].task) = {tx.next} \cap Tasks
                             /\ task[draft[tx.editor].task].ver = draft[tx.editor].row.ver
                             /\ tx.next # NoTask => ~task[tx.next].done
    /\ \A u \in Tasks : task[u].source \notin tx.rows
    /\ \A u \in tx.rows : ~Kept(u)

\* BlocksKeepTheirTask, with what receipts will put back.
BlockInv ==
    /\ \A t \in Tasks : Kept(t) => task[t].ver > 0 /\ task[t].block # 0
    /\ \A t \in Tasks : receipt[t].row.ver > 0 /\ receipt[t].mapped => receipt[t].row.block # 0

VersionInv == DraftInv /\ SuccInv /\ SourceInv /\ NextInv /\ TxInv /\ BlockInv

\* What a removal and a cascade leave of a copy is nobody's any more.
LEMMA RemovedCopy ==
  \A s \in Copies : /\ Removed(s) \notin {"posting", "mapped"}
                    /\ Abandoned(s) \notin {"posting", "mapped"}
BY DEF Copies, Removed, Abandoned

\* An update keeps copies, and none of a block that it removes.
LEMMA RemappedKept ==
  ASSUME TypeOK, NEW t \in Tasks, NEW row
  PROVE  \A u \in Tasks : Remapped(t, row)[u] \in {"posting", "mapped"} =>
             Kept(u) /\ (row.block = 0 => u # t)
<1>1. copy \in [Tasks -> Copies]
  BY DEF TypeOK
<1> QED BY <1>1, RemovedCopy DEF Remapped, Kept

\* Versions are numbers.
LEMMA VersionTypes ==
  ASSUME TypeOK
  PROVE  /\ \A t \in Tasks : task[t] \in Rows /\ task[t].ver \in Nat
         /\ \A t \in Tasks : receipt[t].row \in Rows /\ receipt[t].row.ver \in Nat
         /\ \A t, u \in Tasks : receipt[t].seen[u] \in Rows /\ receipt[t].seen[u].ver \in Nat
         /\ \A c \in Editors : draft[c].row \in Rows /\ draft[c].row.ver \in Nat /\ draft[c].task \in Tasks \cup {NoTask}
         /\ \A t \in Tasks : task[t].source \in Tasks \cup {NoTask}
         /\ \A t \in Tasks : receipt[t].row.source \in Tasks \cup {NoTask}
<1>1. \A r \in Rows : r.ver \in Nat /\ r.source \in Tasks \cup {NoTask}
  BY DEF Rows
<1>2. \A t \in Tasks : receipt[t] \in Receipts
  BY DEF TypeOK
<1>3. \A t \in Tasks : receipt[t].row \in Rows /\ \A u \in Tasks : receipt[t].seen[u] \in Rows
  BY <1>2 DEF Receipts
<1>4. \A t \in Tasks : task[t] \in Rows
  BY DEF TypeOK
<1>5. \A c \in Editors : draft[c].row \in Rows /\ draft[c].task \in Tasks \cup {NoTask}
  BY DEF TypeOK
<1> QED BY <1>1, <1>3, <1>4, <1>5

\* A version that has been reached stays behind.
LEMMA PastKept ==
  ASSUME TypeOK, TypeOK', Aging, NEW t \in Tasks, NEW v \in Nat, Past(t, v)
  PROVE  /\ Past(t, v)'
         /\ task'[t].ver = v /\ v > 0 => task[t].ver = v /\ Shown(task'[t]) = Shown(task[t])
<1>1. task[t].ver \in Nat /\ receipt[t].row.ver \in Nat
  BY VersionTypes
<1>2. task'[t].ver \in Nat /\ receipt'[t].row.ver \in Nat
  <2>1. task'[t] \in Rows /\ receipt'[t] \in Receipts
    BY DEF TypeOK
  <2> QED BY <2>1 DEF Receipts, Rows
<1>3. t \in born /\ t \in born'
  BY DEF Past, Aging
<1>4. /\ task[t].ver > 0 => v <= task[t].ver
      /\ receipt[t].row.ver > 0 => v <= receipt[t].row.ver
  BY DEF Past
<1>5. /\ task'[t].ver > 0 =>
            \/ task[t].ver > 0 /\ Later(task[t], task'[t])
            \/ receipt[t].row.ver > 0 /\ task'[t].ver > receipt[t].row.ver
      /\ receipt'[t].row.ver > 0 =>
            \/ receipt[t].row.ver > 0 /\ receipt'[t].row.ver = receipt[t].row.ver
            \/ task[t].ver > 0 /\ receipt'[t].row.ver = task[t].ver
  BY <1>3 DEF Aging
<1>6. task'[t].ver > 0 => v <= task'[t].ver
  BY <1>1, <1>2, <1>4, <1>5 DEF Later
<1>7. receipt'[t].row.ver > 0 => v <= receipt'[t].row.ver
  BY <1>1, <1>2, <1>4, <1>5
<1>8. task'[t].ver = v /\ v > 0 => task[t].ver = v /\ Shown(task'[t]) = Shown(task[t])
  BY <1>1, <1>2, <1>4, <1>5 DEF Later
<1> QED BY <1>3, <1>6, <1>7, <1>8 DEF Past

\* What an editor has read stays comparable, when it reads nothing new.
LEMMA DraftKept ==
  ASSUME TypeOK, TypeOK', Aging, DraftInv,
         \A c \in Editors : draft'[c] = draft[c] \/ draft'[c].task = NoTask
  PROVE  DraftInv'
<1> SUFFICES ASSUME NEW c \in Editors, draft'[c].task # NoTask
             PROVE  /\ Past(draft[c].task, draft[c].row.ver)' /\ draft'[c].row.ver > 0
                    /\ task'[draft'[c].task].ver = draft'[c].row.ver => Shown(task'[draft'[c].task]) = Shown(draft'[c].row)
  BY DEF DraftInv
<1>1. draft'[c] = draft[c]
  OBVIOUS
<1>2. PICK t \in Tasks, v \in Nat : draft[c].task = t /\ draft[c].row.ver = v
  BY <1>1, VersionTypes
<1>3. Past(t, v) /\ v > 0 /\ (task[t].ver = v => Shown(task[t]) = Shown(draft[c].row))
  BY <1>1, <1>2 DEF DraftInv
<1>4. Past(t, v)' /\ (task'[t].ver = v => task[t].ver = v /\ Shown(task'[t]) = Shown(task[t]))
  BY <1>3, PastKept
<1>5. Past(draft[c].task, draft[c].row.ver)'
  BY <1>1, <1>2, <1>4 DEF Past
<1> QED BY <1>1, <1>2, <1>3, <1>4, <1>5

\* Sources that are only taken away stay the source of one task.
LEMMA SuccKept ==
  ASSUME SuccInv,
         \A u \in Tasks : task'[u].source # NoTask =>
            /\ task'[u].source = task[u].source
            /\ task'[task[u].source].ver > 0 /\ task'[task[u].source].done
  PROVE  SuccInv'
BY DEF SuccInv

\* What a receipt says of a source stays true when the receipts do, and a task gets a new
\* successor only together with a new version.
LEMMA SourceKept ==
  ASSUME TypeOK, TypeOK', Aging, SourceInv, NextInv, receipt' = receipt,
         \A u \in Tasks : task'[u].source # NoTask =>
            \/ task'[u].source = task[u].source
            \/ /\ task[task'[u].source].ver > 0
               /\ task'[task'[u].source].ver > task[task'[u].source].ver
  PROVE  SourceInv' /\ NextInv'
<1>1. NextInv'
  BY DEF NextInv
<1>2. SUFFICES ASSUME NEW t \in Tasks, receipt[t].row.ver > 0, receipt[t].row.source # NoTask
               PROVE  SourceSafe(t)'
  BY <1>1 DEF SourceInv
<1>3. PICK s \in Tasks, v \in Nat : receipt[t].row.source = s /\ receipt[t].seen[s].ver = v
  BY <1>2, VersionTypes
<1>4. SourceSafe(t)
  BY <1>2 DEF SourceInv
<1>5. v > 0 /\ Past(s, v) /\ (task[s].ver = v => \A u \in Tasks : task[u].source # s)
  BY <1>3, <1>4 DEF SourceSafe
<1>6. Past(s, v)' /\ (task'[s].ver = v => task[s].ver = v)
  BY <1>5, PastKept
<1>7. task'[s].ver = v => \A u \in Tasks : task'[u].source # s
  <2> SUFFICES ASSUME task'[s].ver = v, NEW u \in Tasks, task'[u].source = s PROVE FALSE
    OBVIOUS
  <2>1. task[s].ver = v /\ task[u].source # s /\ s # NoTask
    BY <1>2, <1>3, <1>5, <1>6
  <2>2. task'[s].ver > task[s].ver
    BY <2>1
  <2> QED BY <2>1, <2>2
<1>8. (Past(receipt[t].row.source, receipt[t].seen[receipt[t].row.source].ver))'
  BY <1>3, <1>6 DEF Past
<1> QED BY <1>2, <1>3, <1>4, <1>7, <1>8 DEF SourceSafe

\* A transaction that is over has nothing left to rely on.
LEMMA TxOver ==
  ASSUME tx' = NoTx
  PROVE  TxInv'
BY DEF TxInv, NoTx

\* A DELETE changes nothing an editor shows of the other rows.
LEMMA WithoutContent ==
  ASSUME TypeOK, Sound(task, imported), NEW gone \in SUBSET Tasks, NEW u \in Tasks, u \notin gone
  PROVE  /\ Without(gone)[u].ver = task[u].ver /\ Shown(Without(gone)[u]) = Shown(task[u])
         /\ Without(gone)[u].done = task[u].done /\ Without(gone)[u].block = task[u].block
         /\ Without(gone)[u].base = task[u].base
         /\ Without(gone)[u].source = IF task[u].source \in gone THEN NoTask ELSE task[u].source
<1>1. task[u] \in Rows
  BY DEF TypeOK
<1>2. CASE task[u].source \in gone
  <2> DEFINE n == [task[u] EXCEPT !.source = NoTask]
  <2>1. Without(gone)[u] = n
    BY <1>2 DEF Without
  <2>2. n.ver = task[u].ver /\ n.block = task[u].block /\ n.base = task[u].base /\ n.source = NoTask
    BY <1>1 DEF Rows
  <2>3. n.done = task[u].done
    BY <1>1, Zenon DEF Rows
  <2>4. Shown(n) = Shown(task[u])
    BY <1>1 DEF Rows, Shown
  <2> QED BY <1>2, <2>1, <2>2, <2>3, <2>4
<1>3. CASE task[u].source \notin gone
  BY <1>3 DEF Without
<1> QED BY <1>2, <1>3

\* What else the UPDATE of update_task_scoped takes from the form.
LEMMA UpdatedContent ==
  ASSUME NEW row \in Rows, NEW r \in Rows, NEW scope \in Scopes
  PROVE  UpdatedRow(row, r, scope).block = r.block /\ UpdatedRow(row, r, scope).done = r.done
<1>1. UpdatedRow(row, r, scope).block = r.block
  BY DEF UpdatedRow, Rows
<1>2. UpdatedRow(row, r, scope).done = r.done
  BY Zenon DEF UpdatedRow, Rows
<1> QED BY <1>1, <1>2

\* Steps that leave the receipts alone, delete rows and give the others a new version
\* with each change, and a task a new successor only with a new version.
LEMMA OrdinaryStep ==
  ASSUME TypeOK, TypeOK', DraftInv, SourceInv, NextInv, receipt' = receipt, born \subseteq born',
         \A u \in Tasks : u \in born /\ task'[u].ver > 0 => task[u].ver > 0 /\ Later(task[u], task'[u]),
         \A u \in Tasks : task'[u].source # NoTask =>
            \/ task'[u].source = task[u].source
            \/ /\ task[task'[u].source].ver > 0
               /\ task'[task'[u].source].ver > task[task'[u].source].ver,
         \A c \in Editors : draft'[c] = draft[c] \/ draft'[c].task = NoTask
  PROVE  Aging /\ DraftInv' /\ SourceInv' /\ NextInv'
<1>1. Aging
  BY DEF Aging
<1> QED BY <1>1, DraftKept, SourceKept

\* An editor that is closed shows nothing.
LEMMA DraftClosed ==
  ASSUME TypeOK, NEW c, draft' = [draft EXCEPT ![c] = NoDraft]
  PROVE  \A d \in Editors : draft'[d] = draft[d] \/ draft'[d].task = NoTask
BY DEF TypeOK, NoDraft

\* An untouched table ages.
LEMMA SameTable ==
  ASSUME task' = task
  PROVE  /\ \A u \in Tasks : u \in born /\ task'[u].ver > 0 => task[u].ver > 0 /\ Later(task[u], task'[u])
         /\ \A u \in Tasks : task'[u].source # NoTask => task'[u].source = task[u].source
BY DEF Later

\* Steps that change no row and no receipt: projects, reading, pushing, and the beginning
\* and end of transactions.
LEMMA StillStep ==
  ASSUME GraphInv, VersionInv, TypeOK',
         UNCHANGED <<task, receipt, reopened>>, born \subseteq born',
         \A c \in Editors : draft'[c] = draft[c] \/ draft'[c].task = NoTask,
         \A t \in Tasks : Kept(t)' => Kept(t) \/ (task[t].ver > 0 /\ task[t].block # 0)
  PROVE  Aging /\ DraftInv' /\ SuccInv' /\ SourceInv' /\ NextInv' /\ BlockInv'
<1>1. TypeOK /\ DraftInv /\ SuccInv /\ SourceInv /\ NextInv /\ BlockInv
  BY DEF GraphInv, VersionInv
<1>2. Aging /\ DraftInv' /\ SourceInv' /\ NextInv'
  BY <1>1, SameTable, OrdinaryStep
<1>3. SuccInv'
  BY <1>1 DEF SuccInv
<1>4. BlockInv'
  BY <1>1 DEF BlockInv
<1> QED BY <1>2, <1>3, <1>4

\* ... of these, the ones that leave the transaction as it is.
LEMMA StillSteps ==
  ASSUME GraphInv, VersionInv, TypeOK',
         \/ \E p \in Projects : CreateProject(p) \/ UpdateProject(p) \/ BeginImport(p)
         \/ CommitImport \/ AbortReopen \/ UNCHANGED vars
         \/ \E t \in Tasks : Post(t) \/ InsertMapping(t)
  PROVE  Aging /\ VersionInv'
<1>1. UNCHANGED <<task, receipt, reopened, draft>> /\ born \subseteq born'
  BY DEF CreateProject, UpdateProject, BeginImport, CommitImport, AbortReopen, vars, Post, InsertMapping
<1>2. \A t \in Tasks : Kept(t)' => Kept(t) \/ (t \in Visible /\ task[t].block # 0)
  <2>1. copy \in [Tasks -> Copies]
    BY DEF GraphInv, TypeOK
  <2> QED BY <2>1
         DEF CreateProject, UpdateProject, BeginImport, CommitImport, AbortReopen, vars, Post, InsertMapping, Kept
<1>3. \A t \in Visible : t \notin tx.rows /\ task[t].ver > 0
  BY DEF Visible, Live
<1>4. Aging /\ DraftInv' /\ SuccInv' /\ SourceInv' /\ NextInv' /\ BlockInv'
  BY <1>1, <1>2, <1>3, StillStep
<1>5. TxInv'
  <2>1. CASE CommitImport \/ AbortReopen
    BY <2>1, TxOver DEF CommitImport, AbortReopen
  <2>2. ASSUME NEW p \in Projects, BeginImport(p) PROVE TxInv'
    <3>1. tx' = [NoTx EXCEPT !.kind = "import", !.project = p]
      BY <2>2 DEF BeginImport
    <3>2. tx'.kind = "import" /\ tx'.rows = {}
      BY <3>1 DEF NoTx
    <3> QED BY <3>2 DEF TxInv
  <2>3. CASE tx' = tx
    <3>1. tx.rows \subseteq Tasks
      BY DEF GraphInv, TypeOK, Transactions
    <3> QED BY <1>1, <1>2, <1>3, <2>3, <3>1 DEF VersionInv, TxInv, NextOf
  <2> QED BY <2>1, <2>2, <2>3 DEF CreateProject, UpdateProject, vars, Post, InsertMapping
<1> QED BY <1>4, <1>5 DEF VersionInv

\* Reading a task shows it as it is.
LEMMA OpenStep ==
  ASSUME GraphInv, VersionInv, TypeOK', NEW c \in Editors, NEW t \in Tasks, OpenEditor(c, t)
  PROVE  Aging /\ VersionInv'
<1>1. /\ UNCHANGED <<task, receipt, reopened, born, copy, tx>> /\ t \in Live /\ tx.editor # c
      /\ draft' = [draft EXCEPT ![c] = [task |-> t, row |-> task[t]]]
  BY DEF OpenEditor, Visible
<1>2. TypeOK /\ DraftInv /\ SuccInv /\ SourceInv /\ NextInv /\ BlockInv /\ TxInv
  BY DEF GraphInv, VersionInv
<1>3. Aging
  BY <1>1 DEF Aging, Later
<1>4. SourceInv' /\ NextInv' /\ SuccInv' /\ BlockInv'
  BY <1>1, <1>2, <1>3, SourceKept DEF SuccInv, BlockInv, Kept
<1>5. draft \in [Editors -> [task : Tasks \cup {NoTask}, row : Rows]]
  BY <1>2 DEF TypeOK
<1>6. \A d \in Editors : d # c => draft'[d] = draft[d]
  BY <1>1, <1>5
<1>7. DraftInv'
  <2>1. draft'[c].task = t /\ draft'[c].row = task[t]
    BY <1>1, <1>5
  <2>2. t \in born /\ ~(receipt[t].row.ver > 0) /\ task[t].ver > 0 /\ task[t].ver \in Nat
    BY <1>1, <1>2, VersionTypes DEF GraphInv, Known, Live
  <2>3. Past(t, task[t].ver)'
    BY <1>1, <2>2 DEF Past
  <2>4. Past(draft[c].task, draft[c].row.ver)'
    BY <1>1, <2>1, <2>3 DEF Past
  <2>5. ASSUME NEW d \in Editors, d # c, draft'[d].task # NoTask
        PROVE  /\ Past(draft[d].task, draft[d].row.ver)' /\ draft'[d].row.ver > 0
               /\ task'[draft'[d].task].ver = draft'[d].row.ver => Shown(task'[draft'[d].task]) = Shown(draft'[d].row)
    BY <1>1, <1>2, <1>6, <2>5 DEF DraftInv, Past
  <2> QED BY <1>1, <2>1, <2>2, <2>4, <2>5 DEF DraftInv
<1>8. TxInv'
  <2>1. tx.kind = "reopen" => draft'[tx.editor] = draft[tx.editor]
    BY <1>1, <1>6 DEF GraphInv, ReopenInv
  <2> QED BY <1>1, <1>2, <2>1 DEF TxInv, NextOf, Kept
<1> QED BY <1>3, <1>4, <1>7, <1>8 DEF VersionInv

\* Reopening reads the one successor there is, before anybody has changed it.
LEMMA BeginReopenAges ==
  ASSUME GraphInv, VersionInv, TypeOK', NEW c \in Editors, NEW r \in Rows, BeginReopen(c, r)
  PROVE  Aging /\ VersionInv'
<1> DEFINE t == draft[c].task
<1>1. UNCHANGED <<task, receipt, reopened, draft, copy, born>> /\ Admitted(c, r, "none")
  BY DEF BeginReopen
<1>0. \A v \in Tasks : Kept(v)' => Kept(v)
  BY <1>1 DEF Kept
<1>2. Aging /\ DraftInv' /\ SuccInv' /\ SourceInv' /\ NextInv' /\ BlockInv'
  BY <1>0, <1>1, StillStep
<1>3. PICK u \in NextOf(t) \cup {NoTask} :
        /\ u = NoTask => NextOf(t) = {}
        /\ u # NoTask => ~task[u].done
        /\ tx' = [NoTx EXCEPT !.kind = "reopen", !.editor = c, !.request = r, !.next = u]
  BY DEF BeginReopen
<1>4. tx'.kind = "reopen" /\ tx'.editor = c /\ tx'.next = u /\ tx'.rows = {}
  BY <1>3 DEF NoTx
<1>5. NextOf(t) = {u} \cap Tasks
  <2>1. NoTask \notin Tasks /\ NextOf(t) \subseteq Tasks
    BY GraphAssumption DEF NextOf
  <2>2. \A v, w \in NextOf(t) : v = w
    <3>1. t # NoTask
      BY <1>1, <2>1 DEF Admitted, Live
    <3> QED BY <3>1 DEF NextOf, VersionInv, SuccInv
  <2> QED BY <1>3, <2>1, <2>2
<1>6. task[t].ver = draft[c].row.ver
  BY <1>1 DEF Admitted
<1>7. TxInv'
  BY <1>1, <1>3, <1>4, <1>5, <1>6 DEF TxInv, NextOf, Kept
<1> QED BY <1>2, <1>7 DEF VersionInv

\* Calendar edits, jobs and the daily review count the version up and touch no source.
LEMMA ContentAges ==
  ASSUME GraphInv, VersionInv, TypeOK', NEW t \in Tasks,
         RemoveBlock(t) \/ (\E b \in Blocks : MoveBlock(t, b)) \/ \E d \in Dues : Reschedule(t, d)
  PROVE  Aging /\ VersionInv'
<1>1. TypeOK /\ DraftInv /\ SuccInv /\ SourceInv /\ NextInv /\ BlockInv /\ TxInv
  BY DEF GraphInv, VersionInv
<1>2. task \in [Tasks -> Rows] /\ task[t] \in Rows
  BY <1>1 DEF TypeOK
<1>3. task[t].ver \in Nat
  BY <1>2 DEF Rows
<1>4. /\ UNCHANGED <<receipt, reopened, born, tx, draft>> /\ t \in Live /\ t \notin tx.rows /\ t \notin Locked
  BY DEF RemoveBlock, MoveBlock, Reschedule, Visible
<1>kept. \A u \in Tasks : Kept(u)' => Kept(u) /\ (RemoveBlock(t) => u # t)
  <2>1. copy \in [Tasks -> Copies]
    BY <1>1 DEF TypeOK
  <2>2. CASE RemoveBlock(t)
    BY <2>1, <2>2, RemovedCopy DEF RemoveBlock, Kept
  <2>3. CASE ~RemoveBlock(t)
    BY <2>3 DEF MoveBlock, Reschedule, Kept
  <2> QED BY <2>2, <2>3
<1>5. /\ \A u \in Tasks : u # t => task'[u] = task[u]
      /\ task'[t].ver = task[t].ver + 1 /\ task'[t].source = task[t].source
  <2>1. CASE RemoveBlock(t)
    BY <2>1, <1>2 DEF RemoveBlock, Rows
  <2>2. ASSUME NEW b \in Blocks, MoveBlock(t, b)
        PROVE  /\ \A u \in Tasks : u # t => task'[u] = task[u]
               /\ task'[t].ver = task[t].ver + 1 /\ task'[t].source = task[t].source
    BY <2>2, <1>2 DEF MoveBlock, Rows
  <2>3. ASSUME NEW d \in Dues, Reschedule(t, d)
        PROVE  /\ \A u \in Tasks : u # t => task'[u] = task[u]
               /\ task'[t].ver = task[t].ver + 1 /\ task'[t].source = task[t].source
    BY <2>3, <1>2 DEF Reschedule, Rows
  <2> QED BY <2>1, <2>2, <2>3
<1>6. task'[t].done = task[t].done
  <2>1. CASE RemoveBlock(t)
    BY <2>1, <1>2, Zenon DEF RemoveBlock, Rows
  <2>2. ASSUME NEW b \in Blocks, MoveBlock(t, b) PROVE task'[t].done = task[t].done
    BY <2>2, <1>2, Zenon DEF MoveBlock, Rows
  <2>3. ASSUME NEW d \in Dues, Reschedule(t, d) PROVE task'[t].done = task[t].done
    BY <2>3, <1>2, Zenon DEF Reschedule, Rows
  <2> QED BY <2>1, <2>2, <2>3
<1>7. Kept(t)' /\ task[t].block # 0 => task'[t].block # 0
  <2>2. ASSUME NEW b \in Blocks, MoveBlock(t, b) PROVE task'[t].block # 0
    BY <2>2, <1>2, GraphAssumption DEF MoveBlock, Rows
  <2>3. ASSUME NEW d \in Dues, Reschedule(t, d) PROVE task'[t].block = task[t].block
    BY <2>3, <1>2 DEF Reschedule, Rows
  <2> QED BY <1>kept, <2>2, <2>3
<1>8. \A u \in Tasks : /\ task'[u].source = task[u].source /\ task'[u].done = task[u].done
                       /\ (task'[u].ver > 0 <=> task[u].ver > 0)
                       /\ task[u].ver > 0 => Later(task[u], task'[u])
  BY <1>2, <1>3, <1>4, <1>5, <1>6 DEF Later, Live
<1>9. Aging /\ DraftInv' /\ SourceInv' /\ NextInv'
  BY <1>1, <1>4, <1>8, OrdinaryStep
<1>10. SuccInv'
  BY <1>1, <1>8, SuccKept, VersionTypes DEF SuccInv
<1>11. BlockInv'
  BY <1>1, <1>kept, <1>4, <1>5, <1>7, <1>8 DEF BlockInv, TypeOK
<1>12. TxInv'
  <2>2. tx.kind = "reopen" => /\ draft[tx.editor].task # t /\ draft[tx.editor].task \in Tasks
    BY <1>4 DEF Locked, GraphInv, ReopenInv, Fits, LiveIn
  <2>3. tx.kind = "reopen" /\ tx.next # NoTask => task'[tx.next].done = task[tx.next].done
    BY <1>8 DEF GraphInv, ReopenInv, Live
  <2>4. tx.kind = "reopen" => NextOf(draft[tx.editor].task)' = NextOf(draft[tx.editor].task)
    BY <1>4, <1>8 DEF NextOf
  <2>5. tx.kind = "reopen" => task'[draft[tx.editor].task].ver = task[draft[tx.editor].task].ver
    BY <1>5, <2>2
  <2> QED BY <1>1, <1>kept, <1>4, <1>8, <2>3, <2>4, <2>5 DEF TxInv, TypeOK, Transactions
<1> QED BY <1>9, <1>10, <1>11, <1>12 DEF VersionInv

\* A new row has a new identifier, no source and no block in Google.
LEMMA NewRowAges ==
  ASSUME GraphInv, VersionInv, TypeOK', NEW t \in Tasks, t \in Fresh, NEW row \in Rows,
         row.source = NoTask, task' = [task EXCEPT ![t] = row],
         UNCHANGED <<receipt, draft, copy, reopened>>, born \subseteq born'
  PROVE  Aging /\ DraftInv' /\ SuccInv' /\ SourceInv' /\ NextInv' /\ BlockInv'
<1>1. TypeOK /\ DraftInv /\ SuccInv /\ SourceInv /\ NextInv /\ BlockInv
  BY DEF GraphInv, VersionInv
<1>2. t \notin born /\ ~(task[t].ver > 0)
  BY FreshTask DEF Live
<1>3. \A u \in Tasks : u # t => task'[u] = task[u]
  BY <1>1 DEF TypeOK
<1>4. task'[t] = row
  BY <1>1 DEF TypeOK
<1>5. Aging /\ DraftInv' /\ SourceInv' /\ NextInv'
  BY <1>1, <1>2, <1>3, <1>4, OrdinaryStep DEF Later
<1>6. SuccInv'
  <2>1. \A u \in Tasks : task'[u].source # NoTask =>
          /\ task'[u].source = task[u].source /\ task[u].source \in Tasks
          /\ task[task[u].source].ver > 0 /\ task[task[u].source].done
    BY <1>1, <1>3, <1>4, VersionTypes DEF SuccInv
  <2> QED BY <1>1, <1>2, <1>3, <2>1, SuccKept
<1>7. BlockInv'
  BY <1>1, <1>2, <1>3 DEF BlockInv, TypeOK, Kept
<1> QED BY <1>5, <1>6, <1>7

\* create_task
LEMMA CreateAges ==
  ASSUME GraphInv, VersionInv, TypeOK', NEW t \in Tasks, NEW r \in Rows, CreateTask(t, r)
  PROVE  Aging /\ VersionInv'
<1>1. /\ t \in Fresh /\ task' = [task EXCEPT ![t] = NewRow(r)] /\ tx' = NoTx
      /\ UNCHANGED <<receipt, draft, copy, reopened>> /\ born \subseteq born'
  BY DEF CreateTask, LockFree
<1>2. NewRow(r) \in Rows /\ NewRow(r).source = NoTask
  BY NewRowTyped, NewRowFields
<1> QED BY <1>1, <1>2, NewRowAges, TxOver DEF VersionInv

\* A row of an import is unknown to everything outside it.
LEMMA ImportRowAges ==
  ASSUME GraphInv, VersionInv, TypeOK', NEW t \in Tasks, NEW r \in Rows, ImportRow(t, r)
  PROVE  Aging /\ VersionInv'
<1> DEFINE row == [NewRow(r) EXCEPT !.project = tx.project]
<1>1. /\ t \in Fresh /\ task' = [task EXCEPT ![t] = row] /\ tx.kind = "import"
      /\ tx' = [tx EXCEPT !.rows = @ \cup {t}]
      /\ UNCHANGED <<receipt, draft, copy, reopened>> /\ born \subseteq born'
  BY DEF ImportRow
<1>2. TypeOK /\ TxInv /\ BlockInv /\ SuccInv
  BY DEF GraphInv, VersionInv
<1>3. NewRow(r) \in Rows /\ NewRow(r).source = NoTask /\ tx.project \in Projects
  BY <1>1, NewRowTyped, NewRowFields DEF GraphInv, ImportInv
<1>4. row \in Rows /\ row.source = NoTask
  BY <1>3 DEF Rows
<1> HIDE DEF row
<1>5. Aging /\ DraftInv' /\ SuccInv' /\ SourceInv' /\ NextInv' /\ BlockInv'
  BY <1>1, <1>4, NewRowAges
<1>6. tx'.kind = "import" /\ tx'.rows = tx.rows \cup {t}
  BY <1>1, <1>2 DEF TypeOK, Transactions
<1>7. ~(task[t].ver > 0) /\ t # NoTask
  BY <1>1, FreshTask DEF Live
<1>8. \A u \in Tasks : task'[u].source \notin tx'.rows
  <2>1. \A u \in Tasks : task[u].source # t /\ task[u].source \notin tx.rows
    BY <1>2, <1>7 DEF SuccInv, TxInv
  <2>2. NoTask \notin tx.rows
    BY <1>2, GraphAssumption DEF TypeOK, Transactions
  <2> QED BY <1>1, <1>2, <1>4, <1>6, <1>7, <2>1, <2>2 DEF TypeOK
<1>9. ~Kept(t)
  BY <1>2, <1>7 DEF BlockInv
<1>10. TxInv'
  BY <1>1, <1>2, <1>6, <1>8, <1>9 DEF TxInv, Kept
<1> QED BY <1>5, <1>10 DEF VersionInv

\* An import that fails takes its rows back.
LEMMA AbortImportAges ==
  ASSUME GraphInv, VersionInv, TypeOK', AbortImport
  PROVE  Aging /\ VersionInv'
<1>1. /\ task' = [t \in Tasks |-> IF t \in tx.rows THEN NoRow ELSE task[t]] /\ tx' = NoTx
      /\ UNCHANGED <<receipt, draft, copy, reopened, born>>
  BY DEF AbortImport
<1>2. TypeOK /\ DraftInv /\ SuccInv /\ SourceInv /\ NextInv /\ BlockInv /\ TxInv
  BY DEF GraphInv, VersionInv
<1>3. NoRow.ver = 0 /\ NoRow.source = NoTask
  BY DEF NoRow
<1>4. \A u \in Tasks : IF u \in tx.rows THEN task'[u] = NoRow ELSE task'[u] = task[u]
  BY <1>1
<1>5. Aging /\ DraftInv' /\ SourceInv' /\ NextInv'
  BY <1>1, <1>2, <1>3, <1>4, OrdinaryStep DEF Later
<1>6. SuccInv'
  <2>1. \A u \in Tasks : task'[u].source # NoTask =>
          /\ task'[u].source = task[u].source /\ task[u].source \in Tasks /\ task[u].source \notin tx.rows
          /\ task[task[u].source].ver > 0 /\ task[task[u].source].done
    BY <1>2, <1>3, <1>4, VersionTypes DEF SuccInv, TxInv
  <2> QED BY <1>2, <1>4, <2>1, SuccKept
<1>7. BlockInv'
  BY <1>1, <1>2, <1>4 DEF BlockInv, TxInv, TypeOK, Transactions, Kept
<1> QED BY <1>1, <1>5, <1>6, <1>7, TxOver DEF VersionInv

\* Saving keeps a completed task completed.
LEMMA SaveAges ==
  ASSUME GraphInv, VersionInv, TypeOK', NEW c \in Editors, NEW r \in Rows, NEW scope \in Scopes,
         SaveTask(c, r, scope)
  PROVE  Aging /\ VersionInv'
<1> DEFINE t == draft[c].task
           row == UpdatedRow(task[t], r, scope)
<1>1. /\ Admitted(c, r, scope) /\ task' = [task EXCEPT ![t] = row] /\ copy' = Remapped(t, row)
      /\ draft' = [draft EXCEPT ![c] = NoDraft] /\ tx' = NoTx /\ (task[t].done => r.done)
      /\ UNCHANGED <<receipt, born, reopened>>
  BY DEF SaveTask, Admitted, LockFree
<1>2. TypeOK /\ DraftInv /\ SuccInv /\ SourceInv /\ NextInv /\ BlockInv
  BY DEF GraphInv, VersionInv
<1>3. t \in Tasks /\ task[t] \in Rows /\ task[t].ver > 0 /\ task[t].ver \in Nat
  BY <1>1, <1>2, VersionTypes DEF Admitted, Live
<1>4. row.ver = task[t].ver + 1 /\ row.source = task[t].source /\ row.done = r.done
  BY <1>3, UpdatedFields, UpdatedContent
<1> HIDE DEF row
<1>5. task'[t] = row /\ \A u \in Tasks : u # t => task'[u] = task[u]
  BY <1>1, <1>2, <1>3 DEF TypeOK
<1>6. \A u \in Tasks : u \in born /\ task'[u].ver > 0 => task[u].ver > 0 /\ Later(task[u], task'[u])
  BY <1>3, <1>4, <1>5 DEF Later
<1>7. Aging /\ DraftInv' /\ SourceInv' /\ NextInv'
  <2>1. \A u \in Tasks : task'[u].source = task[u].source
    BY <1>4, <1>5
  <2> QED BY <1>1, <1>2, <1>6, <2>1, OrdinaryStep, DraftClosed
<1>8. SuccInv'
  <2>1. \A u \in Tasks : task'[u].source # NoTask =>
          /\ task'[u].source = task[u].source /\ task[u].source \in Tasks
          /\ task[task[u].source].ver > 0 /\ task[task[u].source].done
    BY <1>2, <1>4, <1>5, VersionTypes DEF SuccInv
  <2>2. task[t].done => task'[t].ver > 0 /\ task'[t].done
    BY <1>1, <1>3, <1>4, <1>5
  <2>3. \A u \in Tasks : task'[u].source # NoTask =>
          task'[task[u].source].ver > 0 /\ task'[task[u].source].done
    BY <1>5, <2>1, <2>2
  <2> QED BY <1>2, <2>1, <2>3, SuccKept
<1>9. BlockInv'
  <2>1. \A u \in Tasks : Kept(u)' => Kept(u) /\ (row.block = 0 => u # t)
    BY <1>1, <1>2, <1>3, RemappedKept DEF Kept
  <2> QED BY <1>1, <1>2, <1>3, <1>4, <1>5, <2>1 DEF BlockInv, TypeOK
<1> QED BY <1>1, <1>7, <1>8, <1>9, TxOver DEF VersionInv

\* A task that is completed had no successor, so that it gets its only one.
LEMMA CompleteAges ==
  ASSUME GraphInv, VersionInv, TypeOK', NEW c \in Editors, NEW s \in Tasks, NEW r \in Rows,
         NEW scope \in Scopes, CompleteRepeating(c, s, r, scope)
  PROVE  Aging /\ VersionInv'
<1> DEFINE t == draft[c].task
           row == UpdatedRow(task[t], r, scope)
           next == Successor(t, row)
<1>1. /\ Admitted(c, r, scope) /\ task' = [task EXCEPT ![t] = row, ![s] = next]
      /\ copy' = Remapped(t, row) /\ draft' = [draft EXCEPT ![c] = NoDraft] /\ tx' = NoTx
      /\ ~task[t].done /\ r.done /\ s \in Fresh /\ born \subseteq born'
      /\ UNCHANGED <<receipt, reopened>>
  BY DEF CompleteRepeating, Admitted, LockFree
<1>2. TypeOK /\ DraftInv /\ SuccInv /\ SourceInv /\ NextInv /\ BlockInv
  BY DEF GraphInv, VersionInv
<1>3. t \in Tasks /\ task[t] \in Rows /\ task[t].ver > 0 /\ task[t].ver \in Nat /\ t # NoTask
  BY <1>1, <1>2, VersionTypes, GraphAssumption DEF Admitted, Live
<1>4. row.ver = task[t].ver + 1 /\ row.source = task[t].source /\ row.done
  BY <1>1, <1>3, UpdatedFields, UpdatedContent
<1>5. next.source = t
  BY DEF Successor, NoRow
<1>6. s \notin born /\ ~(task[s].ver > 0) /\ s # t
  BY <1>1, <1>3, FreshTask DEF Live
<1> HIDE DEF row, next
<1>7. task'[t] = row /\ task'[s] = next /\ \A u \in Tasks : u # t /\ u # s => task'[u] = task[u]
  BY <1>1, <1>2, <1>3, <1>6 DEF TypeOK
<1>8. \A u \in Tasks : u \in born /\ task'[u].ver > 0 => task[u].ver > 0 /\ Later(task[u], task'[u])
  BY <1>3, <1>4, <1>6, <1>7 DEF Later
<1>9. \A u \in Tasks : u # s => task'[u].source = task[u].source
  BY <1>4, <1>7
<1>10. task'[t].ver > task[t].ver
  BY <1>3, <1>4, <1>7
<1>11. Aging /\ DraftInv' /\ SourceInv' /\ NextInv'
  <2>1. \A u \in Tasks : task'[u].source # NoTask =>
          \/ task'[u].source = task[u].source
          \/ task[task'[u].source].ver > 0 /\ task'[task'[u].source].ver > task[task'[u].source].ver
    BY <1>3, <1>5, <1>7, <1>9, <1>10
  <2>2. \A d \in Editors : draft'[d] = draft[d] \/ draft'[d].task = NoTask
    BY <1>1, <1>2, DraftClosed
  <2>3. receipt' = receipt /\ born \subseteq born'
    BY <1>1
  <2> QED BY <1>2, <1>8, <2>1, <2>2, <2>3, OrdinaryStep
<1>12. SuccInv'
  <2>1. \A u \in Tasks : task[u].source # t
    BY <1>1, <1>2, <1>3 DEF SuccInv
  <2>2. \A u \in Tasks : task[u].source # NoTask =>
          /\ task[u].source \in Tasks /\ task[u].source # t /\ task[u].source # s
          /\ task[task[u].source].ver > 0 /\ task[task[u].source].done
    BY <1>2, <1>6, <2>1, VersionTypes DEF SuccInv
  <2>3. task'[s].source = t /\ task'[t].ver > 0 /\ task'[t].done
    BY <1>3, <1>4, <1>5, <1>7
  <2>4. ASSUME NEW u \in Tasks, u # s, task'[u].source # NoTask
        PROVE  /\ task'[task'[u].source].ver > 0 /\ task'[task'[u].source].done
               /\ \A v \in Tasks : v # u => task'[v].source # task'[u].source
    <3>1. task'[u].source = task[u].source
      BY <1>9, <2>4
    <3>2. task'[task[u].source] = task[task[u].source]
      BY <1>7, <2>2, <2>4, <3>1
    <3>3. \A v \in Tasks : v # u /\ v # s => task'[v].source # task'[u].source
      BY <1>2, <1>9, <2>4, <3>1 DEF SuccInv
    <3> QED BY <2>2, <2>3, <2>4, <3>1, <3>2, <3>3
  <2>5. \A v \in Tasks : v # s => task'[v].source # t
    BY <1>9, <2>1
  <2> QED BY <2>3, <2>4, <2>5 DEF SuccInv
<1>13. BlockInv'
  <2>1. \A u \in Tasks : Kept(u)' => Kept(u) /\ (row.block = 0 => u # t)
    BY <1>1, <1>2, <1>3, RemappedKept DEF Kept
  <2>2. ~Kept(s)
    BY <1>2, <1>6 DEF BlockInv
  <2> QED BY <1>1, <1>2, <1>3, <1>4, <1>7, <2>1, <2>2 DEF BlockInv, TypeOK
<1> QED BY <1>1, <1>11, <1>12, <1>13, TxOver DEF VersionInv

\* Reopening removes the only successor, which has no successor itself.
LEMMA FinishReopenAges ==
  ASSUME GraphInv, VersionInv, TypeOK', FinishReopen
  PROVE  Aging /\ VersionInv'
<1> DEFINE t == draft[tx.editor].task
           gone == {tx.next} \cap Tasks
           row == UpdatedRow(task[t], tx.request, "none")
           U == Without(gone)
<1>1. /\ tx.kind = "reopen" /\ task' = [U EXCEPT ![t] = row]
      /\ copy' = [u \in Tasks |-> IF u \in gone THEN Abandoned(copy[u]) ELSE Remapped(t, row)[u]]
      /\ reopened' = reopened \cup gone /\ draft' = [draft EXCEPT ![tx.editor] = NoDraft] /\ tx' = NoTx
      /\ UNCHANGED <<receipt, born>>
  BY DEF FinishReopen
<1>2. TypeOK /\ DraftInv /\ SuccInv /\ SourceInv /\ NextInv /\ BlockInv /\ TxInv
      /\ Sound(task, imported) /\ Repeats
  BY DEF GraphInv, VersionInv
<1>3. /\ t \in Tasks /\ task[t] \in Rows /\ task[t].ver > 0 /\ task[t].ver \in Nat /\ tx.request \in Rows
      /\ tx.next # NoTask => tx.next \in Live /\ tx.next # t
  BY <1>1, <1>2, VersionTypes DEF GraphInv, ReopenInv, Fits, LiveIn, TypeOK, Transactions
<1>4. row.ver = task[t].ver + 1 /\ row.source = task[t].source
  BY <1>3, UpdatedFields DEF Scopes
<1>5. NextOf(t) = gone /\ gone \in SUBSET Tasks /\ t \notin gone
  <2>1. NextOf(t) = gone
    BY <1>1, <1>2 DEF TxInv
  <2>2. NoTask \notin Tasks
    BY GraphAssumption
  <2> QED BY <1>3, <2>1, <2>2
<1>6. \A u \in Tasks : task[u].source \notin gone
  <2>1. NoTask \notin gone
    BY GraphAssumption
  <2>2. \A x \in gone : ~task[x].done
    BY <1>1, <1>2, <2>1 DEF TxInv
  <2> QED BY <1>2, <2>1, <2>2 DEF SuccInv
<1> HIDE DEF gone, row
<1>7. /\ \A u \in Tasks : u \in gone => U[u] = NoRow
      /\ \A u \in Tasks : u \notin gone => U[u] = task[u]
      /\ U \in [Tasks -> Rows]
  BY <1>2, <1>5, <1>6, WithoutTyped DEF Without
<1> HIDE DEF U
<1>8. /\ task'[t] = row /\ \A u \in Tasks : u \in gone => task'[u] = NoRow
      /\ \A u \in Tasks : u \notin gone /\ u # t => task'[u] = task[u]
  BY <1>1, <1>3, <1>5, <1>7
<1>9. NoRow.ver = 0 /\ NoRow.source = NoTask
  BY DEF NoRow
<1>10. \A u \in Tasks : u \in born /\ task'[u].ver > 0 => task[u].ver > 0 /\ Later(task[u], task'[u])
  BY <1>3, <1>4, <1>8, <1>9 DEF Later
<1>11. \A u \in Tasks : task'[u].source # NoTask => u \notin gone /\ task'[u].source = task[u].source
  BY <1>4, <1>8, <1>9
<1>12. Aging /\ DraftInv' /\ SourceInv' /\ NextInv'
  BY <1>1, <1>2, <1>10, <1>11, OrdinaryStep, DraftClosed
<1>13. SuccInv'
  <2>1. \A u \in Tasks : task[u].source # NoTask /\ u \notin gone => task[u].source # t
    <3>1. \A u \in Tasks : task[u].source # NoTask => task[u].ver > 0
      <4>1. \A u \in Tasks : task[u].ver = 0 => task[u] = NoRow
        BY <1>2 DEF Sound
      <4> QED BY <1>2, <1>9, <4>1, VersionTypes
    <3> QED BY <1>5, <3>1 DEF NextOf
  <2>2. \A u \in Tasks : task'[u].source # NoTask =>
          /\ task[u].source \in Tasks /\ task[u].source \notin gone /\ task[u].source # t
          /\ task[task[u].source].ver > 0 /\ task[task[u].source].done
    BY <1>2, <1>6, <1>11, <2>1, VersionTypes DEF SuccInv
  <2> QED BY <1>2, <1>8, <1>11, <2>2, SuccKept
<1>14. BlockInv'
  <2>1. \A u \in Tasks : Kept(u)' => Kept(u) /\ u \notin gone /\ (row.block = 0 => u # t)
    BY <1>1, <1>2, <1>3, RemappedKept, RemovedCopy DEF Kept, TypeOK
  <2> QED BY <1>1, <1>2, <1>3, <1>4, <1>8, <2>1 DEF BlockInv, TypeOK
<1> QED BY <1>1, <1>12, <1>13, <1>14, TxOver DEF VersionInv

\* delete_project takes the rows of the project, cuts the sources among them, and the
\* trigger counts the version of the rows whose defaults it changes.
LEMMA DeleteProjectAges ==
  ASSUME GraphInv, VersionInv, TypeOK', NEW p \in Projects, DeleteProject(p)
  PROVE  Aging /\ VersionInv'
<1> DEFINE gone == {t \in Tasks : task[t].project = p}
           U == Without(gone)
<1>1. /\ task' = [t \in Tasks |-> Unassigned(U[t], p)] /\ tx' = NoTx
      /\ copy' = [t \in Tasks |-> IF t \in gone THEN Removed(copy[t]) ELSE copy[t]]
      /\ UNCHANGED <<receipt, draft, born, reopened>>
  BY DEF DeleteProject, LockFree
<1>2. TypeOK /\ DraftInv /\ SuccInv /\ SourceInv /\ NextInv /\ BlockInv /\ Sound(task, imported)
  BY DEF GraphInv, VersionInv
<1>3. gone \in SUBSET Tasks
  OBVIOUS
<1> HIDE DEF gone
<1>4. U \in [Tasks -> Rows]
  BY <1>2, WithoutTyped
<1>5. \A u \in gone : U[u] = NoRow
  BY <1>3 DEF Without
<1>6. \A u \in Tasks : u \notin gone =>
         /\ U[u].ver = task[u].ver /\ Shown(U[u]) = Shown(task[u]) /\ U[u].done = task[u].done
         /\ U[u].block = task[u].block
         /\ U[u].source = IF task[u].source \in gone THEN NoTask ELSE task[u].source
  BY <1>2, <1>3, WithoutContent
<1> HIDE DEF U
<1>7. \A u \in Tasks : /\ task'[u] = U[u] \/ task'[u].ver = U[u].ver + 1
                       /\ task'[u].source = U[u].source /\ task'[u].block = U[u].block
  <2> SUFFICES ASSUME NEW u \in Tasks
               PROVE  /\ task'[u] = U[u] \/ task'[u].ver = U[u].ver + 1
                      /\ task'[u].source = U[u].source /\ task'[u].block = U[u].block
    OBVIOUS
  <2>1. U[u] \in Rows /\ task'[u] = Unassigned(U[u], p)
    BY <1>1, <1>4
  <2>2. CASE U[u].base.project = p
    <3>1. task'[u] = [U[u] EXCEPT !.base.project = NoProject, !.ver = @ + 1]
      BY <2>1, <2>2 DEF Unassigned
    <3> QED BY <2>1, <3>1 DEF Rows
  <2>3. CASE U[u].base.project # p
    BY <2>1, <2>3 DEF Unassigned
  <2> QED BY <2>2, <2>3
<1>8. \A u \in Tasks : task'[u].done = U[u].done
  <2> SUFFICES ASSUME NEW u \in Tasks PROVE task'[u].done = U[u].done
    OBVIOUS
  <2>1. U[u] \in Rows /\ task'[u] = Unassigned(U[u], p)
    BY <1>1, <1>4
  <2> QED BY <2>1, Zenon DEF Unassigned, Rows
<1>9. NoRow.ver = 0 /\ NoRow.source = NoTask /\ NoRow.base.project # p
  BY GraphAssumption DEF NoRow, NoBase
<1>10. \A u \in gone : task'[u] = NoRow
  BY <1>1, <1>3, <1>5, <1>9 DEF Unassigned
<1>11. \A u \in Tasks : u \notin gone /\ task[u].ver > 0 => task'[u].ver > 0 /\ Later(task[u], task'[u])
  BY <1>2, <1>6, <1>7, VersionTypes DEF Later
<1>12. \A u \in Tasks : u \notin gone /\ ~(task[u].ver > 0) => ~(task'[u].ver > 0)
  <2> SUFFICES ASSUME NEW u \in Tasks, u \notin gone, ~(task[u].ver > 0) PROVE ~(task'[u].ver > 0)
    OBVIOUS
  <2>1. task[u] = NoRow
    BY <1>2, VersionTypes DEF Sound
  <2>2. U[u] = NoRow
    <3>1. NoRow.source \notin gone
      BY <1>3, <1>9, GraphAssumption
    <3> QED BY <2>1, <3>1 DEF U, Without
  <2>3. task'[u] = Unassigned(NoRow, p)
    BY <1>1, <2>2
  <2>4. task'[u] = NoRow
    BY <1>9, <2>3 DEF Unassigned
  <2> QED BY <1>9, <2>4
<1>13. \A u \in Tasks : task'[u].source # NoTask =>
          u \notin gone /\ task'[u].source = task[u].source /\ task[u].source \notin gone
  BY <1>6, <1>7, <1>9, <1>10
<1>14. Aging /\ DraftInv' /\ SourceInv' /\ NextInv'
  <2>1. \A u \in Tasks : u \in born /\ task'[u].ver > 0 => task[u].ver > 0 /\ Later(task[u], task'[u])
    BY <1>9, <1>10, <1>11, <1>12
  <2> QED BY <1>1, <1>2, <1>13, <2>1, OrdinaryStep
<1>15. SuccInv'
  <2>1. \A u \in Tasks : task'[u].source # NoTask =>
          /\ task[u].source \in Tasks /\ task[u].source \notin gone
          /\ task[task[u].source].ver > 0 /\ task[task[u].source].done
    BY <1>2, <1>13, VersionTypes DEF SuccInv
  <2>2. \A u \in Tasks : u \notin gone => task'[u].done = task[u].done
    BY <1>6, <1>8
  <2> QED BY <1>2, <1>11, <1>13, <2>1, <2>2, SuccKept
<1>16. BlockInv'
  <2>1. \A u \in Tasks : u \notin gone => task'[u].block = task[u].block
    BY <1>6, <1>7
  <2>2. \A u \in Tasks : Kept(u)' => Kept(u) /\ u \notin gone
    BY <1>1, <1>2, RemovedCopy DEF Kept, TypeOK
  <2> QED BY <1>1, <1>2, <1>11, <2>1, <2>2 DEF BlockInv, TypeOK
<1> QED BY <1>1, <1>14, <1>15, <1>16, TxOver DEF VersionInv

\* The rows after t is deleted.
LEMMA TaskGone ==
  ASSUME GraphInv, VersionInv, NEW t \in Tasks, t \in Live, task' = Without({t})
  PROVE  /\ task'[t] = NoRow
         /\ \A u \in Tasks : u # t =>
              /\ task'[u].ver = task[u].ver /\ Shown(task'[u]) = Shown(task[u])
              /\ task'[u].done = task[u].done /\ task'[u].block = task[u].block
              /\ task'[u].source = IF task[u].source = t THEN NoTask ELSE task[u].source
         /\ \A u \in Tasks : task'[u].source # NoTask => /\ task'[u].source = task[u].source
                                                         /\ u # t /\ task[u].source # t
         /\ SuccInv'
<1>1. TypeOK /\ SuccInv /\ Sound(task, imported) /\ {t} \in SUBSET Tasks
  BY DEF GraphInv, VersionInv
<1>2. task'[t] = NoRow
  BY DEF Without
<1>3. ASSUME NEW u \in Tasks, u # t
      PROVE  /\ task'[u].ver = task[u].ver /\ Shown(task'[u]) = Shown(task[u])
             /\ task'[u].done = task[u].done /\ task'[u].block = task[u].block
             /\ task'[u].source = IF task[u].source = t THEN NoTask ELSE task[u].source
  <2>1. u \notin {t} /\ (task[u].source \in {t} <=> task[u].source = t)
    BY <1>3
  <2> QED BY <1>1, <2>1, WithoutContent
<1>4. NoRow.source = NoTask
  BY DEF NoRow
<1>5. \A u \in Tasks : task'[u].source # NoTask => /\ task'[u].source = task[u].source
                                                   /\ u # t /\ task[u].source # t
  BY <1>2, <1>3, <1>4
<1>6. \A u \in Tasks : task'[u].source # NoTask =>
          /\ task[u].source \in Tasks
          /\ task[task[u].source].ver > 0 /\ task[task[u].source].done
  BY <1>1, <1>5, VersionTypes DEF SuccInv
<1>7. SuccInv'
  BY <1>1, <1>3, <1>5, <1>6, SuccKept
<1> QED BY <1>2, <1>3, <1>5, <1>7

\* delete_task
LEMMA DeleteAges ==
  ASSUME GraphInv, VersionInv, TypeOK', NEW c \in Editors, DeleteTask(c)
  PROVE  Aging /\ VersionInv'
<1> DEFINE t == draft[c].task
<1>1. /\ t \in Live /\ task' = Without({t}) /\ copy' = [copy EXCEPT ![t] = Removed(@)] /\ tx' = NoTx
      /\ draft' = [draft EXCEPT ![c] = NoDraft] /\ UNCHANGED <<receipt, born, reopened>>
  BY DEF DeleteTask, Deletable, LockFree
<1>2. TypeOK /\ DraftInv /\ SourceInv /\ NextInv /\ BlockInv /\ t \in Tasks
  BY <1>1 DEF GraphInv, VersionInv, Live
<1>3. /\ task'[t] = NoRow
      /\ \A u \in Tasks : u # t => /\ task'[u].ver = task[u].ver /\ Shown(task'[u]) = Shown(task[u])
                                   /\ task'[u].block = task[u].block
      /\ \A u \in Tasks : task'[u].source # NoTask => task'[u].source = task[u].source
      /\ SuccInv'
  BY <1>1, <1>2, TaskGone
<1>4. NoRow.ver = 0
  BY DEF NoRow
<1>5. Aging /\ DraftInv' /\ SourceInv' /\ NextInv'
  <2>1. \A u \in Tasks : u \in born /\ task'[u].ver > 0 => task[u].ver > 0 /\ Later(task[u], task'[u])
    BY <1>3, <1>4 DEF Later
  <2>2. \A d \in Editors : draft'[d] = draft[d] \/ draft'[d].task = NoTask
    BY <1>1, <1>2, DraftClosed
  <2>3. receipt' = receipt /\ born \subseteq born'
    BY <1>1
  <2> QED BY <1>2, <1>3, <2>1, <2>2, <2>3, OrdinaryStep
<1>6. BlockInv'
  <2>1. \A u \in Tasks : Kept(u)' => Kept(u) /\ u # t
    BY <1>1, <1>2, RemovedCopy DEF Kept, TypeOK
  <2> QED BY <1>1, <1>2, <1>3, <2>1 DEF BlockInv, TypeOK
<1> QED BY <1>1, <1>3, <1>5, <1>6, TxOver DEF VersionInv

\* delete_task_with_undo: the receipt names the source while the source has no other
\* successor, and the one successor of the task.
LEMMA DeleteWithUndoAges ==
  ASSUME GraphInv, VersionInv, TypeOK', NEW c \in Editors, DeleteWithUndo(c)
  PROVE  Aging /\ VersionInv'
<1> DEFINE t == draft[c].task
           deps == NextOf(t) \cup ({task[t].parent, task[t].source} \cap Tasks)
           rec == receipt'[t]
<1>1. /\ t \in Live /\ task' = Without({t}) /\ copy' = [copy EXCEPT ![t] = Removed(@)] /\ tx' = NoTx
      /\ draft' = [draft EXCEPT ![c] = NoDraft] /\ UNCHANGED <<born, reopened>>
  BY DEF DeleteWithUndo, Deletable, LockFree
<1>2. TypeOK /\ DraftInv /\ SuccInv /\ SourceInv /\ NextInv /\ BlockInv /\ t \in Tasks /\ Repeats /\ Known
      /\ NoTask \notin Tasks
  BY <1>1, GraphAssumption DEF GraphInv, VersionInv, Live
<1>3. /\ \A u \in Tasks : u # t => receipt'[u] = receipt[u]
      /\ rec.row = task[t] /\ rec.next = NextOf(t)
      /\ \A u \in deps : rec.seen[u] = task'[u]
  <2>1. receipt' = [receipt EXCEPT ![t] =
          [row |-> task[t], next |-> NextOf(t),
           seen |-> [u \in Tasks |-> IF u \in deps THEN Without({t})[u] ELSE NoRow],
           pver |-> [p \in Projects |->
                      IF p \in {task[t].project, task[t].base.project} THEN projects[p] ELSE 0],
           mapped |-> copy[t] = "mapped"]]
    BY DEF DeleteWithUndo
  <2>2. receipt \in [Tasks -> Receipts]
    BY <1>2 DEF TypeOK
  <2>3. rec = [row |-> task[t], next |-> NextOf(t),
               seen |-> [u \in Tasks |-> IF u \in deps THEN Without({t})[u] ELSE NoRow],
               pver |-> [p \in Projects |->
                          IF p \in {task[t].project, task[t].base.project} THEN projects[p] ELSE 0],
               mapped |-> copy[t] = "mapped"]
    BY <1>2, <2>1, <2>2
  <2>4. deps \subseteq Tasks
    BY DEF NextOf
  <2> QED BY <1>1, <1>2, <2>1, <2>2, <2>3, <2>4
<1>4. rec.mapped = (copy[t] = "mapped")
  <2>1. receipt \in [Tasks -> Receipts]
    BY <1>2 DEF TypeOK
  <2> QED BY <1>2, <2>1, Zenon DEF DeleteWithUndo
<1> HIDE DEF rec
<1>5. /\ task'[t] = NoRow
      /\ \A u \in Tasks : u # t =>
           /\ task'[u].ver = task[u].ver /\ Shown(task'[u]) = Shown(task[u])
           /\ task'[u].done = task[u].done /\ task'[u].block = task[u].block
           /\ task'[u].source = IF task[u].source = t THEN NoTask ELSE task[u].source
      /\ \A u \in Tasks : task'[u].source # NoTask => /\ task'[u].source = task[u].source
                                                      /\ u # t /\ task[u].source # t
      /\ SuccInv'
  BY <1>1, <1>2, TaskGone
<1>6. NoRow.ver = 0 /\ task[t].ver > 0 /\ task[t].ver \in Nat /\ t \in born /\ ~(receipt[t].row.ver > 0)
  BY <1>1, <1>2, VersionTypes DEF NoRow, Live, Known
<1>7. Aging
  <2>1. \A u \in Tasks : u \in born /\ task'[u].ver > 0 => task[u].ver > 0 /\ Later(task[u], task'[u])
    BY <1>5, <1>6 DEF Later
  <2>2. \A u \in Tasks : receipt'[u].row.ver > 0 =>
            \/ receipt[u].row.ver > 0 /\ receipt'[u].row.ver = receipt[u].row.ver
            \/ task[u].ver > 0 /\ receipt'[u].row.ver = task[u].ver
    BY <1>3, <1>6 DEF rec
  <2> QED BY <1>1, <2>1, <2>2 DEF Aging
<1>8. DraftInv'
  BY <1>1, <1>2, <1>7, DraftKept, DraftClosed
<1>9. NextInv'
  <2>1. NextSafe(rec)
    <3> SUFFICES ASSUME NEW u \in NextOf(t)
                 PROVE  rec.row.done /\ rec.seen[u].ver > 0 /\ rec.seen[u].source = NoTask /\ rec.next = {u}
      BY <1>3 DEF NextSafe
    <3>1. u \in Tasks /\ task[u].source = t /\ task[u].ver > 0 /\ t # NoTask
      BY <1>2 DEF NextOf
    <3>2. u # t
      BY <1>2, <3>1 DEF Repeats, Steady
    <3>3. rec.seen[u].ver > 0 /\ rec.seen[u].source = NoTask
      BY <1>3, <1>5, <3>1, <3>2
    <3>4. task[t].done /\ \A v \in Tasks : v # u => task[v].source # t
      BY <1>2, <3>1 DEF SuccInv
    <3>5. NextOf(t) = {u}
      BY <3>4 DEF NextOf
    <3> QED BY <1>3, <3>3, <3>4, <3>5
  <2> QED BY <1>2, <1>3, <2>1 DEF NextInv, rec
<1>10. SourceInv'
  <2> SUFFICES ASSUME NEW w \in Tasks, receipt'[w].row.ver > 0, receipt'[w].row.source # NoTask
               PROVE  SourceSafe(w)'
    BY DEF SourceInv
  <2>1. CASE w = t
    <3>1. PICK s \in Tasks : s = task[t].source
      BY <1>2, <1>3, <2>1, VersionTypes DEF rec
    <3>2. s # t /\ task[s].ver > 0 /\ task[s].done /\ task[s].ver \in Nat /\ s # NoTask
          /\ \A v \in Tasks : v # t => task[v].source # s
      BY <1>2, <3>1, VersionTypes DEF SuccInv, Repeats, Steady
    <3>3. s \in born /\ ~(receipt[s].row.ver > 0)
      BY <1>2, <3>2 DEF Known, Live
    <3>4. rec.seen[s] = task'[s] /\ task'[s].ver = task[s].ver /\ task'[s].done
      BY <1>3, <1>5, <3>1, <3>2
    <3>5. Past(s, task[s].ver)'
      BY <1>1, <1>3, <3>2, <3>3, <3>4 DEF Past
    <3>6. \A u \in Tasks : task'[u].source # s
      BY <1>5, <3>2
    <3>7. ASSUME NEW v \in Tasks, v # t, receipt'[v].row.ver > 0, receipt'[v].row.source = s
          PROVE  receipt'[v].seen[s].ver # rec.seen[s].ver
      <4>1. receipt'[v] = receipt[v] /\ receipt[v].row.ver > 0 /\ receipt[v].row.source = s
        BY <1>3, <3>7
      <4>2. task[s].ver = receipt[v].seen[s].ver => \A u \in Tasks : task[u].source # s
        BY <1>2, <3>2, <4>1 DEF SourceInv, SourceSafe
      <4> QED BY <1>2, <3>1, <3>4, <4>1, <4>2
    <3>8. rec.row.source = s /\ receipt'[w] = rec
      BY <1>3, <2>1, <3>1 DEF rec
    <3>9. Past(receipt[w].row.source, receipt[w].seen[receipt[w].row.source].ver)'
      BY <3>4, <3>5, <3>8 DEF Past
    <3> QED BY <2>1, <3>2, <3>4, <3>6, <3>7, <3>8, <3>9 DEF SourceSafe
  <2>2. CASE w # t
    <3>1. receipt'[w] = receipt[w] /\ SourceSafe(w)
      BY <1>2, <1>3, <2>2 DEF SourceInv
    <3>2. PICK s \in Tasks, k \in Nat : receipt[w].row.source = s /\ receipt[w].seen[s].ver = k
      BY <1>2, <3>1, VersionTypes
    <3>3. k > 0 /\ receipt[w].seen[s].done /\ Past(s, k) /\ (task[s].ver = k => \A u \in Tasks : task[u].source # s)
      BY <3>1, <3>2 DEF SourceSafe
    <3>4. Past(s, k)' /\ (task'[s].ver = k => task[s].ver = k)
      BY <1>2, <1>7, <3>3, PastKept
    <3>5. task'[s].ver = k => \A u \in Tasks : task'[u].source # s
      BY <1>5, <2>2, <3>1, <3>2, <3>3, <3>4
    <3>6. ASSUME NEW v \in Tasks, v # w, receipt'[v].row.ver > 0, receipt'[v].row.source = s
          PROVE  receipt'[v].seen[s].ver # k
      <4>1. CASE v # t
        BY <1>3, <3>1, <3>2, <3>6, <4>1 DEF SourceSafe
      <4>2. CASE v = t
        <5>1. task[t].source = s /\ s # NoTask
          BY <1>3, <2>2, <3>1, <3>2, <3>6, <4>2 DEF rec
        <5>2. s # t
          BY <1>2, <5>1 DEF Repeats, Steady
        <5>3. rec.seen[s].ver = task[s].ver
          BY <1>3, <1>5, <5>1, <5>2
        <5>4. task[s].ver # k
          BY <1>2, <3>3, <5>1
        <5> QED BY <4>2, <5>3, <5>4 DEF rec
      <4> QED BY <4>1, <4>2
    <3>7. Past(receipt[w].row.source, receipt[w].seen[receipt[w].row.source].ver)'
      BY <3>1, <3>2, <3>4 DEF Past
    <3> QED BY <3>1, <3>2, <3>3, <3>5, <3>6, <3>7 DEF SourceSafe
  <2> QED BY <2>1, <2>2
<1>11. BlockInv'
  <2>1. copy[t] = "mapped" => task[t].block # 0
    BY <1>2 DEF BlockInv, Kept
  <2>2. \A u \in Tasks : Kept(u)' => task'[u].ver > 0 /\ task'[u].block # 0
    <3>1. \A u \in Tasks : Kept(u)' => Kept(u) /\ u # t
      BY <1>1, <1>2, RemovedCopy DEF Kept, TypeOK
    <3> QED BY <1>1, <1>2, <1>5, <3>1 DEF BlockInv, TypeOK
  <2>3. ASSUME NEW u \in Tasks, receipt'[u].row.ver > 0, receipt'[u].mapped
        PROVE  receipt'[u].row.block # 0
    <3>1. CASE u = t
      BY <1>1, <1>3, <1>4, <2>1, <2>3, <3>1 DEF rec
    <3>2. CASE u # t
      BY <1>1, <1>2, <1>3, <2>3, <3>2 DEF BlockInv
    <3> QED BY <3>1, <3>2
  <2> QED BY <2>2, <2>3 DEF BlockInv
<1> QED BY <1>1, <1>5, <1>7, <1>8, <1>9, <1>10, <1>11, TxOver DEF VersionInv

\* undo_task_delete: the source is as it was, so that it has no other successor, and so is
\* the successor, which has no other source.
LEMMA UndoAges ==
  ASSUME GraphInv, VersionInv, TypeOK', NEW t \in Tasks, UndoDelete(t)
  PROVE  Aging /\ VersionInv'
<1> DEFINE r == receipt[t]
           row == [r.row EXCEPT !.ver = @ + 1]
<1>1. /\ r.row.ver > 0 /\ AsDeleted(r) /\ receipt' = [receipt EXCEPT ![t] = NoReceipt] /\ tx' = NoTx
      /\ task' = [u \in Tasks |-> IF u = t THEN row
                   ELSE IF u \in r.next THEN [task[u] EXCEPT !.source = t, !.ver = @ + 1] ELSE task[u]]
      /\ copy' = (IF r.mapped THEN [copy EXCEPT ![t] = "mapped"] ELSE copy)
      /\ UNCHANGED <<draft, born, reopened>>
  BY DEF UndoDelete, LockFree
<1>2. TypeOK /\ DraftInv /\ SuccInv /\ SourceInv /\ NextInv /\ BlockInv /\ Known /\ NoTask \notin Tasks
      /\ Restorable(t, r, imported) /\ r \in Receipts /\ receipt \in [Tasks -> Receipts]
  BY <1>1, GraphAssumption DEF GraphInv, VersionInv, ReceiptInv, TypeOK
<1>3. r.row \in Rows /\ r.row.ver \in Nat /\ r.next \subseteq Tasks
  BY <1>2, VersionTypes DEF Receipts
<1>4. row.ver = r.row.ver + 1 /\ row.source = r.row.source /\ row.block = r.row.block
  BY <1>3 DEF Rows
<1>5. row.done = r.row.done
  BY <1>3, Zenon DEF Rows
<1> HIDE DEF row
<1>6. ~(task[t].ver > 0) /\ t \in born /\ t # NoTask
  BY <1>1, <1>2 DEF Known, Live
<1>7. \A u \in r.next : /\ u # t /\ u \in Tasks /\ task[u].ver > 0 /\ task[u].source = NoTask
                        /\ r.row.done /\ r.next = {u}
  <2> SUFFICES ASSUME NEW u \in r.next
               PROVE  /\ u # t /\ u \in Tasks /\ task[u].ver > 0 /\ task[u].source = NoTask
                      /\ r.row.done /\ r.next = {u}
    OBVIOUS
  <2>1. u # t /\ u \in Tasks
    BY <1>2, <1>3 DEF Restorable
  <2>2. NextSafe(r)
    BY <1>1, <1>2 DEF NextInv
  <2>3. r.row.done /\ r.seen[u].ver > 0 /\ r.seen[u].source = NoTask /\ r.next = {u}
    BY <2>2 DEF NextSafe
  <2>4. task[u] = r.seen[u]
    BY <1>1, <2>1, <2>3 DEF AsDeleted
  <2> QED BY <2>1, <2>3, <2>4
<1>8. /\ task'[t] = row
      /\ \A u \in Tasks : u # t /\ u \notin r.next => task'[u] = task[u]
  BY <1>1
<1>9. ASSUME NEW u \in r.next
      PROVE  /\ task'[u].ver = task[u].ver + 1 /\ task'[u].source = t /\ task'[u].block = task[u].block
             /\ task'[u].done = task[u].done /\ task[u].ver \in Nat
  <2>1. u \in Tasks /\ u # t /\ task[u] \in Rows
    BY <1>2, <1>7, VersionTypes
  <2>2. task'[u] = [task[u] EXCEPT !.source = t, !.ver = @ + 1]
    BY <1>1, <2>1
  <2>3. task'[u].ver = task[u].ver + 1 /\ task'[u].source = t /\ task'[u].block = task[u].block
    BY <2>1, <2>2 DEF Rows
  <2>4. task'[u].done = task[u].done
    BY <2>1, <2>2, Zenon DEF Rows
  <2>5. task[u].ver \in Nat
    BY <2>1 DEF Rows
  <2> QED BY <2>3, <2>4, <2>5
<1>10. ~(receipt'[t].row.ver > 0) /\ \A u \in Tasks : u # t => receipt'[u] = receipt[u]
  <2>1. receipt'[t] = NoReceipt
    BY <1>1, <1>2
  <2>2. NoReceipt.row.ver = 0
    BY DEF NoReceipt, NoRow
  <2>3. receipt' = [receipt EXCEPT ![t] = NoReceipt] /\ receipt \in [Tasks -> Receipts]
    BY <1>1, <1>2
  <2>4. \A u \in Tasks : u # t => receipt'[u] = receipt[u]
    BY <2>3
  <2> QED BY <2>1, <2>2, <2>4
<1>11. Aging
  <2>1. ASSUME NEW u \in Tasks, task'[u].ver > 0
        PROVE  \/ task[u].ver > 0 /\ Later(task[u], task'[u])
               \/ receipt[u].row.ver > 0 /\ task'[u].ver > receipt[u].row.ver
    <3>1. CASE u = t
      <4>1. r.row.ver > 0 /\ task'[t].ver = r.row.ver + 1
        BY <1>1, <1>4, <1>8
      <4> QED BY <1>3, <3>1, <4>1
    <3>2. CASE u \in r.next
      BY <1>7, <1>9, <3>2 DEF Later
    <3>3. CASE u # t /\ u \notin r.next
      BY <1>8, <2>1, <3>3 DEF Later
    <3> QED BY <3>1, <3>2, <3>3
  <2>2. \A u \in Tasks : receipt'[u].row.ver > 0 =>
            receipt[u].row.ver > 0 /\ receipt'[u].row.ver = receipt[u].row.ver
    BY <1>10
  <2> QED BY <1>1, <2>1, <2>2 DEF Aging
<1>12. DraftInv'
  BY <1>1, <1>2, <1>11, DraftKept
\* The source of the task that comes back.
<1>13. r.row.source # NoTask =>
         /\ r.row.source \in Tasks /\ r.row.source # t
         /\ task[r.row.source].ver > 0 /\ task[r.row.source].done
         /\ task[r.row.source].ver = r.seen[r.row.source].ver
         /\ \A u \in Tasks : task[u].source # r.row.source
  <2> SUFFICES ASSUME NEW s \in Tasks, r.row.source = s
               PROVE  /\ s # t /\ task[s].ver > 0 /\ task[s].done /\ task[s].ver = r.seen[s].ver
                      /\ \A u \in Tasks : task[u].source # s
    BY <1>2, VersionTypes
  <2>1. SourceSafe(t)
    BY <1>1, <1>2 DEF SourceInv
  <2>2. r.seen[s].ver > 0 /\ r.seen[s].done /\ (task[s].ver = r.seen[s].ver => \A u \in Tasks : task[u].source # s)
    BY <2>1 DEF SourceSafe
  <2>3. task[s] = r.seen[s]
    BY <1>1, <2>2 DEF AsDeleted
  <2> QED BY <1>2, <2>2, <2>3 DEF Restorable
<1>14. \A u \in Tasks : u # t /\ task[u].ver > 0 => task'[u].ver > 0 /\ task'[u].done = task[u].done
  BY <1>8, <1>9
<1>15. \A u \in Tasks : task[u].source # t
  BY <1>2, <1>6 DEF SuccInv
<1>16. SuccInv'
  <2> SUFFICES ASSUME NEW u \in Tasks, task'[u].source # NoTask
               PROVE  /\ task'[task'[u].source].ver > 0 /\ task'[task'[u].source].done
                      /\ \A v \in Tasks : v # u => task'[v].source # task'[u].source
    BY DEF SuccInv
  <2>1. CASE u = t
    <3>1. task'[u].source = r.row.source
      BY <1>4, <1>8, <2>1
    <3>2. task'[r.row.source].ver > 0 /\ task'[r.row.source].done
      BY <1>13, <1>14, <3>1
    <3>3. \A v \in Tasks : v # u => task'[v].source # r.row.source
      BY <1>8, <1>9, <1>13, <2>1, <3>1
    <3> QED BY <3>1, <3>2, <3>3
  <2>2. CASE u \in r.next
    <3>1. task'[u].source = t /\ task'[t].ver > 0 /\ task'[t].done
      BY <1>3, <1>4, <1>5, <1>7, <1>8, <1>9, <2>2
    <3>2. ASSUME NEW v \in Tasks, v # u PROVE task'[v].source # t
      <4>1. CASE v = t
        BY <1>2, <1>4, <1>8, <4>1 DEF Restorable
      <4>2. CASE v # t
        <5>1. v \notin r.next
          BY <1>7, <2>2, <3>2
        <5> QED BY <1>8, <1>15, <4>2, <5>1
      <4> QED BY <4>1, <4>2
    <3> QED BY <3>1, <3>2
  <2>3. CASE u # t /\ u \notin r.next
    <3>1. PICK x \in Tasks : x = task[u].source /\ task'[u].source = x
      BY <1>2, <1>8, <2>3, VersionTypes
    <3>2. /\ task[x].ver > 0 /\ task[x].done /\ x # t /\ x # NoTask
          /\ \A v \in Tasks : v # u => task[v].source # x
      BY <1>2, <1>15, <3>1 DEF SuccInv
    <3>3. task'[x].ver > 0 /\ task'[x].done
      BY <1>14, <3>2
    <3>4. ASSUME NEW v \in Tasks, v # u PROVE task'[v].source # x
      <4>1. CASE v = t
        BY <1>4, <1>8, <1>13, <3>1, <3>2, <4>1
      <4>2. CASE v \in r.next
        BY <1>9, <3>2, <4>2
      <4>3. CASE v # t /\ v \notin r.next
        BY <1>8, <3>2, <3>4, <4>3
      <4> QED BY <4>1, <4>2, <4>3
    <3> QED BY <3>1, <3>3, <3>4
  <2> QED BY <2>1, <2>2, <2>3
<1>17. SourceInv'
  <2> SUFFICES ASSUME NEW w \in Tasks, receipt'[w].row.ver > 0, receipt'[w].row.source # NoTask
               PROVE  SourceSafe(w)'
    BY DEF SourceInv
  <2>1. w # t /\ receipt'[w] = receipt[w] /\ SourceSafe(w)
    BY <1>2, <1>10 DEF SourceInv
  <2>2. PICK s \in Tasks, k \in Nat : receipt[w].row.source = s /\ receipt[w].seen[s].ver = k
    BY <1>2, <2>1, VersionTypes
  <2>3. k > 0 /\ receipt[w].seen[s].done /\ Past(s, k) /\ (task[s].ver = k => \A u \in Tasks : task[u].source # s)
    BY <2>1, <2>2 DEF SourceSafe
  <2>4. Past(s, k)' /\ (task'[s].ver = k => task[s].ver = k)
    BY <1>2, <1>11, <2>3, PastKept
  <2>5. r.row.source = s => task[s].ver # k
    <3>1. r.row.source = s => r.seen[s].ver # k
      BY <1>1, <2>1, <2>2 DEF SourceSafe
    <3> QED BY <1>2, <1>13, <3>1
  <2>6. task'[s].ver = k => \A u \in Tasks : task'[u].source # s
    <3> SUFFICES ASSUME task'[s].ver = k, NEW u \in Tasks PROVE task'[u].source # s
      OBVIOUS
    <3>1. task[s].ver = k /\ task[u].source # s /\ s # t
      BY <1>6, <2>3, <2>4
    <3>2. CASE u = t
      BY <1>4, <1>8, <2>5, <3>1, <3>2
    <3>3. CASE u \in r.next
      BY <1>9, <3>1, <3>3
    <3>4. CASE u # t /\ u \notin r.next
      BY <1>8, <3>1, <3>4
    <3> QED BY <3>2, <3>3, <3>4
  <2>7. ASSUME NEW v \in Tasks, v # w, receipt'[v].row.ver > 0, receipt'[v].row.source = s
        PROVE  receipt'[v].seen[s].ver # k
    <3>1. receipt'[v] = receipt[v]
      BY <1>10, <2>7
    <3> QED BY <2>1, <2>2, <2>7, <3>1 DEF SourceSafe
  <2>8. Past(receipt[w].row.source, receipt[w].seen[receipt[w].row.source].ver)'
    BY <2>1, <2>2, <2>4 DEF Past
  <2> QED BY <2>1, <2>2, <2>3, <2>6, <2>7, <2>8 DEF SourceSafe
<1>18. NextInv'
  BY <1>2, <1>10 DEF NextInv
<1>19. BlockInv'
  <2>1. \A u \in Tasks : Kept(u)' => Kept(u) \/ (u = t /\ r.mapped)
    BY <1>1, <1>2 DEF Kept, TypeOK
  <2>2. ASSUME NEW u \in Tasks, Kept(u)' PROVE task'[u].ver > 0 /\ task'[u].block # 0
    <3>2. CASE u = t
      <4>1. ~Kept(u)
        BY <1>2, <1>6, <3>2 DEF BlockInv
      <4>2. r.mapped => r.row.block # 0
        BY <1>1, <1>2 DEF BlockInv
      <4>3. task'[t].ver > 0 /\ task'[t].block = r.row.block
        BY <1>3, <1>4, <1>8
      <4> QED BY <1>1, <2>1, <2>2, <3>2, <4>1, <4>2, <4>3
    <3>3. CASE u \in r.next
      <4>1. Kept(u) /\ u # t
        BY <1>7, <2>1, <2>2, <3>3
      <4>2. task'[u].ver > 0 /\ task'[u].block = task[u].block
        BY <1>7, <1>9, <3>3
      <4> QED BY <1>1, <1>2, <4>1, <4>2 DEF BlockInv
    <3>4. CASE u # t /\ u \notin r.next
      BY <1>1, <1>2, <1>8, <2>1, <2>2, <3>4 DEF BlockInv
    <3> QED BY <3>2, <3>3, <3>4
  <2>3. \A u \in Tasks : receipt'[u].row.ver > 0 /\ receipt'[u].mapped => receipt'[u].row.block # 0
    BY <1>1, <1>2, <1>10 DEF BlockInv
  <2> QED BY <2>2, <2>3 DEF BlockInv
<1> QED BY <1>1, <1>11, <1>12, <1>16, <1>17, <1>18, <1>19, TxOver DEF VersionInv

\* At the start there are no rows, receipts or editors.
LEMMA InitVersion == Init => VersionInv
<1> SUFFICES ASSUME Init PROVE VersionInv
  OBVIOUS
<1>1. /\ NoRow.ver = 0 /\ NoRow.source = NoTask /\ NoReceipt.row.ver = 0 /\ NoTx.kind = "none" /\ NoTx.rows = {}
      /\ NoDraft.task = NoTask
  BY DEF NoRow, NoReceipt, NoTx, NoDraft
<1>2. /\ \A t \in Tasks : task[t] = NoRow /\ receipt[t] = NoReceipt
      /\ \A c \in Editors : draft[c] = NoDraft
      /\ tx = NoTx /\ \A t \in Tasks : copy[t] = "none"
  BY DEF Init
<1>3. DraftInv /\ SuccInv
  BY <1>1, <1>2 DEF DraftInv, SuccInv
<1>4. \A t \in Tasks : ~(receipt[t].row.ver > 0)
  BY <1>1, <1>2
<1>5. SourceInv /\ NextInv /\ BlockInv
  BY <1>2, <1>4 DEF SourceInv, NextInv, BlockInv, Kept
<1>6. TxInv
  BY <1>1, <1>2 DEF TxInv
<1> QED BY <1>3, <1>5, <1>6 DEF VersionInv

\* Every step lets the rows age and keeps what versions tell.
LEMMA VersionStep == GraphInv /\ VersionInv /\ [Next]_vars => Aging /\ VersionInv'
<1> SUFFICES ASSUME GraphInv, VersionInv, [Next]_vars PROVE Aging /\ VersionInv'
  OBVIOUS
<1>1. TypeOK'
  BY TypeStep DEF GraphInv
<1>2. \A r \in Requests(NoRow) : r \in Rows
  BY RequestTyped, EmptyTyped
<1>3. \A c \in Editors : \A r \in Requests(draft[c].row) : r \in Rows
  BY RequestTyped DEF GraphInv, TypeOK
<1>4. ASSUME NEW t \in Tasks, NEW r \in Requests(NoRow), CreateTask(t, r) \/ ImportRow(t, r)
      PROVE  Aging /\ VersionInv'
  BY <1>1, <1>2, <1>4, CreateAges, ImportRowAges
<1>5. CASE \/ \E p \in Projects : CreateProject(p) \/ UpdateProject(p) \/ BeginImport(p)
           \/ CommitImport \/ AbortReopen \/ UNCHANGED vars
           \/ \E t \in Tasks : Post(t) \/ InsertMapping(t)
  BY <1>1, <1>5, StillSteps
<1>6. ASSUME NEW p \in Projects, DeleteProject(p)
      PROVE  Aging /\ VersionInv'
  BY <1>1, <1>6, DeleteProjectAges
<1>7. CASE AbortImport \/ FinishReopen
  BY <1>1, <1>7, AbortImportAges, FinishReopenAges
<1>8. ASSUME NEW c \in Editors, NEW r \in Requests(draft[c].row), NEW scope \in Scopes,
             SaveTask(c, r, scope)
      PROVE  Aging /\ VersionInv'
  BY <1>1, <1>3, <1>8, SaveAges
<1>9. ASSUME NEW c \in Editors, NEW r \in Requests(draft[c].row), NEW scope \in Scopes,
             NEW s \in Tasks, CompleteRepeating(c, s, r, scope)
      PROVE  Aging /\ VersionInv'
  BY <1>1, <1>3, <1>9, CompleteAges
<1>10. ASSUME NEW c \in Editors, NEW r \in Requests(draft[c].row), BeginReopen(c, r)
       PROVE  Aging /\ VersionInv'
  BY <1>1, <1>3, <1>10, BeginReopenAges
<1>11. ASSUME NEW c \in Editors, DeleteTask(c) \/ DeleteWithUndo(c)
       PROVE  Aging /\ VersionInv'
  BY <1>1, <1>11, DeleteAges, DeleteWithUndoAges
<1>12. ASSUME NEW c \in Editors, NEW t \in Tasks, OpenEditor(c, t)
       PROVE  Aging /\ VersionInv'
  BY <1>1, <1>12, OpenStep
<1>13. ASSUME NEW t \in Tasks, UndoDelete(t)
       PROVE  Aging /\ VersionInv'
  BY <1>1, <1>13, UndoAges
<1>14. ASSUME NEW t \in Tasks,
              RemoveBlock(t) \/ (\E b \in Blocks : MoveBlock(t, b)) \/ \E d \in Dues : Reschedule(t, d)
       PROVE  Aging /\ VersionInv'
  BY <1>1, <1>14, ContentAges
<1> QED
  BY <1>4, <1>5, <1>6, <1>7, <1>8, <1>9, <1>10, <1>11, <1>12, <1>13, <1>14 DEF Next, Edit

\* What versions tell holds in every reachable state.
LEMMA VersionInvariance == Spec => []VersionInv
BY InitVersion, VersionStep, GraphInvariant, PTL DEF Spec

---------------------------------------------------------------------------
(* What one step may do *)

\* The steps of NoLostUpdate.
SavedAsShown ==
    \A c \in Editors :
        LET t == draft[c].task IN
        (t \in Live /\ draft'[c] # draft[c] /\ task'[t] # task[t])
            => Shown(task[t]) = Shown(draft[c].row)

\* An editor is closed by a request that compares versions.
LEMMA ClosedAsShown ==
  ASSUME TypeOK, DraftInv, NEW c, draft' = [draft EXCEPT ![c] = NoDraft],
         task[draft[c].task].ver = draft[c].row.ver
  PROVE  SavedAsShown
<1> SUFFICES ASSUME NEW d \in Editors, draft[d].task \in Live, draft'[d] # draft[d]
             PROVE  Shown(task[draft[d].task]) = Shown(draft[d].row)
  BY DEF SavedAsShown
<1>1. d = c
  BY DEF TypeOK
<1>2. draft[d].task # NoTask
  BY GraphAssumption DEF Live
<1> QED BY <1>1, <1>2 DEF DraftInv

\* Every step that closes an editor is such a request.
LEMMA SavedStep == GraphInv /\ VersionInv /\ [Next]_vars => SavedAsShown
<1> SUFFICES ASSUME GraphInv, VersionInv, [Next]_vars PROVE SavedAsShown
  OBVIOUS
<1>1. TypeOK /\ DraftInv /\ TxInv
  BY DEF GraphInv, VersionInv
<1>2. CASE draft' = draft \/ task' = task
  BY <1>2 DEF SavedAsShown
<1>3. ASSUME NEW c \in Editors, NEW r, NEW scope, SaveTask(c, r, scope) PROVE SavedAsShown
  BY <1>1, <1>3, ClosedAsShown DEF SaveTask, Admitted
<1>4. ASSUME NEW c \in Editors, NEW r, NEW scope, NEW s, CompleteRepeating(c, s, r, scope) PROVE SavedAsShown
  BY <1>1, <1>4, ClosedAsShown DEF CompleteRepeating, Admitted
<1>5. ASSUME NEW c \in Editors, DeleteTask(c) \/ DeleteWithUndo(c) PROVE SavedAsShown
  BY <1>1, <1>5, ClosedAsShown DEF DeleteTask, DeleteWithUndo, Deletable
<1>6. CASE FinishReopen
  BY <1>1, <1>6, ClosedAsShown DEF FinishReopen, TxInv
<1>7. CASE UNCHANGED vars
  BY <1>2, <1>7 DEF vars
<1>8. ASSUME NEW t, NEW r, CreateTask(t, r) \/ ImportRow(t, r) PROVE SavedAsShown
  BY <1>2, <1>8 DEF CreateTask, ImportRow
<1>9. ASSUME NEW p, CreateProject(p) \/ UpdateProject(p) \/ DeleteProject(p) \/ BeginImport(p) PROVE SavedAsShown
  BY <1>2, <1>9 DEF CreateProject, UpdateProject, DeleteProject, BeginImport
<1>10. CASE CommitImport \/ AbortImport \/ AbortReopen
  BY <1>2, <1>10 DEF CommitImport, AbortImport, AbortReopen
<1>11. ASSUME NEW c, NEW r, BeginReopen(c, r) PROVE SavedAsShown
  BY <1>2, <1>11 DEF BeginReopen
<1>12. ASSUME NEW c, NEW t, OpenEditor(c, t) PROVE SavedAsShown
  BY <1>2, <1>12 DEF OpenEditor
<1>13. ASSUME NEW t, NEW b, UndoDelete(t) \/ RemoveBlock(t) \/ Post(t) \/ InsertMapping(t) \/ MoveBlock(t, b) \/ Reschedule(t, b)
       PROVE  SavedAsShown
  BY <1>2, <1>13 DEF UndoDelete, RemoveBlock, Post, InsertMapping, MoveBlock, Reschedule
<1> QED
  BY <1>3, <1>4, <1>5, <1>6, <1>7, <1>8, <1>9, <1>10, <1>11, <1>12, <1>13 DEF Next, Edit

\* The steps of OneOffKeepsSeries.
SeriesKept ==
    \A t \in Live : task'[t].base # NoBase =>
        LET old == SuccessorSource(task[t])
            new == SuccessorSource(task'[t])
        IN  \/ new = old
            \/ new = [old EXCEPT !.project = NoProject] /\ projects'[old.project] = 0

\* Rows with the same defaults, or none afterwards, keep the series.
LEMMA SameBase ==
  ASSUME \A t \in Live : \/ task'[t].base = task[t].base \/ task'[t].base = NoBase
                         \/ SuccessorSource(task'[t]) = SuccessorSource(task[t])
  PROVE  SeriesKept
BY DEF SeriesKept, SuccessorSource

\* RecurringTaskState::prepare: the first exception of a series remembers it, later ones
\* leave what is remembered.
LEMMA UpdatedSeries ==
  ASSUME NEW row \in Rows, NEW r \in Rows, NEW scope \in Scopes
  PROVE  LET n == UpdatedRow(row, r, scope) IN
         n.base = NoBase \/ SuccessorSource(n) = SuccessorSource(row)
<1> DEFINE n == UpdatedRow(row, r, scope)
<1>1. n.base = PreparedBase(row, r, scope)
  BY UpdatedFields
<1>2. PreparedBase(row, r, scope) \in {NoBase, SuccessorSource(row)}
  BY DEF PreparedBase, SuccessorSource, Scopes
<1> HIDE DEF n
<1>3. n.base = NoBase \/ SuccessorSource(n) = SuccessorSource(row)
  BY <1>1, <1>2 DEF SuccessorSource
<1> QED BY <1>3 DEF n

\* No step changes what follows an exception, but for the project that is deleted.
LEMMA SeriesStep == GraphInv /\ [Next]_vars => SeriesKept
<1> SUFFICES ASSUME GraphInv, [Next]_vars PROVE SeriesKept
  OBVIOUS
<1>1. TypeOK /\ Sound(task, imported) /\ task \in [Tasks -> Rows]
  BY DEF GraphInv, TypeOK
<1>2. \A c \in Editors : \A r \in Requests(draft[c].row) : r \in Rows
  BY <1>1, RequestTyped DEF TypeOK
<1>3. NoRow.base = NoBase /\ NoRow.base.project = NoProject
  BY DEF NoRow, NoBase
<1>4. CASE task' = task
  BY <1>4, SameBase
<1>5. ASSUME NEW t \in Tasks, NEW row, t \in Fresh, task' = [task EXCEPT ![t] = row] PROVE SeriesKept
  <2>1. \A u \in Live : task'[u] = task[u]
    BY <1>1, <1>5, FreshTask DEF Live
  <2> QED BY <2>1, SameBase
<1>6. ASSUME NEW t \in Tasks, NEW r, CreateTask(t, r) \/ ImportRow(t, r) PROVE SeriesKept
  BY <1>5, <1>6 DEF CreateTask, ImportRow
<1>7. CASE AbortImport
  <2>1. \A u \in Live : task'[u] = task[u] \/ task'[u] = NoRow
    BY <1>7 DEF AbortImport, Live
  <2> QED BY <1>3, <2>1, SameBase
<1>8. ASSUME NEW c \in Editors, NEW r \in Rows, NEW scope \in Scopes, SaveTask(c, r, scope) PROVE SeriesKept
  <2> DEFINE t == draft[c].task
             row == UpdatedRow(task[t], r, scope)
  <2>1. task' = [task EXCEPT ![t] = row] /\ t \in Tasks
    BY <1>8 DEF SaveTask, Admitted, Live
  <2>2. row.base = NoBase \/ SuccessorSource(row) = SuccessorSource(task[t])
    BY <1>1, <2>1, UpdatedSeries
  <2> HIDE DEF row
  <2>3. \A u \in Live : u # t => task'[u] = task[u]
    BY <1>1, <2>1 DEF Live
  <2>4. task'[t] = row
    BY <1>1, <2>1
  <2> QED BY <2>2, <2>3, <2>4, SameBase
<1>9. ASSUME NEW c \in Editors, NEW s \in Tasks, NEW r \in Rows, NEW scope \in Scopes,
             CompleteRepeating(c, s, r, scope)
      PROVE  SeriesKept
  <2> DEFINE t == draft[c].task
             row == UpdatedRow(task[t], r, scope)
             next == Successor(t, row)
  <2>1. task' = [task EXCEPT ![t] = row, ![s] = next] /\ t \in Tasks /\ t \in Live /\ s \in Fresh
    BY <1>9 DEF CompleteRepeating, Admitted, Live
  <2>2. row.base = NoBase \/ SuccessorSource(row) = SuccessorSource(task[t])
    BY <1>1, <2>1, UpdatedSeries
  <2> HIDE DEF row, next
  <2>3. s \notin Live /\ s # t
    BY <2>1, FreshTask
  <2>4. task'[t] = row /\ \A u \in Live : u # t => task'[u] = task[u]
    BY <1>1, <2>1, <2>3 DEF Live
  <2> QED BY <2>2, <2>4, SameBase
<1>10. ASSUME NEW gone \in SUBSET Tasks, NEW u \in Tasks
       PROVE  Without(gone)[u].base \in {task[u].base, NoBase}
  <2>1. u \in gone => Without(gone)[u] = NoRow
    BY DEF Without
  <2>2. u \notin gone => Without(gone)[u].base = task[u].base
    BY <1>1, WithoutContent
  <2> QED BY <1>3, <2>1, <2>2
<1>11. CASE FinishReopen
  <2> DEFINE t == draft[tx.editor].task
             gone == {tx.next} \cap Tasks
             row == UpdatedRow(task[t], tx.request, "none")
  <2>1. task' = [Without(gone) EXCEPT ![t] = row]
    BY <1>11 DEF FinishReopen
  <2>2. t \in Tasks /\ tx.request \in Rows
    BY <1>11 DEF FinishReopen, GraphInv, ReopenInv, Fits, LiveIn, TypeOK, Transactions
  <2>3. row.base = NoBase \/ SuccessorSource(row) = SuccessorSource(task[t])
    BY <1>1, <2>2, UpdatedSeries DEF Scopes
  <2> HIDE DEF row
  <2>4. Without(gone) \in [Tasks -> Rows]
    BY <1>1, WithoutTyped
  <2>5. task'[t] = row /\ \A u \in Tasks : u # t => task'[u].base \in {task[u].base, NoBase}
    BY <1>10, <2>1, <2>2, <2>4
  <2> QED BY <2>3, <2>5, SameBase DEF Live
<1>12. ASSUME NEW c \in Editors, DeleteTask(c) \/ DeleteWithUndo(c) PROVE SeriesKept
  <2>1. task' = Without({draft[c].task}) /\ {draft[c].task} \in SUBSET Tasks
    BY <1>12 DEF DeleteTask, DeleteWithUndo, Deletable, Live
  <2>2. \A u \in Live : task'[u].base \in {task[u].base, NoBase}
    BY <1>10, <2>1 DEF Live
  <2> QED BY <2>2, SameBase
<1>13. ASSUME NEW t \in Tasks, UndoDelete(t) PROVE SeriesKept
  <2>1. t \notin Live
    BY <1>13 DEF UndoDelete, GraphInv, Known
  <2>2. \A u \in Live : task'[u] = task[u] \/ task'[u] = [task[u] EXCEPT !.source = t, !.ver = @ + 1]
    BY <1>13, <2>1 DEF UndoDelete, Live
  <2>3. \A u \in Tasks : [task[u] EXCEPT !.source = t, !.ver = @ + 1].base = task[u].base
    BY <1>1 DEF Rows
  <2>4. \A u \in Live : task'[u].base = task[u].base
    BY <2>2, <2>3 DEF Live
  <2> QED BY <2>4, SameBase
<1>14. ASSUME NEW p \in Projects, DeleteProject(p) PROVE SeriesKept
  <2> DEFINE gone == {t \in Tasks : task[t].project = p}
             U == Without(gone)
  <2>1. task' = [t \in Tasks |-> Unassigned(U[t], p)] /\ projects' = [projects EXCEPT ![p] = 0]
    BY <1>14 DEF DeleteProject
  <2>2. projects'[p] = 0
    BY <1>1, <2>1 DEF TypeOK
  <2>3. U \in [Tasks -> Rows] /\ gone \in SUBSET Tasks
    BY <1>1, WithoutTyped
  <2>4. \A u \in Tasks : U[u].base \in {task[u].base, NoBase}
    BY <1>10, <2>3
  <2> HIDE DEF U
  <2> SUFFICES ASSUME NEW t \in Live, task'[t].base # NoBase
               PROVE  \/ SuccessorSource(task'[t]) = SuccessorSource(task[t])
                      \/ /\ SuccessorSource(task'[t]) = [SuccessorSource(task[t]) EXCEPT !.project = NoProject]
                         /\ projects'[SuccessorSource(task[t]).project] = 0
    BY DEF SeriesKept
  <2>5. t \in Tasks /\ U[t] \in Rows /\ task'[t] = Unassigned(U[t], p)
    BY <2>1, <2>3 DEF Live
  <2>6. CASE U[t].base.project = p
    <3>1. task'[t] = [U[t] EXCEPT !.base.project = NoProject, !.ver = @ + 1]
      BY <2>5, <2>6 DEF Unassigned
    <3>2. task'[t].base = [U[t].base EXCEPT !.project = NoProject]
      BY <2>5, <3>1 DEF Rows
    <3>3. U[t].base # NoBase
      BY <2>6, GraphAssumption DEF NoBase
    <3>4. task[t].base = U[t].base
      BY <2>4, <2>5, <3>3
    <3> QED BY <2>2, <2>6, <3>2, <3>3, <3>4 DEF SuccessorSource
  <2>7. CASE U[t].base.project # p
    <3>1. task'[t].base = U[t].base
      BY <2>5, <2>7 DEF Unassigned
    <3>2. task[t].base = task'[t].base
      BY <2>4, <2>5, <3>1
    <3> QED BY <3>2 DEF SuccessorSource
  <2> QED BY <2>6, <2>7
<1>15. ASSUME NEW t \in Tasks,
              RemoveBlock(t) \/ (\E b \in Blocks : MoveBlock(t, b)) \/ \E d \in Dues : Reschedule(t, d)
       PROVE  SeriesKept
  <2>1. CASE RemoveBlock(t)
    BY <1>1, <2>1, SameBase DEF RemoveBlock, Rows, Live
  <2>2. ASSUME NEW b \in Blocks, MoveBlock(t, b) PROVE SeriesKept
    BY <1>1, <2>2, SameBase DEF MoveBlock, Rows, Live
  <2>3. ASSUME NEW d \in Dues, Reschedule(t, d) PROVE SeriesKept
    BY <1>1, <2>3, SameBase DEF Reschedule, Rows, Live
  <2> QED BY <1>15, <2>1, <2>2, <2>3
<1>16. CASE CommitImport \/ AbortReopen \/ UNCHANGED vars
  BY <1>4, <1>16 DEF CommitImport, AbortReopen, vars
<1>17. ASSUME NEW p, CreateProject(p) \/ UpdateProject(p) \/ BeginImport(p) PROVE SeriesKept
  BY <1>4, <1>17 DEF CreateProject, UpdateProject, BeginImport
<1>18. ASSUME NEW c, NEW r, NEW t, BeginReopen(c, r) \/ OpenEditor(c, t) \/ Post(t) \/ InsertMapping(t)
       PROVE  SeriesKept
  BY <1>4, <1>18 DEF BeginReopen, OpenEditor, Post, InsertMapping
<1> QED
  BY <1>2, <1>6, <1>7, <1>8, <1>9, <1>11, <1>12, <1>13, <1>14, <1>15, <1>16, <1>17, <1>18 DEF Next, Edit

---------------------------------------------------------------------------
(* Theorems about versions and series *)

\* Only a completed task has a successor, and one at most, so that completing a task never
\* runs into the unique index on recurrence_source_id, however receipts of the task, of its
\* source and of its successor are used, together with reopening and completing again.
THEOREM TasksHaveOneSuccessor == Spec => []OneSuccessor
<1>1. GraphInv /\ VersionInv => OneSuccessor
  <2> SUFFICES ASSUME GraphInv, VersionInv PROVE OneSuccessor
    OBVIOUS
  <2>1. TypeOK /\ SuccInv
    BY DEF GraphInv, VersionInv
  <2>2. \A u \in Tasks : task[u].source # NoTask => task[u].source \in Live
    BY <2>1, VersionTypes DEF SuccInv, Live
  <2> QED BY <2>1, <2>2 DEF OneSuccessor, SuccInv, Live
<1> QED BY <1>1, GraphInvariant, VersionInvariance, PTL

\* A block that a job is posting, or that has a mapping not marked for deletion, belongs to a
\* scheduled task: deleting, unscheduling, restoring, completing and the cascade of a project
\* mark the mapping before the event goes.
THEOREM BlocksHaveTheirTask == Spec => []BlocksKeepTheirTask
<1>1. GraphInv /\ VersionInv => BlocksKeepTheirTask
  BY DEF GraphInv, TypeOK, VersionInv, BlockInv, Kept, BlocksKeepTheirTask, Followed, Live
<1> QED BY <1>1, GraphInvariant, VersionInvariance, PTL

\* update_task, delete_task and a reopening write over a row only as the editor showed it:
\* the version they compare changes with everything else in the row, also through a
\* deletion and its Undo.
THEOREM UpdatesAreNotLost == Spec => NoLostUpdate
<1>1. GraphInv /\ VersionInv /\ [Next]_vars => [SavedAsShown]_vars
  BY SavedStep
<1> QED BY <1>1, GraphInvariant, VersionInvariance, PTL DEF Spec, NoLostUpdate, SavedAsShown

\* No step changes what follows a task that was saved as an exception of its series.
THEOREM ExceptionsKeepTheSeries == Spec => OneOffKeepsSeries
<1>1. GraphInv /\ [Next]_vars => [SeriesKept]_vars
  BY SeriesStep
<1> QED BY <1>1, GraphInvariant, PTL DEF Spec, OneOffKeepsSeries, SeriesKept
=============================================================================
