------------------------ MODULE GoogleTasksProofs ------------------------
(***************************************************************************)
(* Google Tasks synchronization, for every value of the constants: a task  *)
(* and its Google item never have a second copy (OneCopy), the job never   *)
(* replaces a change of the user that the user did not give up             *)
(* (NoSilentOverwrite), and no change is left waiting without a job, an    *)
(* error or a lost worker to account for it (NothingStranded).             *)
(*                                                                         *)
(* The three rest on each other's invariants.  CopyInv speaks of           *)
(* identities: of links, of the references in the notes, and of what the   *)
(* job holds in its hands.  MergeInv speaks of values: what the user has   *)
(* changed differs from the baseline and from the other copy, and what the *)
(* job planned is what it read.  WaitInv speaks of cursors: what is not    *)
(* settled lies ahead of them, or the scan has a reason to be repeated.    *)
(***************************************************************************)
EXTENDS GoogleTasks, FiniteSetTheorems, WellFoundedInduction, TLAPS

---------------------------------------------------------------------------
(* Numbers *)

\* A finite set of numbers has a greatest.
LEMMA GreatestExists ==
  ASSUME NEW S \in SUBSET Nat, IsFiniteSet(S), S # {}
  PROVE  \E x \in S : \A y \in S : y <= x
<1> DEFINE Bad == {T \in FiniteSubsetsOf(S) : T # {} /\ ~ \E x \in T : \A y \in T : y <= x}
<1>1. SUFFICES ASSUME Bad # {} PROVE FALSE
  <2>1. S \in FiniteSubsetsOf(S)
    BY DEF FiniteSubsetsOf
  <2> QED BY <2>1, <1>1
<1>2. PICK T \in Bad : \A U \in Bad : <<U, T>> \notin StrictSubsetOrdering(S)
  <2> HIDE DEF Bad
  <2>1. Bad \subseteq FiniteSubsetsOf(S)
    BY DEF Bad
  <2> QED BY <1>1, <2>1, FS_StrictSubsetOrderingWellFounded, WFMin
<1>3. PICK a \in T : TRUE
  OBVIOUS
<1>4. PICK b \in T : a < b
  BY <1>3 DEF FiniteSubsetsOf
<1> DEFINE U == T \ {a}
<1>5. U \in FiniteSubsetsOf(S) /\ b \in U
  BY <1>3, <1>4, FS_Subset DEF FiniteSubsetsOf
<1>6. <<U, T>> \in StrictSubsetOrdering(S)
  BY <1>3 DEF FiniteSubsetsOf, StrictSubsetOrdering
<1>7. PICK m \in U : \A y \in U : y <= m
  BY <1>2, <1>5, <1>6
<1>8. m \in T /\ \A y \in T : y <= m
  BY <1>4, <1>5, <1>7 DEF FiniteSubsetsOf
<1> QED BY <1>8

\* Max is the greatest of the numbers of a table.
LEMMA GreatestOf ==
  ASSUME NEW F \in [Tasks -> Nat]
  PROVE  LET m == Max({F[t] : t \in Tasks}) IN m \in Nat /\ \A t \in Tasks : F[t] <= m
<1> DEFINE S == {F[t] : t \in Tasks}
<1>1. S \in SUBSET Nat /\ S # {}
  BY TasksAssumption DEF Tasks
<1>2. IsFiniteSet(S)
  <2>1. IsFiniteSet(Tasks)
    BY FS_Interval, TasksAssumption DEF Tasks
  <2>2. F \in Surjection(Tasks, S)
    BY DEF Surjection
  <2> QED BY <2>1, <2>2, FS_Surjection
<1>3. PICK x \in S : \A y \in S : y <= x
  BY <1>1, <1>2, GreatestExists
<1>4. \E z \in S : \A y \in S : z >= y
  BY <1>1, <1>3
<1>5. Max(S) \in S /\ \A y \in S : Max(S) >= y
  BY <1>4 DEF Max
<1> QED BY <1>1, <1>5

\* Counting the members up to each one numbers a set of tasks.
LEMMA Ranks ==
  ASSUME NEW N \in SUBSET Tasks
  PROVE  /\ \A t \in N : Cardinality({u \in N : u <= t}) \in Nat \ {0}
         /\ \A t, u \in N : Cardinality({v \in N : v <= t}) = Cardinality({v \in N : v <= u}) => t = u
<1> DEFINE To(t) == {v \in N : v <= t}
<1>1. N \subseteq Nat /\ IsFiniteSet(N)
  <2>1. N \subseteq Nat
    BY TasksAssumption DEF Tasks
  <2>2. IsFiniteSet(Tasks)
    BY FS_Interval, TasksAssumption DEF Tasks
  <2> QED BY <2>1, <2>2, FS_Subset
<1>2. \A t \in N : IsFiniteSet(To(t)) /\ Cardinality(To(t)) \in Nat
  BY <1>1, FS_Subset, FS_CardinalityType
<1>3. \A t \in N : Cardinality(To(t)) # 0
  BY <1>1, <1>2, FS_EmptySet
<1>4. ASSUME NEW t \in N, NEW u \in N, t < u PROVE Cardinality(To(t)) # Cardinality(To(u))
  <2>1. t \in Nat /\ u \in Nat /\ \A v \in N : v \in Nat
    BY <1>1
  <2>2. \A v \in N : v <= t => v <= u
    BY <1>4, <2>1
  <2>3. To(t) \in SUBSET To(u)
    BY <2>2
  <2>4. u \in To(u) /\ u \notin To(t)
    <3>1. u <= u /\ ~(u <= t)
      BY <1>4, <2>1
    <3> QED BY <3>1
  <2> HIDE DEF To
  <2> QED BY <1>2, <2>3, <2>4, FS_Subset
<1> HIDE DEF To
<1>5. \A t, u \in N : Cardinality(To(t)) = Cardinality(To(u)) => t = u
  BY <1>1, <1>4
<1> QED BY <1>2, <1>3, <1>5 DEF To

---------------------------------------------------------------------------
(* Types *)

Contents == [Fields -> Nat]
Phases == {"none", "prepared", "creating", "linked", "detached"}
TaskRows == [live : BOOLEAN, version : Nat, f : Contents]
ItemRows == [st : {"unused", "live", "deleted", "purged"}, etag : Nat, f : Contents, ref : Nat]
Conflicts == [version : Nat, etag : Nat, local : Contents, google : Contents]
LinkRows == [phase : Phases, id : Nat, ext : Items \cup {0}, etag : Nat, base : Contents,
             conflict : Conflicts, choice : {"none", "google", "prosepect"}]
Conns == [enabled : BOOLEAN, partial : BOOLEAN, changed : BOOLEAN, lc : Nat, ic : Nat, errs : BOOLEAN]
Scans == [todo : SUBSET Tasks, imported : Nat, more : BOOLEAN, errs : BOOLEAN, lc : Nat, ic : Nat]
Plans == [local : TaskRows, etag : Nat, merged : Contents, item : Items \cup {0}]

\* The state that decides about copies and values is typed.
Typed ==
    /\ edits \in Nat /\ held \subseteq Tasks
    /\ task \in [Tasks -> TaskRows]
    /\ link \in [Tasks -> LinkRows]
    /\ google \in [Items -> ItemRows] /\ snap \in [Items -> ItemRows]
    /\ conn \in Conns /\ scan \in Scans /\ cur \in Tasks \cup {0} /\ plan \in Plans
    /\ decided \in [Tasks -> Conflicts]

TypeInv == Typed /\ mineHere \in [Tasks -> SUBSET Fields] /\ mineThere \in [Items -> SUBSET Fields]

\* The rows that mean nothing are typed.
LEMMA Empties ==
  /\ Unset \in Contents /\ NoTask \in TaskRows /\ NoItem \in ItemRows /\ NoConflict \in Conflicts
  /\ NoLink \in LinkRows /\ NoPlan \in Plans /\ NoSnapshot \in [Items -> ItemRows] /\ NoScan \in Scans
<1>1. Unset \in Contents
  BY DEF Unset, Contents
<1>2. NoTask \in TaskRows /\ NoItem \in ItemRows /\ NoConflict \in Conflicts
  BY <1>1 DEF NoTask, TaskRows, NoItem, ItemRows, NoConflict, Conflicts
<1>3. NoLink \in LinkRows /\ NoPlan \in Plans /\ NoSnapshot \in [Items -> ItemRows]
  BY <1>1, <1>2 DEF NoLink, LinkRows, NoPlan, Plans, NoSnapshot, Phases
<1>4. NoScan \in Scans
  BY DEF NoScan, Scans
<1> QED BY <1>1, <1>2, <1>3, <1>4

\* So is the initial state.
LEMMA InitType == Init => TypeInv
<1> SUFFICES ASSUME Init PROVE TypeInv
  OBVIOUS
<1>1. task \in [Tasks -> TaskRows]
  <2>1. [NoTask EXCEPT !.live = TRUE, !.version = 1] \in TaskRows
    BY Empties DEF TaskRows
  <2> QED BY <2>1, Empties DEF Init
<1>2. google \in [Items -> ItemRows]
  <2>1. [NoItem EXCEPT !.st = "live", !.etag = 1] \in ItemRows
    BY Empties DEF ItemRows
  <2> QED BY <2>1, Empties DEF Init
<1>3. conn \in Conns
  BY DEF Init, Conns
<1> QED BY <1>1, <1>2, <1>3, Empties DEF Init, TypeInv, Typed

\* The histories of changes are sets of fields.
LEMMA TrackType ==
  ASSUME NEW b \in BOOLEAN, Track(b)
  PROVE  mineHere' \in [Tasks -> SUBSET Fields] /\ mineThere' \in [Items -> SUBSET Fields]
BY DEF Track

\* Fields of typed rows.
LEMMA RowTypes ==
  ASSUME Typed
  PROVE  /\ \A t \in Tasks : /\ task[t] \in TaskRows /\ task[t].version \in Nat
                             /\ task[t].f \in Contents /\ task[t].live \in BOOLEAN
         /\ \A t \in Tasks : /\ link[t] \in LinkRows /\ link[t].id \in Nat /\ link[t].ext \in Items \cup {0}
                             /\ link[t].phase \in Phases /\ link[t].etag \in Nat
                             /\ link[t].base \in Contents /\ link[t].conflict \in Conflicts
                             /\ link[t].choice \in {"none", "google", "prosepect"}
         /\ \A g \in Items : /\ google[g] \in ItemRows /\ google[g].etag \in Nat
                             /\ google[g].f \in Contents /\ google[g].ref \in Nat
         /\ \A g \in Items : /\ snap[g] \in ItemRows /\ snap[g].etag \in Nat
                             /\ snap[g].f \in Contents /\ snap[g].ref \in Nat
         /\ plan.local \in TaskRows /\ plan.etag \in Nat /\ plan.merged \in Contents
         /\ plan.item \in Items \cup {0}
<1>1. \A r \in TaskRows : r.version \in Nat /\ r.f \in Contents /\ r.live \in BOOLEAN
  BY DEF TaskRows
<1>2. \A r \in LinkRows : /\ r.id \in Nat /\ r.ext \in Items \cup {0} /\ r.phase \in Phases /\ r.etag \in Nat
                          /\ r.base \in Contents /\ r.conflict \in Conflicts
                          /\ r.choice \in {"none", "google", "prosepect"}
  BY DEF LinkRows
<1>3. \A r \in ItemRows : r.etag \in Nat /\ r.f \in Contents /\ r.ref \in Nat
  BY DEF ItemRows
<1>4. \A r \in Plans : r.local \in TaskRows /\ r.etag \in Nat /\ r.merged \in Contents /\ r.item \in Items \cup {0}
  BY DEF Plans
<1>5. /\ \A t \in Tasks : task[t] \in TaskRows /\ link[t] \in LinkRows
      /\ \A g \in Items : google[g] \in ItemRows /\ snap[g] \in ItemRows
      /\ plan \in Plans
  BY DEF Typed
<1> QED BY <1>1, <1>2, <1>3, <1>4, <1>5

\* An edit changes one field.
LEMMA EditedTask ==
  ASSUME Typed, NEW t \in Tasks, NEW x \in Fields, edits' \in Nat,
         task' = [task EXCEPT ![t].version = @ + 1, ![t].f[x] = edits']
  PROVE  /\ task' \in [Tasks -> TaskRows] /\ \A u \in Tasks : u # t => task'[u] = task[u]
         /\ task'[t].live = task[t].live /\ task'[t].version = task[t].version + 1
         /\ task'[t].f = [task[t].f EXCEPT ![x] = edits']
<1>1. task \in [Tasks -> TaskRows] /\ task[t] \in TaskRows
  BY DEF Typed
<1> DEFINE mid == [task EXCEPT ![t].version = @ + 1]
           new == [task[t].f EXCEPT ![x] = edits']
<1>2. task' = [mid EXCEPT ![t].f[x] = edits']
  OBVIOUS
<1>3. mid \in [Tasks -> TaskRows] /\ mid[t] \in TaskRows /\ mid[t].f = task[t].f
  BY <1>1 DEF TaskRows
<1>4. mid[t].live = task[t].live /\ mid[t].version = task[t].version + 1
  BY <1>1 DEF TaskRows
<1>5. \A u \in Tasks : u # t => mid[u] = task[u]
  BY <1>1
<1>6. new \in Contents
  BY RowTypes DEF Contents
<1> HIDE DEF mid
<1> DEFINE row == [mid[t] EXCEPT !.f = new]
<1>7. task' = [mid EXCEPT ![t] = row]
  BY <1>2, <1>3
<1> HIDE DEF new
<1>8. row \in TaskRows /\ row.f = new
  BY <1>3, <1>6 DEF TaskRows
<1>9. row.live = mid[t].live /\ row.version = mid[t].version
  BY <1>3 DEF TaskRows
<1> HIDE DEF row
<1>10. task' \in [Tasks -> TaskRows] /\ task'[t] = row /\ \A u \in Tasks : u # t => task'[u] = task[u]
  BY <1>3, <1>5, <1>7, <1>8
<1> QED BY <1>4, <1>8, <1>9, <1>10 DEF new

\* The same, in Google.
LEMMA EditedItem ==
  ASSUME Typed, NEW g \in Items, NEW x \in Fields, edits' \in Nat,
         google' = [google EXCEPT ![g].etag = @ + 1, ![g].f[x] = edits']
  PROVE  /\ google' \in [Items -> ItemRows] /\ \A h \in Items : h # g => google'[h] = google[h]
         /\ google'[g].st = google[g].st /\ google'[g].ref = google[g].ref
         /\ google'[g].etag = google[g].etag + 1 /\ google'[g].f = [google[g].f EXCEPT ![x] = edits']
<1>1. google \in [Items -> ItemRows] /\ google[g] \in ItemRows
  BY DEF Typed
<1> DEFINE mid == [google EXCEPT ![g].etag = @ + 1]
           new == [google[g].f EXCEPT ![x] = edits']
<1>2. google' = [mid EXCEPT ![g].f[x] = edits']
  OBVIOUS
<1>3. mid \in [Items -> ItemRows] /\ mid[g] \in ItemRows /\ mid[g].f = google[g].f
  BY <1>1 DEF ItemRows
<1>4. mid[g].st = google[g].st /\ mid[g].ref = google[g].ref /\ mid[g].etag = google[g].etag + 1
  BY <1>1 DEF ItemRows
<1>5. \A u \in Items : u # g => mid[u] = google[u]
  BY <1>1
<1>6. new \in Contents
  BY RowTypes DEF Contents
<1> HIDE DEF mid
<1> DEFINE row == [mid[g] EXCEPT !.f = new]
<1>7. google' = [mid EXCEPT ![g] = row]
  BY <1>2, <1>3
<1> HIDE DEF new
<1>8. row \in ItemRows /\ row.f = new
  BY <1>3, <1>6 DEF ItemRows
<1>9. row.st = mid[g].st /\ row.ref = mid[g].ref /\ row.etag = mid[g].etag
  BY <1>3 DEF ItemRows
<1> HIDE DEF row
<1>10. google' \in [Items -> ItemRows] /\ google'[g] = row /\ \A u \in Items : u # g => google'[u] = google[u]
  BY <1>3, <1>5, <1>7, <1>8
<1> QED BY <1>4, <1>8, <1>9, <1>10 DEF new

\* The trigger writes the connection.
LEMMA ChangedConn ==
  ASSUME Typed, TaskChanged
  PROVE  conn' \in Conns
<1>1. conn \in Conns /\ Scanning \in BOOLEAN
  BY DEF Typed, Scanning
<1>2. [conn EXCEPT !.changed = Scanning] \in Conns
  BY <1>1 DEF Conns
<1> QED BY <1>1, <1>2 DEF TaskChanged

\* Requests and changes that leave links, Google and the job alone.
LEMMA TaskStepsTyped ==
  ASSUME Typed, NEW t \in Tasks,
         \/ CreateTask(t) \/ DeleteTask(t) \/ DeleteReversibly(t) \/ UndoDelete(t) \/ UndoExpires(t)
         \/ \E x \in Fields : EditTask(t, x)
  PROVE  Typed'
<1>1. edits \in Nat => edits' \in Nat
  BY DEF CreateTask, DeleteTask, DeleteReversibly, UndoDelete, UndoExpires, EditTask, Move, Edit
<1>2. UNCHANGED <<link, google, snap, scan, cur, plan, decided>>
  BY DEF CreateTask, DeleteTask, DeleteReversibly, UndoDelete, UndoExpires, EditTask, jobVars
<1>3. held' \subseteq Tasks
  BY DEF Typed, CreateTask, DeleteTask, DeleteReversibly, UndoDelete, UndoExpires, EditTask
<1>4. task' \in [Tasks -> TaskRows]
  <2>1. task \in [Tasks -> TaskRows] /\ task[t] \in TaskRows
    BY DEF Typed
  <2>2. CASE CreateTask(t)
    BY <2>1, <2>2, Empties DEF CreateTask, TaskRows
  <2>3. CASE DeleteTask(t) \/ UndoExpires(t)
    BY <2>1, <2>3, Empties DEF DeleteTask, UndoExpires
  <2>4. CASE DeleteReversibly(t)
    BY <2>1, <2>4 DEF DeleteReversibly, TaskRows
  <2>5. CASE UndoDelete(t)
    BY <2>1, <2>5 DEF UndoDelete, TaskRows
  <2>6. ASSUME NEW x \in Fields, EditTask(t, x) PROVE task' \in [Tasks -> TaskRows]
    <3>1. edits' \in Nat
      BY <1>1 DEF Typed
    <3> QED BY <2>6, <3>1, EditedTask DEF EditTask
  <2> QED BY <2>2, <2>3, <2>4, <2>5, <2>6
<1>5. conn' \in Conns
  <2>1. TaskChanged \/ conn' = conn
    BY DEF CreateTask, DeleteTask, DeleteReversibly, UndoDelete, UndoExpires, EditTask
  <2> QED BY <2>1, ChangedConn DEF Typed
<1> QED BY <1>1, <1>2, <1>3, <1>4, <1>5 DEF Typed

\* Changes made in Google keep the types.
LEMMA GoogleStepsTyped ==
  ASSUME Typed, NEW g \in Items,
         \/ GoogleCreate(g) \/ \E x \in Fields : GoogleEdit(g, x)
         \/ \E st \in {"deleted", "purged"} : GoogleDelete(g, st)
  PROVE  Typed'
<1>1. edits \in Nat => edits' \in Nat
  BY DEF GoogleCreate, GoogleEdit, GoogleDelete, Move, Edit
<1>2. UNCHANGED <<task, held, link, conn, snap, scan, cur, plan, decided>>
  BY DEF GoogleCreate, GoogleEdit, GoogleDelete, GoogleUnchangedElsewhere, tasks, jobVars
<1>3. google' \in [Items -> ItemRows]
  <2>1. google \in [Items -> ItemRows] /\ google[g] \in ItemRows
    BY DEF Typed
  <2>2. CASE GoogleCreate(g)
    BY <2>1, <2>2, Empties DEF GoogleCreate, ItemRows
  <2>3. ASSUME NEW x \in Fields, GoogleEdit(g, x) PROVE google' \in [Items -> ItemRows]
    <3>1. edits' \in Nat
      BY <1>1 DEF Typed
    <3> QED BY <2>3, <3>1, EditedItem DEF GoogleEdit
  <2>4. ASSUME NEW st \in {"deleted", "purged"}, GoogleDelete(g, st) PROVE google' \in [Items -> ItemRows]
    BY <2>1, <2>4 DEF GoogleDelete, ItemRows
  <2> QED BY <2>2, <2>3, <2>4
<1> QED BY <1>1, <1>2, <1>3 DEF Typed

\* Steps that write no row of a task, a link or Google, except the choice or the phase of a link.
LEMMA RequestsTyped ==
  ASSUME Typed,
         \/ Enable \/ Disable \/ Periodic \/ SkipJob \/ ListingFails
         \/ \E t \in Tasks : LeaveUnlinked(t) \/ \E c \in {"google", "prosepect"} : ResolveConflict(t, c)
  PROVE  Typed'
<1>1. edits' = edits /\ UNCHANGED <<task, held, google, snap, scan, cur, plan>>
  BY DEF Enable, Disable, Move, Periodic, SkipJob, ListingFails, LeaveUnlinked, ResolveConflict, tasks, jobVars, World
<1>2. link' \in [Tasks -> LinkRows] /\ decided' \in [Tasks -> Conflicts]
  <2>1. CASE Enable \/ Disable \/ Periodic \/ SkipJob \/ ListingFails
    BY <2>1 DEF Typed, Enable, Disable, Periodic, SkipJob, ListingFails
  <2>2. ASSUME NEW t \in Tasks, LeaveUnlinked(t) PROVE <1>2!:
    BY <2>2 DEF Typed, LeaveUnlinked, LinkRows, Phases
  <2>3. ASSUME NEW t \in Tasks, NEW c \in {"google", "prosepect"}, ResolveConflict(t, c) PROVE <1>2!:
    <3>1. link[t] \in LinkRows /\ link[t].conflict \in Conflicts
      BY RowTypes
    <3>2. [link[t] EXCEPT !.choice = c] \in LinkRows
      BY <3>1 DEF LinkRows
    <3> QED BY <2>3, <3>1, <3>2 DEF Typed, ResolveConflict
  <2> QED BY <2>1, <2>2, <2>3
<1>3. conn' \in Conns
  <2>1. conn \in Conns /\ Scanning \in BOOLEAN
    BY DEF Typed, Scanning
  <2>2. \A b \in BOOLEAN : ResetScan(b) \in Conns
    BY <2>1 DEF ResetScan, Conns
  <2>3. [conn EXCEPT !.changed = Scanning] \in Conns
    BY <2>1 DEF Conns
  <2> QED BY <2>1, <2>2, <2>3 DEF Enable, Disable, Periodic, SkipJob, ListingFails, LeaveUnlinked, ResolveConflict
<1> QED BY <1>1, <1>2, <1>3 DEF Typed

\* Rows written by the job.
LEMMA RecordedRow ==
  ASSUME Typed, NEW t \in Tasks, NEW g \in Items \cup {0}, NEW e \in Nat, NEW b \in Contents
  PROVE  LET r == Recorded(t, g, e, b) IN
         /\ r \in LinkRows /\ r.phase = "linked" /\ r.ext = g /\ r.base = b /\ r.etag = e
         /\ r.id = link[t].id /\ r.choice = "none"
<1>1. link[t] \in LinkRows /\ NoConflict \in Conflicts
  BY RowTypes, Empties
<1> QED BY <1>1 DEF Recorded, LinkRows, Phases

\* A detached link keeps everything but its phase, its conflict and the choice.
LEMMA DetachedRow ==
  ASSUME Typed, NEW t \in Tasks
  PROVE  LET r == Detached(t) IN
         /\ r \in LinkRows /\ r.phase = "detached" /\ r.ext = link[t].ext /\ r.base = link[t].base
         /\ r.id = link[t].id /\ r.choice = "none" /\ r.etag = link[t].etag
<1>1. link[t] \in LinkRows /\ NoConflict \in Conflicts
  BY RowTypes, Empties
<1> QED BY <1>1 DEF Detached, LinkRows, Phases

\* One link is written.
LEMMA WrittenLink ==
  ASSUME Typed, NEW t \in Tasks, NEW r \in LinkRows, SetLink(t, r)
  PROVE  /\ link' \in [Tasks -> LinkRows] /\ link'[t] = r
         /\ \A u \in Tasks : u # t => link'[u] = link[u]
BY DEF Typed, SetLink

\* The job turns to the next link.
LEMMA EndedLink ==
  ASSUME Typed, link' \in [Tasks -> LinkRows], NEW t \in Tasks, NEW e \in BOOLEAN, NEW r, LinkEnds(t, e, r)
  PROVE  /\ jpc' = "link" /\ cur' = 0 /\ plan' = NoPlan /\ plan' \in Plans
         /\ scan' \in Scans /\ scan'.todo = scan.todo \ {t} /\ scan'.lc = link[t].id
         /\ scan'.ic = scan.ic /\ scan'.imported = scan.imported /\ scan'.more = scan.more
         /\ scan'.errs = (scan.errs \/ e)
         /\ decided' \in [Tasks -> Conflicts]
         /\ \A u \in Tasks : decided'[u] = IF u = t /\ link'[t].choice = "none" THEN NoConflict ELSE decided[u]
<1>1. jpc' = "link" /\ cur' = 0 /\ plan' = NoPlan
  BY DEF LinkEnds
<1>2. /\ decided' \in [Tasks -> Conflicts]
      /\ \A u \in Tasks : decided'[u] = IF u = t /\ link'[t].choice = "none" THEN NoConflict ELSE decided[u]
  BY Empties DEF Typed, LinkEnds
<1>3. /\ scan \in Scans /\ link[t].id \in Nat
      /\ scan' = [scan EXCEPT !.todo = @ \ {t}, !.lc = link[t].id, !.errs = @ \/ e]
  BY RowTypes DEF Typed, LinkEnds
<1>4. scan' \in Scans
  BY <1>3 DEF Scans
<1>5. /\ scan'.todo = scan.todo \ {t} /\ scan'.lc = link[t].id
      /\ scan'.ic = scan.ic /\ scan'.imported = scan.imported /\ scan'.more = scan.more
      /\ scan'.errs = (scan.errs \/ e)
  BY <1>3 DEF Scans
<1> QED BY <1>1, <1>2, <1>4, <1>5, Empties

\* StartJob prepares links with new identities.
LEMMA StartedJob ==
  ASSUME Typed, StartJob
  PROVE  /\ link' \in [Tasks -> LinkRows]
         /\ \E N \in SUBSET Tasks :
              /\ \A t \in Tasks : t \notin N => link'[t] = link[t]
              /\ \A t \in N : /\ link[t] = NoLink /\ link'[t].phase = "prepared" /\ link'[t].ext = 0
                              /\ link'[t].choice = "none" /\ link'[t].id > 0 /\ task[t].live
                              /\ link'[t].base = Unset
                              /\ \A u \in Tasks : link[u].id < link'[t].id
              /\ \A t, u \in N : link'[t].id = link'[u].id => t = u
<1> DEFINE unlinked == {t \in Tasks : task[t].live /\ link[t] = NoLink}
           N == First(unlinked, LAMBDA t : t)
           m == Max({link[t].id : t \in Tasks})
           rank(t) == Cardinality({u \in N : u <= t})
           row(t) == [NoLink EXCEPT !.phase = "prepared", !.id = m + rank(t)]
<1>1. link' = [t \in Tasks |-> IF t \in N THEN row(t) ELSE link[t]]
  BY DEF StartJob
<1>2. N \in SUBSET Tasks /\ \A t \in N : task[t].live /\ link[t] = NoLink
  <2>1. N \in SUBSET unlinked
    BY DEF First
  <2> QED BY <2>1
<1>3. m \in Nat /\ \A t \in Tasks : link[t].id <= m
  <2> DEFINE F == [t \in Tasks |-> link[t].id]
  <2>1. F \in [Tasks -> Nat] /\ \A t \in Tasks : F[t] = link[t].id
    BY RowTypes
  <2>2. {F[t] : t \in Tasks} = {link[t].id : t \in Tasks}
    BY <2>1
  <2> HIDE DEF F
  <2>3. Max({F[t] : t \in Tasks}) \in Nat /\ \A t \in Tasks : F[t] <= Max({F[t_1] : t_1 \in Tasks})
    BY <2>1, GreatestOf
  <2> QED BY <2>1, <2>2, <2>3
<1> HIDE DEF unlinked, N, m
<1>4. /\ \A t \in N : rank(t) \in Nat \ {0}
      /\ \A t, u \in N : rank(t) = rank(u) => t = u
  BY <1>2, Ranks
<1> HIDE DEF rank
<1>5. \A t \in N : /\ row(t) \in LinkRows /\ row(t).phase = "prepared" /\ row(t).ext = 0
                   /\ row(t).id = m + rank(t) /\ row(t).choice = "none" /\ row(t).base = Unset
  <2> SUFFICES ASSUME NEW t \in N
               PROVE  /\ row(t) \in LinkRows /\ row(t).phase = "prepared" /\ row(t).ext = 0
                      /\ row(t).id = m + rank(t) /\ row(t).choice = "none" /\ row(t).base = Unset
    OBVIOUS
  <2>1. m + rank(t) \in Nat
    BY <1>3, <1>4
  <2>2. NoLink \in LinkRows /\ NoLink.ext = 0 /\ NoLink.choice = "none" /\ NoLink.base = Unset
    BY Empties DEF NoLink
  <2> QED BY <2>1, <2>2 DEF LinkRows, Phases
<1> HIDE DEF row
<1>6. /\ link' \in [Tasks -> LinkRows]
      /\ \A t \in N : link'[t] = row(t)
      /\ \A t \in Tasks : t \notin N => link'[t] = link[t]
  BY <1>1, <1>2, <1>5, RowTypes
<1>7. \A t \in N, u \in Tasks : link[u].id < link'[t].id /\ link'[t].id > 0
  BY <1>3, <1>4, <1>5, <1>6, RowTypes
<1>8. \A t, u \in N : link'[t].id = link'[u].id => t = u
  BY <1>3, <1>4, <1>5, <1>6
<1> QED BY <1>2, <1>5, <1>6, <1>7, <1>8

\* What reconcile makes of each field: both sides keep a change of their own, unless both
\* changed the field and the preferred side decides.
KeepsChanges(m, b, l, r, p) ==
    \A x \in Fields :
        /\ m[x] = l[x] \/ (m[x] = r[x] /\ l[x] = b[x]) \/ (m[x] = p[x] /\ Merge(b[x], l[x], r[x]) = {})
        /\ m[x] = r[x] \/ (m[x] = l[x] /\ r[x] = b[x]) \/ (m[x] = p[x] /\ Merge(b[x], l[x], r[x]) = {})

\* Reconcile does so.
LEMMA Reconciled ==
  ASSUME NEW b \in Contents, NEW l \in Contents, NEW r \in Contents, NEW p \in Contents
  PROVE  Reconcile(b, l, r, p) \in Contents /\ KeepsChanges(Reconcile(b, l, r, p), b, l, r, p)
<1> DEFINE m == Reconcile(b, l, r, p)
           M(x) == Merge(b[x], l[x], r[x])
<1>1. m = [x \in Fields |-> IF M(x) # {} THEN CHOOSE v \in M(x) : TRUE ELSE p[x]]
  BY DEF Reconcile
<1>2. \A x \in Fields : \/ M(x) = {l[x]} /\ (l[x] = r[x] \/ r[x] = b[x])
                        \/ M(x) = {r[x]} /\ l[x] = b[x]
                        \/ M(x) = {}
  BY DEF Merge
<1> HIDE DEF m, M
<1>3. \A x \in Fields : M(x) # {} => m[x] \in M(x)
  BY <1>1
<1>4. \A x \in Fields : M(x) = {} => m[x] = p[x]
  BY <1>1
<1>5. ASSUME NEW x \in Fields
      PROVE  /\ m[x] \in Nat
             /\ m[x] = l[x] \/ (m[x] = r[x] /\ l[x] = b[x]) \/ (m[x] = p[x] /\ M(x) = {})
             /\ m[x] = r[x] \/ (m[x] = l[x] /\ r[x] = b[x]) \/ (m[x] = p[x] /\ M(x) = {})
  <2>1. l[x] \in Nat /\ r[x] \in Nat /\ p[x] \in Nat
    BY DEF Contents
  <2>2. CASE M(x) = {}
    BY <1>4, <2>1, <2>2
  <2>3. CASE M(x) = {l[x]} /\ (l[x] = r[x] \/ r[x] = b[x])
    <3>1. m[x] = l[x]
      BY <1>3, <2>3
    <3> QED BY <2>1, <2>3, <3>1
  <2>4. CASE M(x) = {r[x]} /\ l[x] = b[x]
    <3>1. m[x] = r[x]
      BY <1>3, <2>4
    <3> QED BY <2>1, <2>4, <3>1
  <2> QED BY <1>2, <2>2, <2>3, <2>4
<1>6. m \in Contents
  BY <1>1, <1>5 DEF Contents
<1>7. KeepsChanges(m, b, l, r, p)
  BY <1>5 DEF KeepsChanges, M
<1> QED BY <1>6, <1>7 DEF m

---------------------------------------------------------------------------
(* Copies *)

\* A link has the identities that its phase says.
LinkInv ==
    \A t \in Tasks : LET l == link[t] IN
        /\ l.phase = "none" => l = NoLink
        /\ l.phase # "none" => l.id > 0
        /\ l.phase \in {"prepared", "creating"} => l.ext = 0
        /\ l.phase = "linked" => l.ext # 0

\* No two links have one id,
IdInv == \A t, u \in Tasks : link[t].id = link[u].id => t = u \/ link[t].id = 0

\* the reference of an item is the id of a link, and no two items have one reference.
ItemInv ==
    /\ \A g \in Items : google[g].st = "unused" => google[g].ref = 0
    /\ \A g \in Items : google[g].ref # 0 => \E t \in Tasks : link[t].id = google[g].ref
    /\ \A g, h \in Items : google[g].ref = google[h].ref => g = h \/ google[g].ref = 0

\* A link that has an item is alone with it, and the reference, if there is one, says the same.
ExtInv ==
    \A t \in Tasks : link[t].ext # 0 =>
        /\ google[link[t].ext].st # "unused"
        /\ \A u \in Tasks : link[u].ext = link[t].ext => u = t
        /\ google[link[t].ext].ref = 0 \/ google[link[t].ext].ref = link[t].id
        /\ \A g \in Items : google[g].ref = link[t].id => g = link[t].ext

\* Nothing was created for a link that may be created.
Uncreated(t) == \A g \in Items : google[g].ref # link[t].id

PreparedInv == \A t \in Tasks : link[t].phase = "prepared" => Uncreated(t)

\* What a listing has shown exists, with the same reference.
SnapInv == \A g \in Items : snap[g].st # "unused" => google[g].st # "unused" /\ snap[g].ref = google[g].ref

\* The link a job works on, and the item it is about to record.
JobInv ==
    /\ jpc \in {"post", "patch", "apply", "record"} => cur \in Tasks
    /\ jpc = "post" => link[cur].phase = "creating" /\ Uncreated(cur)
    /\ jpc \in {"patch", "apply"} => link[cur].phase = "linked" /\ plan.item = link[cur].ext
    /\ jpc = "record" => /\ plan.item \in Items
                         /\ \/ link[cur].phase = "linked" /\ plan.item = link[cur].ext
                            \/ link[cur].phase = "creating" /\ google[plan.item].ref = link[cur].id

\* A job works on links there are.
TodoInv == \A t \in scan.todo : link[t].phase # "none"

CopyInv == TodoInv /\ LinkInv /\ IdInv /\ ItemInv /\ ExtInv /\ PreparedInv /\ SnapInv /\ JobInv

\* Identities and references that stay keep the copies apart.
LEMMA SameIdentities ==
  ASSUME Typed, Typed', CopyInv,
         \A t \in Tasks : link'[t].id = link[t].id /\ link'[t].ext = link[t].ext,
         \A g \in Items : /\ google'[g].ref = google[g].ref
                          /\ google[g].st # "unused" => google'[g].st # "unused"
  PROVE  /\ IdInv' /\ ItemInv' /\ ExtInv'
         /\ \A t \in Tasks : Uncreated(t)' <=> Uncreated(t)
<1>1. IdInv'
  BY DEF CopyInv, IdInv
<1>2. ItemInv'
  BY DEF CopyInv, ItemInv
<1>3. ExtInv'
  <2>1. \A t \in Tasks : link[t].ext \in Items \cup {0}
    BY RowTypes
  <2> QED BY <2>1 DEF CopyInv, ExtInv
<1>4. \A t \in Tasks : Uncreated(t)' <=> Uncreated(t)
  BY DEF Uncreated
<1> QED BY <1>1, <1>2, <1>3, <1>4

\* A job that is idle, or between two links, has promised nothing.
LEMMA JobFree ==
  ASSUME jpc' \in {"idle", "link"}
  PROVE  JobInv'
BY DEF JobInv

\* Steps that leave the job and the identities alone.
LEMMA JobKept ==
  ASSUME Typed, Typed', CopyInv, UNCHANGED <<jpc, cur, plan, snap, scan>>,
         \A t \in Tasks : /\ link'[t].id = link[t].id /\ link'[t].ext = link[t].ext
                          /\ link'[t].phase = link[t].phase /\ (link[t] = NoLink => link'[t] = NoLink),
         \A g \in Items : /\ google'[g].ref = google[g].ref
                          /\ google[g].st # "unused" => google'[g].st # "unused"
  PROVE  CopyInv'
<1>1. /\ IdInv' /\ ItemInv' /\ ExtInv'
      /\ \A t \in Tasks : Uncreated(t)' <=> Uncreated(t)
  BY SameIdentities
<1>2. LinkInv'
  BY DEF CopyInv, LinkInv
<1>3. PreparedInv'
  BY <1>1 DEF CopyInv, PreparedInv
<1>4. SnapInv'
  BY DEF CopyInv, SnapInv
<1>5. JobInv'
  <2>1. jpc' = jpc /\ cur' = cur /\ plan' = plan
    OBVIOUS
  <2>2. JobInv
    BY DEF CopyInv
  <2> QED BY <1>1, <2>1, <2>2 DEF JobInv
<1>6. TodoInv'
  <2>1. scan.todo \subseteq Tasks /\ scan' = scan
    BY DEF Typed, Scans
  <2> QED BY <2>1 DEF CopyInv, TodoInv
<1> QED BY <1>1, <1>2, <1>3, <1>4, <1>5, <1>6 DEF CopyInv

\* Changes of tasks do not touch copies,
LEMMA TaskStepsCopies ==
  ASSUME Typed, CopyInv, NEW t \in Tasks,
         \/ CreateTask(t) \/ DeleteTask(t) \/ DeleteReversibly(t) \/ UndoDelete(t) \/ UndoExpires(t)
         \/ \E x \in Fields : EditTask(t, x)
  PROVE  CopyInv'
<1>1. UNCHANGED <<link, google, snap, scan, jpc, cur, plan>>
  BY DEF CreateTask, DeleteTask, DeleteReversibly, UndoDelete, UndoExpires, EditTask, jobVars
<1>2. Typed'
  BY TaskStepsTyped
<1> QED BY <1>1, <1>2, JobKept

\* nor do changes in Google,
LEMMA GoogleStepsCopies ==
  ASSUME Typed, CopyInv, NEW g \in Items,
         \/ GoogleCreate(g) \/ \E x \in Fields : GoogleEdit(g, x)
         \/ \E st \in {"deleted", "purged"} : GoogleDelete(g, st)
  PROVE  CopyInv'
<1>1. UNCHANGED <<link, snap, scan, jpc, cur, plan>>
  BY DEF GoogleCreate, GoogleEdit, GoogleDelete, GoogleUnchangedElsewhere, tasks, jobVars
<1>2. Typed'
  BY GoogleStepsTyped
<1>3. \A h \in Items : /\ google'[h].ref = google[h].ref
                       /\ google[h].st # "unused" => google'[h].st # "unused"
  <2>1. google \in [Items -> ItemRows] /\ google[g] \in ItemRows
    BY DEF Typed
  <2>2. CASE GoogleCreate(g)
    <3>1. google[g].st = "unused" /\ google[g].ref = 0
      BY <2>2 DEF GoogleCreate, CopyInv, ItemInv
    <3> QED BY <2>1, <2>2, <3>1 DEF GoogleCreate
  <2>3. ASSUME NEW x \in Fields, GoogleEdit(g, x) PROVE <1>3!:
    <3>1. edits' \in Nat
      BY <1>2 DEF Typed
    <3> QED BY <2>3, <3>1, EditedItem DEF GoogleEdit
  <2>4. ASSUME NEW st \in {"deleted", "purged"}, GoogleDelete(g, st) PROVE <1>3!:
    BY <2>1, <2>4 DEF GoogleDelete, ItemRows
  <2> QED BY <2>2, <2>3, <2>4
<1> QED BY <1>1, <1>2, <1>3, JobKept

\* nor requests.
LEMMA RequestsCopies ==
  ASSUME Typed, CopyInv,
         \/ Enable \/ Disable \/ Periodic \/ SkipJob \/ ListingFails
         \/ \E t \in Tasks : LeaveUnlinked(t) \/ \E c \in {"google", "prosepect"} : ResolveConflict(t, c)
  PROVE  CopyInv'
<1>1. UNCHANGED <<google, snap, scan, jpc, cur, plan>>
  BY DEF Enable, Disable, Periodic, SkipJob, ListingFails, LeaveUnlinked, ResolveConflict, jobVars
<1>2. Typed'
  BY RequestsTyped
<1>3. CASE Enable \/ Disable \/ Periodic \/ SkipJob \/ ListingFails
  <2>1. link' = link
    BY <1>3 DEF Enable, Disable, Periodic, SkipJob, ListingFails
  <2> QED BY <1>1, <1>2, <2>1, JobKept
<1>4. ASSUME NEW t \in Tasks, NEW c \in {"google", "prosepect"}, ResolveConflict(t, c) PROVE CopyInv'
  <2>1. link' = [link EXCEPT ![t].choice = c] /\ link[t].phase = "linked" /\ link \in [Tasks -> LinkRows]
    BY <1>4 DEF ResolveConflict, Typed
  <2>2. link[t] # NoLink
    BY <2>1 DEF NoLink
  <2>3. \A u \in Tasks : /\ link'[u].id = link[u].id /\ link'[u].ext = link[u].ext
                         /\ link'[u].phase = link[u].phase /\ (link[u] = NoLink => link'[u] = NoLink)
    BY <2>1, <2>2 DEF LinkRows
  <2> QED BY <1>1, <1>2, <2>3, JobKept
<1>5. ASSUME NEW t \in Tasks, LeaveUnlinked(t) PROVE CopyInv'
  <2>1. link' = [link EXCEPT ![t].phase = "detached"] /\ link \in [Tasks -> LinkRows] /\ jpc = "idle"
        /\ link[t].phase = "creating"
    BY <1>5 DEF LeaveUnlinked, Typed
  <2>2. /\ link'[t].phase = "detached" /\ link'[t].id = link[t].id /\ link'[t].ext = link[t].ext
        /\ \A u \in Tasks : u # t => link'[u] = link[u]
    BY <2>1 DEF LinkRows
  <2>3. /\ IdInv' /\ ItemInv' /\ ExtInv'
        /\ \A u \in Tasks : Uncreated(u)' <=> Uncreated(u)
    BY <1>1, <1>2, <2>2, SameIdentities
  <2>4. LinkInv' /\ PreparedInv'
    BY <2>1, <2>2, <2>3 DEF CopyInv, LinkInv, PreparedInv
  <2>5. SnapInv' /\ JobInv'
    BY <1>1, <2>1, JobFree DEF CopyInv, SnapInv
  <2>6. TodoInv'
    <3>1. scan.todo \subseteq Tasks /\ scan' = scan
      BY <1>1 DEF Typed, Scans
    <3> QED BY <2>1, <2>2, <3>1 DEF CopyInv, TodoInv
  <2> QED BY <2>3, <2>4, <2>5, <2>6 DEF CopyInv
<1> QED BY <1>3, <1>4, <1>5

\* The end of the work on a link that keeps its identities.
LEMMA LinkStep ==
  ASSUME Typed, CopyInv, NEW t \in Tasks, NEW r \in LinkRows, SetLink(t, r), NEW e \in BOOLEAN, NEW q,
         LinkEnds(t, e, q), UNCHANGED <<edits, task, held, conn, google, snap>>,
         r.id = link[t].id, r.ext = link[t].ext, r.phase # "none", link[t].phase # "none",
         r.phase \in {"prepared", "creating"} => link[t].phase \in {"prepared", "creating"},
         r.phase = "linked" => link[t].phase = "linked",
         r.phase = "prepared" => Uncreated(t)
  PROVE  Typed' /\ CopyInv'
<1>1. /\ link' \in [Tasks -> LinkRows] /\ link'[t] = r
      /\ \A u \in Tasks : u # t => link'[u] = link[u]
  BY WrittenLink
<1>2. /\ jpc' = "link" /\ cur' = 0 /\ plan' \in Plans /\ decided' \in [Tasks -> Conflicts]
      /\ scan' \in Scans /\ scan'.todo \subseteq scan.todo /\ scan.todo \subseteq Tasks
  BY <1>1, EndedLink DEF Typed, Scans
<1>3. Typed'
  BY <1>1, <1>2 DEF Typed
<1>4. /\ IdInv' /\ ItemInv' /\ ExtInv'
      /\ \A u \in Tasks : Uncreated(u)' <=> Uncreated(u)
  BY <1>1, <1>3, SameIdentities
<1>5. LinkInv'
  BY <1>1 DEF CopyInv, LinkInv
<1>6. PreparedInv'
  BY <1>1, <1>4 DEF CopyInv, PreparedInv
<1>7. SnapInv' /\ JobInv'
  BY <1>2, JobFree DEF CopyInv, SnapInv
<1>8. TodoInv'
  BY <1>1, <1>2 DEF CopyInv, TodoInv
<1> QED BY <1>3, <1>4, <1>5, <1>6, <1>7, <1>8 DEF CopyInv

\* The end of the work on a link that is not written.
LEMMA NoLinkStep ==
  ASSUME Typed, CopyInv, NEW t \in Tasks, link' = link, NEW e \in BOOLEAN, NEW q,
         LinkEnds(t, e, q), UNCHANGED <<edits, task, held, conn, snap>>, google' \in [Items -> ItemRows],
         \A g \in Items : /\ google'[g].ref = google[g].ref
                          /\ google[g].st # "unused" => google'[g].st # "unused"
  PROVE  Typed' /\ CopyInv'
<1>1. link' \in [Tasks -> LinkRows]
  BY DEF Typed
<1>2. /\ jpc' = "link" /\ cur' = 0 /\ plan' \in Plans /\ decided' \in [Tasks -> Conflicts]
      /\ scan' \in Scans /\ scan'.todo \subseteq scan.todo /\ scan.todo \subseteq Tasks
  BY <1>1, EndedLink DEF Typed, Scans
<1>3. Typed'
  BY <1>1, <1>2 DEF Typed
<1>4. /\ IdInv' /\ ItemInv' /\ ExtInv'
      /\ \A u \in Tasks : Uncreated(u)' <=> Uncreated(u)
  BY <1>3, SameIdentities
<1>5. LinkInv' /\ PreparedInv'
  BY <1>4 DEF CopyInv, LinkInv, PreparedInv
<1>6. SnapInv' /\ JobInv'
  BY <1>2, JobFree DEF CopyInv, SnapInv
<1>7. TodoInv'
  BY <1>2 DEF CopyInv, TodoInv
<1> QED BY <1>3, <1>4, <1>5, <1>6, <1>7 DEF CopyInv

\* A link that takes an item it is known by, and nobody else has.
LEMMA LinkedStep ==
  ASSUME Typed, CopyInv, NEW t \in Tasks, NEW g \in Items, NEW r \in LinkRows, SetLink(t, r), NEW e \in BOOLEAN, NEW q,
         LinkEnds(t, e, q), UNCHANGED <<edits, task, held, conn, google, snap>>,
         r.id = link[t].id, r.ext = g, r.phase = "linked", link[t].phase # "none",
         link[t].ext = g \/ (link[t].ext = 0 /\ google[g].ref = link[t].id)
  PROVE  Typed' /\ CopyInv'
<1>1. /\ link' \in [Tasks -> LinkRows] /\ link'[t] = r
      /\ \A u \in Tasks : u # t => link'[u] = link[u]
  BY WrittenLink
<1>2. /\ jpc' = "link" /\ cur' = 0 /\ plan' \in Plans /\ decided' \in [Tasks -> Conflicts]
      /\ scan' \in Scans /\ scan'.todo \subseteq scan.todo /\ scan.todo \subseteq Tasks
  BY <1>1, EndedLink DEF Typed, Scans
<1>3. Typed'
  BY <1>1, <1>2 DEF Typed
<1>4. link[t].id > 0 /\ g # 0 /\ \A u \in Tasks : link'[u].id = link[u].id
  BY <1>1, TasksAssumption DEF CopyInv, LinkInv, Items
<1>5. IdInv' /\ ItemInv'
  BY <1>4 DEF CopyInv, IdInv, ItemInv
<1>6. ExtInv'
  <2>1. CASE link[t].ext = g
    <3>1. \A u \in Tasks : link'[u].id = link[u].id /\ link'[u].ext = link[u].ext
      BY <1>1, <2>1
    <3> QED BY <1>3, <3>1, SameIdentities
  <2>2. CASE link[t].ext = 0 /\ google[g].ref = link[t].id
    <3>1. google[g].ref # 0 /\ google[g].st # "unused"
      BY <1>4, <2>2, RowTypes DEF CopyInv, ItemInv
    <3>2. \A u \in Tasks : u # t => link[u].ext # g
      <4>1. ASSUME NEW u \in Tasks, u # t, link[u].ext = g PROVE FALSE
        <5>1. google[g].ref = link[u].id
          BY <1>4, <3>1, <4>1 DEF CopyInv, ExtInv
        <5> QED BY <2>2, <3>1, <4>1, <5>1 DEF CopyInv, IdInv
      <4> QED BY <4>1
    <3>3. \A h \in Items : google[h].ref = link[t].id => h = g
      BY <2>2, <3>1 DEF CopyInv, ItemInv
    <3>4. ASSUME NEW u \in Tasks, link'[u].ext # 0
          PROVE  /\ google[link'[u].ext].st # "unused"
                 /\ \A v \in Tasks : link'[v].ext = link'[u].ext => v = u
                 /\ google[link'[u].ext].ref = 0 \/ google[link'[u].ext].ref = link[u].id
                 /\ \A h \in Items : google[h].ref = link[u].id => h = link'[u].ext
      <4>1. CASE u = t
        BY <1>1, <2>2, <3>1, <3>2, <3>3, <4>1
      <4>2. CASE u # t
        BY <1>1, <3>2, <3>4, <4>2 DEF CopyInv, ExtInv
      <4> QED BY <4>1, <4>2
    <3> QED BY <1>4, <3>4 DEF ExtInv
  <2> QED BY <2>1, <2>2
<1>7. LinkInv'
  BY <1>1, <1>4 DEF CopyInv, LinkInv
<1>8. PreparedInv'
  BY <1>1, <1>4 DEF CopyInv, PreparedInv, Uncreated
<1>9. SnapInv' /\ JobInv'
  BY <1>2, JobFree DEF CopyInv, SnapInv
<1>10. TodoInv'
  BY <1>1, <1>2 DEF CopyInv, TodoInv
<1> QED BY <1>3, <1>5, <1>6, <1>7, <1>8, <1>9, <1>10 DEF CopyInv

\* What the steps of a job on a link have in common.
LEMMA OnLink ==
  ASSUME Typed, CopyInv, NEW t \in Tasks, NextLink(t), LinkUnchanged
  PROVE  /\ jpc = "link" /\ link[t].phase # "none"
         /\ UNCHANGED <<edits, task, held, conn, google, snap>>
         /\ google' \in [Items -> ItemRows]
BY DEF Typed, CopyInv, TodoInv, NextLink, LinkUnchanged, World, tasks

\* Steps of the job that leave the identities of the link as they are.
LEMMA PlainLinkSteps ==
  ASSUME Typed, CopyInv, NEW t \in Tasks,
         PassHeld(t) \/ DetachDeleted(t) \/ DetachMissing(t) \/ RecordConflict(t)
  PROVE  Typed' /\ CopyInv'
<1>1. NextLink(t) /\ LinkUnchanged
  BY DEF PassHeld, DetachDeleted, DetachMissing, RecordConflict, Linked
<1>2. /\ jpc = "link" /\ link[t].phase # "none"
      /\ UNCHANGED <<edits, task, held, conn, google, snap>>
      /\ google' \in [Items -> ItemRows]
  BY <1>1, OnLink
<1>3. PICK e \in BOOLEAN : LinkEnds(t, e, FALSE)
  BY DEF PassHeld, DetachDeleted, DetachMissing, RecordConflict, LinkDone
<1>4. CASE link' = link
  BY <1>2, <1>3, <1>4, NoLinkStep
<1>5. CASE SetLink(t, Detached(t))
  <2>1. /\ Detached(t) \in LinkRows /\ Detached(t).phase = "detached"
        /\ Detached(t).ext = link[t].ext /\ Detached(t).id = link[t].id
    BY DetachedRow
  <2> QED BY <1>2, <1>3, <1>5, <2>1, LinkStep
<1>6. ASSUME RecordConflict(t), link' # link PROVE Typed' /\ CopyInv'
  <2> DEFINE c == [version |-> task[t].version, etag |-> Remote(t).etag,
                   local |-> task[t].f, google |-> Remote(t).f]
             r == [link[t] EXCEPT !.choice = "none", !.conflict = c]
  <2>1. SetLink(t, r) /\ link[t].phase = "linked"
    BY <1>6 DEF RecordConflict, Linked
  <2>2. link[t].ext \in Items
    BY <2>1, RowTypes DEF CopyInv, LinkInv
  <2>3. Remote(t) \in ItemRows /\ Remote(t).etag \in Nat /\ Remote(t).f \in Contents
    BY <2>2, RowTypes DEF Remote
  <2>4. c \in Conflicts
    BY <2>3, RowTypes DEF Conflicts
  <2> HIDE DEF c
  <2>5. r \in LinkRows /\ r.id = link[t].id /\ r.ext = link[t].ext /\ r.phase = link[t].phase
    BY <2>4, RowTypes DEF LinkRows
  <2> HIDE DEF r
  <2> QED BY <1>2, <1>3, <2>1, <2>5, LinkStep
<1> QED BY <1>4, <1>5, <1>6 DEF PassHeld, DetachDeleted, DetachMissing, RecordConflict

\* A recovered creation takes the item with its reference.
LEMMA RecoverCopies ==
  ASSUME Typed, CopyInv, NEW t \in Tasks, RecoverCreate(t)
  PROVE  Typed' /\ CopyInv'
<1>1. /\ jpc = "link" /\ link[t].phase = "creating"
      /\ UNCHANGED <<edits, task, held, conn, google, snap>>
      /\ google' \in [Items -> ItemRows]
  BY OnLink DEF RecoverCreate
<1>2. CASE link' = link
  <2>1. PICK e \in BOOLEAN, q \in BOOLEAN : LinkEnds(t, e, q)
    BY DEF RecoverCreate, LinkDone
  <2> QED BY <1>1, <1>2, <2>1, NoLinkStep
<1>3. ASSUME link' # link PROVE Typed' /\ CopyInv'
  <2>1. PICK g \in Items : /\ snap[g].st \in {"live", "deleted"} /\ snap[g].ref = link[t].id
                           /\ SetLink(t, Recorded(t, g, snap[g].etag, link[t].base))
                           /\ LinkEnds(t, FALSE, TRUE)
    BY <1>3 DEF RecoverCreate
  <2>2. google[g].ref = link[t].id /\ link[t].ext = 0
    BY <1>1, <2>1 DEF CopyInv, SnapInv, LinkInv
  <2>3. /\ Recorded(t, g, snap[g].etag, link[t].base) \in LinkRows
        /\ Recorded(t, g, snap[g].etag, link[t].base).phase = "linked"
        /\ Recorded(t, g, snap[g].etag, link[t].base).ext = g
        /\ Recorded(t, g, snap[g].etag, link[t].base).id = link[t].id
    BY RowTypes, RecordedRow
  <2> QED BY <1>1, <2>1, <2>2, <2>3, LinkedStep
<1> QED BY <1>2, <1>3

\* The record after a creation or a merge.
LEMMA RecordCopies ==
  ASSUME Typed, CopyInv, RecordLink
  PROVE  Typed' /\ CopyInv'
<1>1. /\ cur \in Tasks /\ plan.item \in Items
      /\ \/ link[cur].phase = "linked" /\ plan.item = link[cur].ext
         \/ link[cur].phase = "creating" /\ google[plan.item].ref = link[cur].id
  BY DEF RecordLink, CopyInv, JobInv
<1>2. UNCHANGED <<edits, task, held, conn, google, snap>>
  BY DEF RecordLink, LinkUnchanged, World, tasks
<1> DEFINE r == Recorded(cur, plan.item, plan.etag, plan.merged)
<1>3. r \in LinkRows /\ r.phase = "linked" /\ r.ext = plan.item /\ r.id = link[cur].id
  BY <1>1, RowTypes, RecordedRow
<1>4. SetLink(cur, r) /\ LinkEnds(cur, FALSE, FALSE)
  BY DEF RecordLink, LinkDone
<1>5. link[cur].ext = plan.item \/ (link[cur].ext = 0 /\ google[plan.item].ref = link[cur].id)
  BY <1>1 DEF CopyInv, LinkInv
<1> HIDE DEF r
<1> QED BY <1>1, <1>2, <1>3, <1>4, <1>5, LinkedStep

\* A link is claimed before the request that creates its item.
LEMMA ClaimCopies ==
  ASSUME Typed, CopyInv, NEW t \in Tasks, ClaimCreate(t)
  PROVE  Typed' /\ CopyInv'
<1>1. /\ jpc = "link" /\ link[t].phase = "prepared"
      /\ UNCHANGED <<edits, task, held, conn, google, snap>>
  BY OnLink DEF ClaimCreate
<1>2. /\ SetLink(t, [link[t] EXCEPT !.phase = "creating", !.base = task[t].f])
      /\ cur' = t /\ jpc' = "post" /\ UNCHANGED <<scan, decided>>
      /\ plan' = [NoPlan EXCEPT !.local = task[t], !.merged = task[t].f]
  BY DEF ClaimCreate
<1> DEFINE r == [link[t] EXCEPT !.phase = "creating", !.base = task[t].f]
<1>3. /\ r \in LinkRows /\ r.phase = "creating" /\ r.id = link[t].id /\ r.ext = link[t].ext
      /\ r.choice = link[t].choice /\ r.base = task[t].f
  BY RowTypes DEF LinkRows, Phases
<1> HIDE DEF r
<1>4. /\ link' \in [Tasks -> LinkRows] /\ link'[t] = r
      /\ \A u \in Tasks : u # t => link'[u] = link[u]
  BY <1>2, <1>3, WrittenLink DEF r
<1>5. plan' \in Plans
  BY <1>2, RowTypes, Empties DEF Plans
<1>6. Typed'
  BY <1>1, <1>2, <1>4, <1>5 DEF Typed
<1>7. /\ IdInv' /\ ItemInv' /\ ExtInv'
      /\ \A u \in Tasks : Uncreated(u)' <=> Uncreated(u)
  BY <1>1, <1>3, <1>4, <1>6, SameIdentities
<1>8. LinkInv'
  BY <1>1, <1>3, <1>4 DEF CopyInv, LinkInv
<1>9. PreparedInv' /\ Uncreated(t)'
  BY <1>1, <1>3, <1>4, <1>7 DEF CopyInv, PreparedInv
<1>10. JobInv'
  BY <1>2, <1>3, <1>4, <1>9 DEF JobInv, Uncreated
<1>11. SnapInv'
  BY <1>1 DEF CopyInv, SnapInv
<1>12. TodoInv'
  <2>1. scan.todo \subseteq Tasks /\ scan' = scan
    BY <1>2 DEF Typed, Scans
  <2> QED BY <1>3, <1>4, <2>1 DEF CopyInv, TodoInv
<1> QED BY <1>6, <1>7, <1>8, <1>9, <1>10, <1>11, <1>12 DEF CopyInv

\* The item of a post is new, and the only one with its reference.
LEMMA PostedItem ==
  ASSUME Typed, CopyInv, jpc = "post", NEW g \in Items, PostCreates(g), link' = link, snap' = snap
  PROVE  /\ google' \in [Items -> ItemRows]
         /\ google'[g].ref = link[cur].id /\ google'[g].st = "live" /\ google'[g].f = plan.merged
         /\ google'[g].etag = 1
         /\ \A h \in Items : h # g => google'[h] = google[h]
         /\ LinkInv' /\ IdInv' /\ ItemInv' /\ ExtInv' /\ PreparedInv' /\ SnapInv'
<1>1. /\ cur \in Tasks /\ link[cur].phase = "creating" /\ Uncreated(cur)
      /\ link[cur].id > 0 /\ link[cur].ext = 0
  BY DEF CopyInv, JobInv, LinkInv
<1> DEFINE item == [st |-> "live", etag |-> 1, f |-> plan.merged, ref |-> link[cur].id]
<1>2. google[g].st = "unused" /\ google' = [google EXCEPT ![g] = item]
  BY DEF PostCreates
<1>3. item \in ItemRows
  BY <1>1, RowTypes DEF ItemRows
<1>4. item.ref = link[cur].id /\ item.st = "live" /\ item.f = plan.merged /\ item.etag = 1
  OBVIOUS
<1> HIDE DEF item
<1>5. /\ google' \in [Items -> ItemRows] /\ google'[g] = item
      /\ \A h \in Items : h # g => google'[h] = google[h]
  BY <1>2, <1>3 DEF Typed
<1>6. LinkInv' /\ IdInv'
  BY DEF CopyInv, LinkInv, IdInv
<1>7. ItemInv'
  BY <1>1, <1>4, <1>5 DEF CopyInv, ItemInv, Uncreated
<1>8. \A t \in Tasks : link[t].ext # g
  BY <1>2, TasksAssumption DEF CopyInv, ExtInv, Items
<1>9. ExtInv'
  <2> SUFFICES ASSUME NEW t \in Tasks, link[t].ext # 0
               PROVE  /\ google'[link[t].ext].st # "unused"
                      /\ \A u \in Tasks : link[u].ext = link[t].ext => u = t
                      /\ google'[link[t].ext].ref = 0 \/ google'[link[t].ext].ref = link[t].id
                      /\ \A h \in Items : google'[h].ref = link[t].id => h = link[t].ext
    BY DEF ExtInv
  <2>1. link[t].ext \in Items /\ google'[link[t].ext] = google[link[t].ext] /\ t # cur
    BY <1>1, <1>5, <1>8, RowTypes
  <2>2. google'[g].ref # link[t].id
    BY <1>1, <1>4, <1>5, <2>1 DEF CopyInv, IdInv
  <2> QED BY <1>5, <2>1, <2>2 DEF CopyInv, ExtInv
<1>10. PreparedInv'
  <2>1. ASSUME NEW t \in Tasks, link[t].phase = "prepared", NEW h \in Items PROVE google'[h].ref # link[t].id
    <3>1. google[h].ref # link[t].id /\ link[cur].id # link[t].id
      BY <1>1, <2>1 DEF CopyInv, PreparedInv, Uncreated, IdInv
    <3> QED BY <1>4, <1>5, <3>1
  <2> QED BY <2>1 DEF PreparedInv, Uncreated
<1>11. SnapInv'
  BY <1>2, <1>4, <1>5 DEF CopyInv, SnapInv
<1> QED BY <1>4, <1>5, <1>6, <1>7, <1>9, <1>10, <1>11

\* The answers to a creation keep the copies apart,
LEMMA PostCopies ==
  ASSUME Typed, CopyInv, (\E g \in Items : PostAnswered(g)) \/ PostUncertain \/ PostRejected
  PROVE  Typed' /\ CopyInv'
<1>1. /\ jpc = "post" /\ cur \in Tasks /\ link[cur].phase = "creating" /\ Uncreated(cur)
      /\ UNCHANGED <<edits, task, held, conn, snap>>
  <2>1. jpc = "post" /\ UNCHANGED <<edits, task, held, conn, snap>>
    <3>1. CASE \E g \in Items : PostAnswered(g)
      BY <3>1 DEF PostAnswered, PostCreates, World, tasks
    <3>2. CASE PostUncertain \/ PostRejected
      BY <3>2 DEF PostUncertain, PostRejected, World, tasks
    <3> QED BY <3>1, <3>2
  <2> QED BY <2>1 DEF CopyInv, JobInv
<1>2. scan.todo \subseteq Tasks
  BY DEF Typed, Scans
<1>3. ASSUME NEW g \in Items, PostAnswered(g) PROVE Typed' /\ CopyInv'
  <2>1. /\ PostCreates(g) /\ plan' = [plan EXCEPT !.item = g, !.etag = 1] /\ jpc' = "record"
        /\ UNCHANGED <<link, scan, cur, decided>>
    BY <1>3 DEF PostAnswered, PostCreates, World, tasks
  <2>2. /\ google' \in [Items -> ItemRows] /\ google'[g].ref = link[cur].id
        /\ LinkInv' /\ IdInv' /\ ItemInv' /\ ExtInv' /\ PreparedInv' /\ SnapInv'
    BY <1>1, <2>1, PostedItem
  <2>3. plan' \in Plans /\ plan'.item = g
    BY <2>1 DEF Typed, Plans
  <2>4. Typed'
    BY <1>1, <2>1, <2>2, <2>3 DEF Typed
  <2>5. JobInv'
    BY <1>1, <2>1, <2>2, <2>3 DEF JobInv
  <2>6. TodoInv'
    BY <2>1 DEF CopyInv, TodoInv
  <2> QED BY <2>2, <2>4, <2>5, <2>6 DEF CopyInv
<1>4. CASE PostUncertain
  <2>1. link' = link /\ LinkEnds(cur, TRUE, FALSE)
    BY <1>4 DEF PostUncertain, LinkDone
  <2>2. CASE google' = google
    BY <1>1, <2>1, <2>2, NoLinkStep DEF Typed
  <2>3. ASSUME NEW g \in Items, PostCreates(g) PROVE Typed' /\ CopyInv'
    <3>1. /\ google' \in [Items -> ItemRows]
          /\ LinkInv' /\ IdInv' /\ ItemInv' /\ ExtInv' /\ PreparedInv' /\ SnapInv'
      BY <1>1, <2>1, <2>3, PostedItem
    <3>2. link' \in [Tasks -> LinkRows]
      BY <2>1 DEF Typed
    <3>3. /\ jpc' = "link" /\ cur' = 0 /\ plan' \in Plans /\ decided' \in [Tasks -> Conflicts]
          /\ scan' \in Scans /\ scan'.todo \subseteq scan.todo
      BY <1>1, <2>1, <3>2, EndedLink
    <3>4. Typed'
      BY <1>1, <3>1, <3>2, <3>3 DEF Typed
    <3>5. JobInv' /\ TodoInv'
      BY <1>2, <2>1, <3>3, JobFree DEF CopyInv, TodoInv
    <3> QED BY <3>1, <3>4, <3>5 DEF CopyInv
  <2> QED BY <1>4, <2>2, <2>3 DEF PostUncertain
<1>5. CASE PostRejected
  <2> DEFINE r == [link[cur] EXCEPT !.phase = "prepared"]
  <2>1. SetLink(cur, r) /\ LinkEnds(cur, TRUE, FALSE) /\ google' = google
    BY <1>5 DEF PostRejected, LinkDone
  <2>2. r \in LinkRows /\ r.phase = "prepared" /\ r.id = link[cur].id /\ r.ext = link[cur].ext
    BY <1>1, RowTypes DEF LinkRows, Phases
  <2> HIDE DEF r
  <2> QED BY <1>1, <2>1, <2>2, LinkStep
<1> QED BY <1>3, <1>4, <1>5

\* The plan of a merge.
LEMMA PlanCopies ==
  ASSUME Typed, CopyInv, NEW t \in Tasks, PlanMerge(t)
  PROVE  Typed' /\ CopyInv'
<1>1. /\ jpc = "link" /\ link[t].phase = "linked"
      /\ UNCHANGED <<edits, task, held, conn, google, snap>>
  BY OnLink DEF PlanMerge, Linked
<1>2. cur' = t /\ UNCHANGED <<link, scan, decided>>
  BY DEF PlanMerge
<1>3. link[t].ext \in Items
  BY <1>1, RowTypes DEF CopyInv, LinkInv
<1>4. Remote(t).etag \in Nat /\ Remote(t).f \in Contents
  BY <1>3, RowTypes DEF Remote
<1> DEFINE preferred == IF link[t].choice = "google" THEN Remote(t).f ELSE task[t].f
           merged == Reconcile(link[t].base, task[t].f, Remote(t).f, preferred)
           row == [local |-> task[t], etag |-> IfMatch(t), merged |-> merged, item |-> link[t].ext]
<1>5. /\ plan' = row
      /\ jpc' \in {"patch", "apply", "record"}
  BY DEF PlanMerge
<1>6. preferred \in Contents /\ IfMatch(t) \in Nat
  BY <1>4, RowTypes DEF IfMatch
<1> HIDE DEF preferred
<1>7. merged \in Contents
  BY <1>4, <1>6, RowTypes, Reconciled
<1> HIDE DEF merged
<1>8. row \in Plans /\ row.item = link[t].ext
  BY <1>3, <1>6, <1>7, RowTypes DEF Plans
<1> HIDE DEF row
<1>9. Typed'
  BY <1>1, <1>2, <1>5, <1>8 DEF Typed
<1>10. /\ IdInv' /\ ItemInv' /\ ExtInv'
       /\ \A u \in Tasks : Uncreated(u)' <=> Uncreated(u)
  BY <1>1, <1>2, <1>9, SameIdentities
<1>11. LinkInv' /\ PreparedInv' /\ SnapInv' /\ TodoInv'
  BY <1>1, <1>2, <1>10 DEF CopyInv, LinkInv, PreparedInv, SnapInv, TodoInv
<1>12. JobInv'
  BY <1>1, <1>2, <1>3, <1>5, <1>8 DEF JobInv
<1> QED BY <1>9, <1>10, <1>11, <1>12 DEF CopyInv

\* A patch changes fields and the etag.
LEMMA PatchedItem ==
  ASSUME Typed, CopyInv, jpc = "patch", Patched(plan.item)
  PROVE  /\ plan.item \in Items /\ google' \in [Items -> ItemRows]
         /\ google'[plan.item].f = plan.merged /\ google'[plan.item].etag = google[plan.item].etag + 1
         /\ google'[plan.item].st = google[plan.item].st /\ google'[plan.item].ref = google[plan.item].ref
         /\ \A g \in Items : g # plan.item => google'[g] = google[g]
<1>1. plan.item \in Items
  BY RowTypes DEF CopyInv, JobInv, LinkInv
<1>2. google \in [Items -> ItemRows] /\ google[plan.item] \in ItemRows /\ plan.merged \in Contents
  BY <1>1, RowTypes DEF Typed
<1> DEFINE row == [google[plan.item] EXCEPT !.f = plan.merged, !.etag = @ + 1]
<1>3. google' = [google EXCEPT ![plan.item] = row]
  BY <1>2 DEF Patched
<1>4. /\ row \in ItemRows /\ row.f = plan.merged /\ row.etag = google[plan.item].etag + 1
      /\ row.st = google[plan.item].st /\ row.ref = google[plan.item].ref
  <2>1. google[plan.item].etag + 1 \in Nat
    BY <1>1, RowTypes
  <2> DEFINE mid == [google[plan.item] EXCEPT !.f = plan.merged]
  <2>2. /\ mid \in ItemRows /\ mid.f = plan.merged /\ mid.etag = google[plan.item].etag
        /\ mid.st = google[plan.item].st /\ mid.ref = google[plan.item].ref
    BY <1>2 DEF ItemRows
  <2>3. row = [mid EXCEPT !.etag = google[plan.item].etag + 1]
    BY <1>2 DEF ItemRows
  <2> HIDE DEF mid, row
  <2> QED BY <2>1, <2>2, <2>3 DEF ItemRows
<1> HIDE DEF row
<1> QED BY <1>1, <1>2, <1>3, <1>4

\* and so do those to an update.
LEMMA PatchCopies ==
  ASSUME Typed, CopyInv, PatchAnswered \/ PatchUncertain \/ PatchRefused \/ ApplyRefused
  PROVE  Typed' /\ CopyInv'
<1>1. jpc \in {"patch", "apply"} /\ cur \in Tasks /\ UNCHANGED <<edits, task, held, conn, link, snap>>
  <2>1. jpc \in {"patch", "apply"}
    BY DEF PatchAnswered, PatchUncertain, PatchRefused, ApplyRefused
  <2>2. UNCHANGED <<edits, task, held, conn, link, snap>>
    BY DEF PatchAnswered, PatchUncertain, PatchRefused, ApplyRefused, LinkUnchanged, World, tasks
  <2> QED BY <2>1, <2>2 DEF CopyInv, JobInv
<1>2. /\ google' \in [Items -> ItemRows]
      /\ \A g \in Items : /\ google'[g].ref = google[g].ref
                          /\ google[g].st # "unused" => google'[g].st # "unused"
  <2>1. CASE google' = google
    BY <2>1 DEF Typed
  <2>2. CASE jpc = "patch" /\ Patched(plan.item)
    BY <2>2, PatchedItem
  <2> QED BY <2>1, <2>2 DEF PatchAnswered, PatchUncertain, PatchRefused, ApplyRefused, LinkUnchanged
<1>3. CASE PatchUncertain \/ PatchRefused \/ ApplyRefused
  <2>1. LinkEnds(cur, TRUE, FALSE)
    BY <1>3 DEF PatchUncertain, PatchRefused, ApplyRefused, LinkDone
  <2> QED BY <1>1, <1>2, <2>1, NoLinkStep
<1>4. CASE PatchAnswered
  <2>1. /\ jpc = "patch" /\ Patched(plan.item) /\ UNCHANGED <<scan, cur, decided>>
        /\ plan' = [plan EXCEPT !.etag = google'[plan.item].etag] /\ jpc' \in {"apply", "record"}
    BY <1>4 DEF PatchAnswered, AfterPatch
  <2>2. plan.item \in Items /\ google'[plan.item].etag \in Nat
    BY <2>1, PatchedItem, RowTypes
  <2>3. plan' \in Plans /\ plan'.item = plan.item
    BY <2>1, <2>2 DEF Typed, Plans
  <2>4. Typed'
    BY <1>1, <1>2, <2>1, <2>3 DEF Typed
  <2>5. /\ IdInv' /\ ItemInv' /\ ExtInv'
        /\ \A u \in Tasks : Uncreated(u)' <=> Uncreated(u)
    BY <1>1, <1>2, <2>4, SameIdentities
  <2>6. LinkInv' /\ PreparedInv' /\ SnapInv' /\ TodoInv'
    BY <1>1, <1>2, <2>1, <2>5 DEF CopyInv, LinkInv, PreparedInv, SnapInv, TodoInv
  <2>7. JobInv'
    BY <1>1, <2>1, <2>2, <2>3 DEF CopyInv, JobInv
  <2> QED BY <2>4, <2>5, <2>6, <2>7 DEF CopyInv
<1> QED BY <1>3, <1>4

\* The merged fields are written to the task.
LEMMA ApplyCopies ==
  ASSUME Typed, CopyInv, ApplyLocally
  PROVE  /\ Typed' /\ CopyInv' /\ cur \in Tasks
         /\ task'[cur].f = plan.merged /\ task'[cur].live = task[cur].live
         /\ task'[cur].version = task[cur].version + 1
         /\ \A u \in Tasks : u # cur => task'[u] = task[u]
<1>1. /\ jpc = "apply" /\ jpc' = "record" /\ TaskChanged
      /\ UNCHANGED <<edits, held, link, google, snap, scan, cur, plan, decided>>
      /\ task' = [task EXCEPT ![cur].f = plan.merged, ![cur].version = @ + 1]
  BY DEF ApplyLocally
<1>2. /\ cur \in Tasks /\ link[cur].phase = "linked" /\ plan.item = link[cur].ext /\ plan.item \in Items
  BY <1>1, RowTypes DEF CopyInv, JobInv, LinkInv
<1> DEFINE row == [task[cur] EXCEPT !.f = plan.merged, !.version = @ + 1]
<1>3. task \in [Tasks -> TaskRows] /\ task[cur] \in TaskRows /\ plan.merged \in Contents
  BY <1>2, RowTypes DEF Typed
<1>4. task' = [task EXCEPT ![cur] = row]
  BY <1>1, <1>3
<1>5. row \in TaskRows /\ row.f = plan.merged /\ row.version = task[cur].version + 1 /\ row.live = task[cur].live
  <2>1. task[cur].version + 1 \in Nat
    BY <1>2, RowTypes
  <2> DEFINE mid == [task[cur] EXCEPT !.f = plan.merged]
  <2>2. mid \in TaskRows /\ mid.f = plan.merged /\ mid.version = task[cur].version /\ mid.live = task[cur].live
    BY <1>3 DEF TaskRows
  <2>3. row = [mid EXCEPT !.version = task[cur].version + 1]
    BY <1>3 DEF TaskRows
  <2> HIDE DEF mid, row
  <2> QED BY <2>1, <2>2, <2>3 DEF TaskRows
<1> HIDE DEF row
<1>6. /\ task' \in [Tasks -> TaskRows] /\ task'[cur] = row
      /\ \A u \in Tasks : u # cur => task'[u] = task[u]
  BY <1>2, <1>3, <1>4, <1>5
<1>7. Typed'
  BY <1>1, <1>6, ChangedConn DEF Typed
<1>8. /\ IdInv' /\ ItemInv' /\ ExtInv'
      /\ \A u \in Tasks : Uncreated(u)' <=> Uncreated(u)
  BY <1>1, <1>7, SameIdentities
<1>9. LinkInv' /\ PreparedInv' /\ SnapInv' /\ TodoInv'
  BY <1>1, <1>8 DEF CopyInv, LinkInv, PreparedInv, SnapInv, TodoInv
<1>10. JobInv'
  BY <1>1, <1>2 DEF JobInv
<1> QED BY <1>2, <1>5, <1>6, <1>7, <1>8, <1>9, <1>10 DEF CopyInv

\* The new row and link of an imported item.
LEMMA ImportedRows ==
  ASSUME Typed, CopyInv, NEW g \in Items, NEW t \in Tasks, Import(g, t)
  PROVE  /\ link[t] = NoLink /\ task[t] = NoTask /\ snap[g].st = "live" /\ jpc = "link" /\ jpc' = "link"
         /\ \A u \in Tasks : ~Paired(link[u], g, snap[g])
         /\ UNCHANGED <<edits, held, google, snap, cur, plan, decided>>
         /\ task' \in [Tasks -> TaskRows] /\ link' \in [Tasks -> LinkRows]
         /\ task'[t].live = TRUE /\ task'[t].f = snap[g].f /\ task'[t].version = 1
         /\ link'[t].phase = "linked" /\ link'[t].ext = g /\ link'[t].base = snap[g].f
         /\ link'[t].choice = "none" /\ link'[t].etag = snap[g].etag
         /\ \A u \in Tasks : u # t => link'[u] = link[u] /\ task'[u] = task[u]
         /\ \A u \in Tasks : link[u].id < link'[t].id
         /\ conn' \in Conns /\ scan' \in Scans /\ scan'.todo = scan.todo
<1> DEFINE m == Max({link[u].id : u \in Tasks})
           row == [NoLink EXCEPT !.phase = "linked", !.ext = g, !.etag = snap[g].etag, !.base = snap[g].f, !.id = 1 + m]
           new == [live |-> TRUE, version |-> 1, f |-> snap[g].f]
<1>1. /\ jpc = "link" /\ g \in Candidates /\ Fresh(t) /\ TaskChanged
      /\ task' = [task EXCEPT ![t] = new] /\ SetLink(t, row)
      /\ scan' = [scan EXCEPT !.imported = @ + 1, !.ic = g]
      /\ UNCHANGED <<edits, held, google, jpc, snap, cur, plan, decided>>
  BY DEF Import
<1>2. /\ link[t] = NoLink /\ task[t] = NoTask /\ snap[g].st = "live"
      /\ \A u \in Tasks : ~Paired(link[u], g, snap[g])
  BY <1>1 DEF Fresh, Candidates, Stranger
<1>3. m \in Nat /\ \A u \in Tasks : link[u].id <= m
  <2> DEFINE F == [u \in Tasks |-> link[u].id]
  <2>1. F \in [Tasks -> Nat] /\ \A u \in Tasks : F[u] = link[u].id
    BY RowTypes
  <2>2. {F[u] : u \in Tasks} = {link[u].id : u \in Tasks}
    BY <2>1
  <2> HIDE DEF F
  <2>3. Max({F[u] : u \in Tasks}) \in Nat /\ \A u \in Tasks : F[u] <= Max({F[u_1] : u_1 \in Tasks})
    BY <2>1, GreatestOf
  <2> QED BY <2>1, <2>2, <2>3
<1> HIDE DEF m
<1>4. /\ row \in LinkRows /\ row.phase = "linked" /\ row.ext = g /\ row.base = snap[g].f /\ row.id = 1 + m
      /\ row.choice = "none" /\ row.etag = snap[g].etag
  <2>1. /\ NoLink \in LinkRows /\ NoLink.choice = "none" /\ 1 + m \in Nat
        /\ snap[g].etag \in Nat /\ snap[g].f \in Contents
    BY <1>3, RowTypes, Empties DEF NoLink
  <2> QED BY <2>1 DEF LinkRows, Phases
<1> HIDE DEF row
<1>5. new \in TaskRows /\ new.live = TRUE /\ new.f = snap[g].f /\ new.version = 1
  BY RowTypes DEF TaskRows
<1> HIDE DEF new
<1>6. /\ link' \in [Tasks -> LinkRows] /\ link'[t] = row
      /\ \A u \in Tasks : u # t => link'[u] = link[u]
  BY <1>1, <1>4, WrittenLink
<1>7. /\ task' \in [Tasks -> TaskRows] /\ task'[t] = new
      /\ \A u \in Tasks : u # t => task'[u] = task[u]
  BY <1>1, <1>5 DEF Typed
<1>8. conn' \in Conns
  BY <1>1, ChangedConn
<1>9. scan' \in Scans /\ scan'.todo = scan.todo
  <2>1. scan \in Scans /\ g \in Nat
    BY TasksAssumption DEF Typed, Items
  <2>2. scan.imported \in Nat /\ scan.imported + 1 \in Nat
    BY <2>1 DEF Scans
  <2> DEFINE mid == [scan EXCEPT !.imported = scan.imported + 1]
  <2>3. mid \in Scans /\ mid.todo = scan.todo
    BY <2>1, <2>2 DEF Scans
  <2>4. scan' = [mid EXCEPT !.ic = g]
    BY <1>1
  <2> HIDE DEF mid
  <2> QED BY <2>1, <2>3, <2>4 DEF Scans
<1>10. \A u \in Tasks : link[u].id < link'[t].id
  BY <1>3, <1>4, <1>6, RowTypes
<1> QED BY <1>1, <1>2, <1>4, <1>5, <1>6, <1>7, <1>8, <1>9, <1>10

\* An imported item is a stranger: no link has it, and none has its reference.
LEMMA ImportCopies ==
  ASSUME Typed, CopyInv, NEW g \in Items, NEW t \in Tasks, Import(g, t)
  PROVE  Typed' /\ CopyInv' /\ google[g].ref = 0
<1>1. /\ link[t] = NoLink /\ task[t] = NoTask /\ snap[g].st = "live" /\ jpc = "link" /\ jpc' = "link"
      /\ \A u \in Tasks : ~Paired(link[u], g, snap[g])
      /\ UNCHANGED <<edits, held, google, snap, cur, plan, decided>>
      /\ task' \in [Tasks -> TaskRows] /\ link' \in [Tasks -> LinkRows]
      /\ task'[t].live = TRUE /\ task'[t].f = snap[g].f /\ task'[t].version = 1
      /\ link'[t].phase = "linked" /\ link'[t].ext = g /\ link'[t].base = snap[g].f
      /\ link'[t].choice = "none" /\ link'[t].etag = snap[g].etag
      /\ \A u \in Tasks : u # t => link'[u] = link[u] /\ task'[u] = task[u]
      /\ \A u \in Tasks : link[u].id < link'[t].id
      /\ conn' \in Conns /\ scan' \in Scans /\ scan'.todo = scan.todo
  BY ImportedRows
<1>2. Typed'
  BY <1>1 DEF Typed
<1>3. google[g].st # "unused" /\ google[g].ref = snap[g].ref
  BY <1>1 DEF CopyInv, SnapInv
<1>4. google[g].ref = 0 /\ \A u \in Tasks : link[u].ext # g
  BY <1>1, <1>3, RowTypes DEF CopyInv, ItemInv, Paired
<1>5. /\ g # 0 /\ link'[t].id > 0 /\ link'[t].id \in Nat
      /\ \A u \in Tasks : u # t => link'[u].id # link'[t].id
  <2>1. link'[t].id \in Nat
    BY <1>1 DEF LinkRows
  <2> QED BY <1>1, <2>1, RowTypes, TasksAssumption DEF Items
<1>6. \A h \in Items : google[h].ref # link'[t].id
  BY <1>1, <1>5, RowTypes DEF CopyInv, ItemInv
<1>7. LinkInv' /\ IdInv'
  BY <1>1, <1>5 DEF CopyInv, LinkInv, IdInv
<1>8. ItemInv'
  <2>1. ASSUME NEW h \in Items, google[h].ref # 0 PROVE \E u \in Tasks : link'[u].id = google[h].ref
    <3>1. PICK u \in Tasks : link[u].id = google[h].ref
      BY <2>1 DEF CopyInv, ItemInv
    <3>2. u # t
      BY <1>1, <2>1, <3>1 DEF NoLink
    <3> QED BY <1>1, <3>1, <3>2
  <2> QED BY <1>1, <2>1 DEF CopyInv, ItemInv
<1>9. ExtInv'
  <2> SUFFICES ASSUME NEW u \in Tasks, link'[u].ext # 0
               PROVE  /\ google[link'[u].ext].st # "unused"
                      /\ \A v \in Tasks : link'[v].ext = link'[u].ext => v = u
                      /\ google[link'[u].ext].ref = 0 \/ google[link'[u].ext].ref = link'[u].id
                      /\ \A h \in Items : google[h].ref = link'[u].id => h = link'[u].ext
    BY <1>1 DEF ExtInv
  <2>1. CASE u = t
    BY <1>1, <1>3, <1>4, <1>6, <2>1
  <2>2. CASE u # t
    BY <1>1, <1>4, <2>2 DEF CopyInv, ExtInv
  <2> QED BY <2>1, <2>2
<1>10. PreparedInv'
  BY <1>1 DEF CopyInv, PreparedInv, Uncreated
<1>11. SnapInv' /\ JobInv'
  BY <1>1, JobFree DEF CopyInv, SnapInv
<1>12. TodoInv'
  <2>1. scan.todo \subseteq Tasks
    BY DEF Typed, Scans
  <2> QED BY <1>1, <2>1 DEF CopyInv, TodoInv
<1> QED BY <1>2, <1>4, <1>7, <1>8, <1>9, <1>10, <1>11, <1>12 DEF CopyInv

\* The end of a job.
LEMMA QuietCopies ==
  ASSUME Typed, CopyInv, FinishBatch \/ Crash \/ ImportFails
  PROVE  Typed' /\ CopyInv'
<1>1. Quiet /\ UNCHANGED <<edits, task, held, link, google, decided>>
  BY DEF FinishBatch, Crash, ImportFails, World, tasks
<1>2. conn' \in Conns
  <2>1. conn \in Conns /\ scan \in Scans
    BY DEF Typed
  <2>2. [conn EXCEPT !.changed = @ /\ conn.partial] \in Conns
    BY <2>1 DEF Conns
  <2>3. Progress \in Conns
    BY <2>1 DEF Progress, More, Conns, Scans
  <2> QED BY <2>2, <2>3 DEF FinishBatch, Crash, ImportFails
<1>3. Typed'
  BY <1>1, <1>2, Empties DEF Typed, Quiet
<1>4. /\ IdInv' /\ ItemInv' /\ ExtInv'
      /\ \A u \in Tasks : Uncreated(u)' <=> Uncreated(u)
  BY <1>1, <1>3, SameIdentities
<1>5. LinkInv' /\ PreparedInv'
  BY <1>1, <1>4 DEF CopyInv, LinkInv, PreparedInv
<1>6. SnapInv' /\ JobInv'
  BY <1>1, JobFree DEF Quiet, SnapInv, NoSnapshot, NoItem
<1>7. TodoInv'
  BY <1>1 DEF Quiet, TodoInv, NoScan
<1> QED BY <1>3, <1>4, <1>5, <1>6, <1>7 DEF CopyInv

\* The beginning of a job.
LEMMA StartCopies ==
  ASSUME Typed, CopyInv, StartJob
  PROVE  Typed' /\ CopyInv'
<1>1. /\ jpc' = "link" /\ snap' = google /\ UNCHANGED <<edits, task, held, conn, google, cur, plan, decided>>
  BY DEF StartJob, World, tasks
<1>2. link' \in [Tasks -> LinkRows]
  BY StartedJob
<1>3. PICK N \in SUBSET Tasks :
        /\ \A t \in Tasks : t \notin N => link'[t] = link[t]
        /\ \A t \in N : /\ link[t] = NoLink /\ link'[t].phase = "prepared" /\ link'[t].ext = 0
                        /\ link'[t].id > 0
                        /\ \A u \in Tasks : link[u].id < link'[t].id
        /\ \A t, u \in N : link'[t].id = link'[u].id => t = u
  BY StartedJob
<1>4. scan' \in Scans /\ \A t \in scan'.todo : link'[t].phase # "none"
  <2>1. PICK todo, new, unlinked, ahead :
          /\ scan' = [todo |-> todo, imported |-> 0, errs |-> conn.errs,
                      more |-> new # unlinked \/ todo # ahead, lc |-> conn.lc, ic |-> conn.ic]
          /\ todo \subseteq ahead /\ ahead \subseteq Tasks
          /\ \A t \in ahead : link'[t].phase \notin {"none", "detached"}
    <3> DEFINE unlinked == {t \in Tasks : task[t].live /\ link[t] = NoLink}
               new == First(unlinked, LAMBDA t : t)
               used == Max({link[t].id : t \in Tasks})
               prepared == [t \in Tasks |->
                   IF t \in new THEN [NoLink EXCEPT !.phase = "prepared",
                                         !.id = used + Cardinality({u \in new : u <= t})]
                   ELSE link[t]]
               ahead == {t \in Tasks : /\ prepared[t].phase \notin {"none", "detached"}
                                       /\ prepared[t].id > conn.lc}
               todo == First(ahead, LAMBDA t : prepared[t].id)
    <3>1. /\ scan' = [todo |-> todo, imported |-> 0, errs |-> conn.errs,
                      more |-> new # unlinked \/ todo # ahead, lc |-> conn.lc, ic |-> conn.ic]
          /\ link' = prepared
      BY DEF StartJob
    <3>2. todo \subseteq ahead
      BY DEF First
    <3> HIDE DEF new, used, prepared, todo, unlinked
    <3> QED BY <3>1, <3>2
  <2>2. conn.errs \in BOOLEAN /\ conn.lc \in Nat /\ conn.ic \in Nat
    BY DEF Typed, Conns
  <2> QED BY <2>1, <2>2 DEF Scans
<1>5. Typed'
  BY <1>1, <1>2, <1>4 DEF Typed
<1>6. NoLink.id = 0 /\ NoLink.ext = 0 /\ NoLink.phase = "none"
  BY DEF NoLink
<1>7. \A t \in Tasks : link'[t].ext = link[t].ext /\ (link[t].id # 0 => link'[t] = link[t])
  BY <1>3, <1>6
<1>8. /\ \A t \in Tasks : link'[t].id \in Nat
      /\ \A t \in N, g \in Items : google[g].ref # link'[t].id
  <2>1. \A t \in Tasks : link'[t].id \in Nat
    BY <1>5, RowTypes DEF Typed, LinkRows
  <2>2. ASSUME NEW t \in N, NEW g \in Items PROVE google[g].ref # link'[t].id
    <3>1. google[g].ref = 0 \/ \E u \in Tasks : link[u].id = google[g].ref
      BY DEF CopyInv, ItemInv
    <3> QED BY <1>3, <2>1, <3>1, RowTypes
  <2> QED BY <2>1, <2>2
<1>9. LinkInv'
  BY <1>3, <1>6 DEF CopyInv, LinkInv
<1>10. IdInv'
  <2> SUFFICES ASSUME NEW t \in Tasks, NEW u \in Tasks, link'[t].id = link'[u].id PROVE t = u \/ link'[t].id = 0
    BY DEF IdInv
  <2>1. CASE t \in N /\ u \in N
    BY <1>3, <2>1
  <2>2. CASE t \in N /\ u \notin N
    BY <1>3, <1>8, <2>2, RowTypes
  <2>3. CASE t \notin N /\ u \in N
    BY <1>3, <1>8, <2>3, RowTypes
  <2>4. CASE t \notin N /\ u \notin N
    BY <1>3, <2>4 DEF CopyInv, IdInv
  <2> QED BY <2>1, <2>2, <2>3, <2>4
<1>11. ItemInv'
  <2>1. ASSUME NEW g \in Items, google[g].ref # 0 PROVE \E u \in Tasks : link'[u].id = google[g].ref
    <3>1. PICK u \in Tasks : link[u].id = google[g].ref
      BY <2>1 DEF CopyInv, ItemInv
    <3> QED BY <1>7, <2>1, <3>1
  <2> QED BY <1>1, <2>1 DEF CopyInv, ItemInv
<1>12. ExtInv'
  <2>1. \A t \in Tasks : link[t].ext # 0 => link'[t] = link[t]
    BY <1>3, <1>6
  <2> QED BY <1>1, <1>7, <2>1 DEF CopyInv, ExtInv
<1>13. PreparedInv'
  BY <1>1, <1>3, <1>8 DEF CopyInv, PreparedInv, Uncreated
<1>14. SnapInv' /\ JobInv' /\ TodoInv'
  BY <1>1, <1>4, JobFree DEF SnapInv, TodoInv
<1> QED BY <1>5, <1>9, <1>10, <1>11, <1>12, <1>13, <1>14 DEF CopyInv

\* Nothing has a copy at first.
LEMMA InitCopies == Init => CopyInv
<1> SUFFICES ASSUME Init PROVE CopyInv
  OBVIOUS
<1>1. /\ \A t \in Tasks : link[t] = NoLink
      /\ \A g \in Items : google[g].ref = 0
      /\ \A g \in Items : snap[g].st = "unused"
      /\ jpc = "idle" /\ scan.todo = {}
  BY DEF Init, NoItem, NoSnapshot, NoScan
<1>2. NoLink.id = 0 /\ NoLink.ext = 0 /\ NoLink.phase = "none"
  BY DEF NoLink
<1> QED BY <1>1, <1>2 DEF CopyInv, LinkInv, IdInv, ItemInv, ExtInv, PreparedInv, SnapInv, JobInv, TodoInv

\* Every step of the system keeps the copies apart.
LEMMA CopyStep == TypeInv /\ CopyInv /\ [Next]_vars => TypeInv' /\ CopyInv'
<1> SUFFICES ASSUME TypeInv, CopyInv, [Next]_vars PROVE TypeInv' /\ CopyInv'
  OBVIOUS
<1>1. Typed
  BY DEF TypeInv
<1>2. CASE UNCHANGED vars
  <2>1. UNCHANGED <<edits, task, held, link, conn, google, jpc, snap, scan, cur, plan, decided, mineHere, mineThere>>
    BY <1>2 DEF vars, tasks, jobVars
  <2>2. TypeInv'
    BY <2>1 DEF TypeInv, Typed
  <2> QED BY <1>1, <2>1, <2>2, JobKept DEF TypeInv
<1>3. ASSUME Next PROVE TypeInv' /\ CopyInv'
  <2>1. PICK b \in BOOLEAN : Track(b)
    BY <1>3 DEF Next
  <2>2. mineHere' \in [Tasks -> SUBSET Fields] /\ mineThere' \in [Items -> SUBSET Fields]
    BY <2>1, TrackType
  <2>3. Typed' /\ CopyInv'
    <3>1. CASE UserStep \/ Periodic
      BY <1>1, <3>1, TaskStepsTyped, TaskStepsCopies, GoogleStepsTyped, GoogleStepsCopies, RequestsTyped, RequestsCopies
      DEF UserStep
    <3>2. CASE JobStep
      <4>1. ASSUME NEW t \in Tasks, NEW g \in Items, Import(g, t) PROVE Typed' /\ CopyInv'
        BY <1>1, <4>1, ImportCopies
      <4> QED
        BY <1>1, <3>2, <4>1, StartCopies, RequestsTyped, RequestsCopies, PlainLinkSteps, RecoverCopies, ClaimCopies,
           PlanCopies, PostCopies, PatchCopies, ApplyCopies, RecordCopies, QuietCopies DEF JobStep
    <3>3. CASE Fault
      BY <1>1, <3>3, RequestsTyped, RequestsCopies, QuietCopies, PostCopies, PatchCopies DEF Fault
    <3> QED BY <1>3, <3>1, <3>2, <3>3 DEF Next
  <2> QED BY <2>2, <2>3 DEF TypeInv
<1> QED BY <1>2, <1>3

\* A set without two members has at most one.
LEMMA AtMostOne ==
  ASSUME NEW S, \A x, y \in S : x = y
  PROVE  Cardinality(S) <= 1
<1>1. CASE S = {}
  BY <1>1, FS_EmptySet
<1>2. CASE S # {}
  <2>1. PICK x \in S : S = {x}
    BY <1>2
  <2> QED BY <2>1, FS_Singleton
<1> QED BY <1>1, <1>2

\* The copies are apart in every state.
LEMMA CopyInvariance == Spec => [](TypeInv /\ CopyInv)
<1>1. Init => TypeInv /\ CopyInv
  BY InitType, InitCopies
<1>2. TypeInv /\ CopyInv /\ [Next]_vars => (TypeInv /\ CopyInv)'
  BY CopyStep
<1> QED BY <1>1, <1>2, PTL DEF Spec

\* A task never has two Google items and an item never two tasks, whatever jobs,
\* crashes, lost answers and requests do (sync_google_task_link, import_google_task).
THEOREM TasksHaveOneCopy == Spec => []OneCopy
<1>1. TypeInv /\ CopyInv => OneCopy
  <2> SUFFICES ASSUME TypeInv, CopyInv PROVE OneCopy
    OBVIOUS
  <2>1. Typed /\ \A g \in Items : g # 0
    BY TasksAssumption DEF TypeInv, Items
  <2>2. ASSUME NEW t \in Tasks, NEW g \in Items, NEW h \in Items,
               Paired(link[t], g, google[g]), Paired(link[t], h, google[h])
        PROVE  g = h
    BY <2>1, <2>2 DEF CopyInv, ExtInv, ItemInv, Paired
  <2>3. ASSUME NEW g \in Items, NEW t \in Tasks, NEW u \in Tasks,
               Paired(link[t], g, google[g]), Paired(link[u], g, google[g])
        PROVE  t = u
    BY <2>1, <2>3 DEF CopyInv, ExtInv, IdInv, Paired
  <2>4. \A t \in Tasks : Cardinality({g \in Items : Paired(link[t], g, google[g])}) <= 1
    BY <2>2, AtMostOne
  <2>5. \A g \in Items : Cardinality({t \in Tasks : Paired(link[t], g, google[g])}) <= 1
    BY <2>3, AtMostOne
  <2> QED BY <2>4, <2>5 DEF OneCopy
<1> QED BY <1>1, CopyInvariance, PTL

---------------------------------------------------------------------------
(* Values *)

\* Every value was entered by one of the edits so far.
Entered(f) == \A x \in Fields : f[x] <= edits

ValueInv ==
    /\ \A t \in Tasks : Entered(task[t].f) /\ Entered(link[t].base)
    /\ \A g \in Items : Entered(google[g].f) /\ Entered(snap[g].f)
    /\ Entered(plan.merged) /\ Entered(plan.local.f)

Working == jpc \in {"post", "patch", "apply", "record"}

\* Rows that exist, are held, or are gone.
RowInv ==
    /\ \A t \in Tasks : /\ task[t].version # 0 => task[t].live \/ t \in held
                        /\ task[t].live => task[t].version # 0 /\ t \notin held
                        /\ t \in held => task[t].version # 0
                        /\ task[t].version = 0 => mineHere[t] = {}
    /\ \A g \in Items : google[g].st = "unused" => google[g] = NoItem /\ mineThere[g] = {}
    /\ jpc = "idle" => snap = NoSnapshot
    /\ Working => cur \notin held

\* A change is the user's own while the two copies differ in it.
AgreeInv ==
    \A t \in Tasks, g \in Items : task[t].live /\ google[g].st = "live" /\ Paired(link[t], g, google[g]) =>
        \A x \in mineHere[t] \cup mineThere[g] : task[t].f[x] # google[g].f[x]

\* A listing does not show a change that was made here and not carried.
SnapHereInv ==
    \A t \in Tasks, g \in Items : task[t].live /\ snap[g].st = "live" /\ Paired(link[t], g, google[g]) =>
        \A x \in mineHere[t] : task[t].f[x] # snap[g].f[x]

\* The etag tells whether an item is still as it was listed.
EtagInv ==
    \A g \in Items : snap[g].st # "unused" =>
        /\ snap[g].etag <= google[g].etag
        /\ snap[g].etag = google[g].etag => snap[g] = google[g]

\* What the user changed differs from the last common baseline.
BaseInv ==
    \A t \in Tasks, g \in Items : link[t].phase \in {"creating", "linked"} /\ Paired(link[t], g, google[g]) =>
        /\ \A x \in mineHere[t] : task[t].f[x] # link[t].base[x]
        /\ google[g].st = "live" => \A x \in mineThere[g] : google[g].f[x] # link[t].base[x]

\* A choice is for the conflict that was shown.
DecidedInv == \A t \in Tasks : link[t].choice # "none" => decided[t] = link[t].conflict

\* The plan of a job: what it sends, what it writes here, and what it will record.
PostInv == jpc = "post" => plan.merged = link[cur].base

LocalInv ==
    jpc \in {"patch", "apply"} =>
        /\ task[cur].live =>
            /\ task[cur].version >= plan.local.version
            /\ task[cur].version = plan.local.version => task[cur].f = plan.local.f
        /\ \A x \in Fields : plan.merged[x] # plan.local.f[x] =>
              \/ plan.local.f[x] = link[cur].base[x]
              \/ link[cur].choice = "google" /\ decided[cur].local = plan.local.f

PatchInv ==
    jpc = "patch" =>
        /\ plan.etag <= google[plan.item].etag
        /\ google[plan.item].st = "live" =>
              \A x \in mineThere[plan.item] : google[plan.item].f[x] # plan.local.f[x]
        /\ Matches(plan.item, plan.etag) => \A x \in Fields : plan.merged[x] # google[plan.item].f[x] =>
              \/ google[plan.item].f[x] = link[cur].base[x]
              \/ link[cur].choice = "prosepect" /\ decided[cur].google = google[plan.item].f

RecordInv ==
    /\ jpc \in {"apply", "record"} => \A x \in mineHere[cur] : task[cur].f[x] # plan.merged[x]
    /\ jpc = "record" /\ google[plan.item].st = "live" =>
          \A x \in mineThere[plan.item] : google[plan.item].f[x] # plan.merged[x]

PlanInv == PostInv /\ LocalInv /\ PatchInv /\ RecordInv

MergeInv == ValueInv /\ RowInv /\ AgreeInv /\ SnapHereInv /\ EtagInv /\ BaseInv /\ DecidedInv /\ PlanInv

\* What Track says of the changes that are the user's own afterwards.
LEMMA Tracked ==
  ASSUME Typed, Typed', NEW b \in BOOLEAN, Track(b)
  PROVE  /\ \A t \in Tasks : \A x \in mineHere'[t] :
              /\ x \in Fields /\ task'[t].version # 0
              /\ task'[t].f[x] = task[t].f[x] => x \in mineHere[t]
              /\ task'[t].f[x] # task[t].f[x] => b
         /\ \A g \in Items : \A x \in mineThere'[g] :
              /\ x \in Fields
              /\ google'[g].f[x] = google[g].f[x] => x \in mineThere[g]
              /\ google'[g].f[x] # google[g].f[x] => b
         /\ AgreeInv'
<1> DEFINE agree(t, g, x) == /\ task'[t].live /\ google'[g].st = "live"
                             /\ Paired(link'[t], g, google'[g])
                             /\ task'[t].f[x] = google'[g].f[x]
<1>1. \A t \in Tasks : \A x \in mineHere'[t] :
        /\ x \in Fields /\ task'[t].version # 0
        /\ task'[t].f[x] = task[t].f[x] => x \in mineHere[t]
        /\ task'[t].f[x] # task[t].f[x] => b
        /\ \A g \in Items : ~agree(t, g, x)
  <2> SUFFICES ASSUME NEW t \in Tasks, NEW x \in mineHere'[t]
               PROVE  /\ x \in Fields /\ task'[t].version # 0
                      /\ task'[t].f[x] = task[t].f[x] => x \in mineHere[t]
                      /\ task'[t].f[x] # task[t].f[x] => b
                      /\ \A g \in Items : ~agree(t, g, x)
    OBVIOUS
  <2>1. /\ x \in Fields /\ task'[t].version # 0
        /\ IF task[t].f[x] = task'[t].f[x] THEN x \in mineHere[t] ELSE b
        /\ \A g \in Items : ~agree(t, g, x)
    BY DEF Track
  <2> HIDE DEF agree
  <2> QED BY <2>1
<1>2. \A g \in Items : \A x \in mineThere'[g] :
        /\ x \in Fields
        /\ google'[g].f[x] = google[g].f[x] => x \in mineThere[g]
        /\ google'[g].f[x] # google[g].f[x] => b
        /\ \A t \in Tasks : ~agree(t, g, x)
  <2> SUFFICES ASSUME NEW g \in Items, NEW x \in mineThere'[g]
               PROVE  /\ x \in Fields
                      /\ google'[g].f[x] = google[g].f[x] => x \in mineThere[g]
                      /\ google'[g].f[x] # google[g].f[x] => b
                      /\ \A t \in Tasks : ~agree(t, g, x)
    OBVIOUS
  <2>1. /\ x \in Fields
        /\ IF google[g].f[x] = google'[g].f[x] THEN x \in mineThere[g] ELSE b
        /\ \A t \in Tasks : ~agree(t, g, x)
    BY DEF Track
  <2> HIDE DEF agree
  <2> QED BY <2>1
<1>3. AgreeInv'
  BY <1>1, <1>2 DEF AgreeInv
<1> QED BY <1>1, <1>2, <1>3

\* Contents that stay, or hold only entered values, are entered.
LEMMA ValuesStay ==
  ASSUME Typed, Typed', ValueInv, edits <= edits',
         \A t \in Tasks : task'[t].f = task[t].f \/ \A x \in Fields : task'[t].f[x] <= edits',
         \A t \in Tasks : link'[t].base = link[t].base \/ \A x \in Fields : link'[t].base[x] <= edits',
         \A g \in Items : google'[g].f = google[g].f \/ \A x \in Fields : google'[g].f[x] <= edits',
         \A g \in Items : snap'[g].f = snap[g].f \/ \A x \in Fields : snap'[g].f[x] <= edits',
         plan'.merged = plan.merged \/ \A x \in Fields : plan'.merged[x] <= edits',
         plan'.local.f = plan.local.f \/ \A x \in Fields : plan'.local.f[x] <= edits'
  PROVE  ValueInv'
<1>1. \A f \in Contents : \A x \in Fields : f[x] \in Nat
  BY DEF Contents
<1>2. \A f \in Contents : (\A x \in Fields : f[x] <= edits) => \A x \in Fields : f[x] <= edits'
  BY <1>1 DEF Typed
<1>3. \A t \in Tasks : task[t].f \in Contents /\ link[t].base \in Contents
  BY RowTypes
<1>4. \A g \in Items : google[g].f \in Contents /\ snap[g].f \in Contents
  BY RowTypes
<1>5. plan.merged \in Contents /\ plan.local.f \in Contents
  BY RowTypes DEF TaskRows
<1>6. \A t \in Tasks : Entered(task[t].f)' /\ Entered(link[t].base)'
  BY <1>2, <1>3 DEF ValueInv, Entered
<1>7. \A g \in Items : Entered(google[g].f)' /\ Entered(snap[g].f)'
  BY <1>2, <1>4 DEF ValueInv, Entered
<1>8. Entered(plan.merged)' /\ Entered(plan.local.f)'
  BY <1>2, <1>5 DEF ValueInv, Entered
<1> QED BY <1>6, <1>7, <1>8 DEF ValueInv

\* What becomes of a row by a request that changes tasks.
TaskAges(u) ==
    \/ task'[u] = task[u]
    \/ task'[u].version = 0
    \/ link[u] = NoLink /\ task[u].version = 0 /\ task'[u].f = task[u].f
    \/ jpc = "idle" /\ task'[u].f = task[u].f
    \/ /\ task[u].live /\ task'[u].version = task[u].version + 1
       /\ \A x \in Fields : task'[u].f[x] = task[u].f[x] \/ task'[u].f[x] = edits + 1

\* Every change of a task by the user is one of these.
LEMMA TasksAge ==
  ASSUME Typed, ValueInv, RowInv, NEW b \in BOOLEAN, Typed', Track(b), NEW t \in Tasks,
         \/ CreateTask(t) \/ DeleteTask(t) \/ DeleteReversibly(t) \/ UndoDelete(t) \/ UndoExpires(t)
         \/ \E x \in Fields : EditTask(t, x)
  PROVE  /\ \A u \in Tasks : TaskAges(u)
         /\ edits' = edits \/ edits' = edits + 1
         /\ \A u \in Tasks : task'[u].f = task[u].f \/ \A x \in Fields : task'[u].f[x] <= edits'
         /\ RowInv'
<1>1. /\ task \in [Tasks -> TaskRows] /\ task[t] \in TaskRows /\ edits \in Nat
      /\ \A u \in Tasks : task[u].f \in Contents
  BY RowTypes DEF Typed
<1>2. UNCHANGED <<link, google, snap, jpc, cur>>
  BY DEF CreateTask, DeleteTask, DeleteReversibly, UndoDelete, UndoExpires, EditTask, jobVars
<1>3. edits' = edits \/ edits' = edits + 1
  BY DEF CreateTask, DeleteTask, DeleteReversibly, UndoDelete, UndoExpires, EditTask, Move, Edit
<1>4. NoTask.version = 0 /\ NoTask.f = Unset /\ NoTask.live = FALSE /\ \A x \in Fields : Unset[x] = 0
  BY DEF NoTask, Unset
<1>5. /\ \A u \in Tasks : u # t => task'[u] = task[u] /\ (u \in held' <=> u \in held)
      /\ TaskAges(t)
      /\ task'[t].f = task[t].f \/ \A x \in Fields : task'[t].f[x] <= edits'
      /\ task'[t].version # 0 => task'[t].live \/ t \in held'
      /\ task'[t].live => task'[t].version # 0 /\ t \notin held'
      /\ t \in held' => task'[t].version # 0
      /\ jpc # "idle" => held' \subseteq held
  <2>1. CASE CreateTask(t)
    <3>1. /\ task[t] = NoTask /\ link[t] = NoLink /\ held' = held
          /\ task' = [task EXCEPT ![t] = [live |-> TRUE, version |-> 1, f |-> Unset]]
      BY <2>1 DEF CreateTask, Fresh
    <3>2. /\ task'[t].live = TRUE /\ task'[t].version = 1 /\ task'[t].f = Unset
          /\ \A u \in Tasks : u # t => task'[u] = task[u]
      BY <1>1, <3>1
    <3>3. t \notin held
      BY <1>4, <3>1 DEF RowInv
    <3> QED BY <1>4, <3>1, <3>2, <3>3 DEF TaskAges
  <2>2. CASE DeleteTask(t)
    <3>1. task[t].live /\ held' = held /\ task' = [task EXCEPT ![t] = NoTask]
      BY <2>2 DEF DeleteTask
    <3>2. task'[t] = NoTask /\ \A u \in Tasks : u # t => task'[u] = task[u]
      BY <1>1, <3>1
    <3>3. t \notin held
      BY <3>1 DEF RowInv
    <3>4. task'[t].version = 0 /\ ~task'[t].live /\ \A x \in Fields : task'[t].f[x] <= edits'
      BY <1>1, <1>3, <1>4, <3>2
    <3> QED BY <3>1, <3>2, <3>3, <3>4 DEF TaskAges
  <2>3. CASE UndoExpires(t)
    <3>1. held' = held \ {t} /\ task' = [task EXCEPT ![t] = NoTask]
      BY <2>3 DEF UndoExpires
    <3>2. task'[t] = NoTask /\ \A u \in Tasks : u # t => task'[u] = task[u]
      BY <1>1, <3>1
    <3>3. task'[t].version = 0 /\ ~task'[t].live /\ \A x \in Fields : task'[t].f[x] <= edits'
      BY <1>1, <1>3, <1>4, <3>2
    <3> QED BY <3>1, <3>2, <3>3 DEF TaskAges
  <2>4. CASE DeleteReversibly(t)
    <3>1. jpc = "idle" /\ task[t].live /\ held' = held \cup {t} /\ task' = [task EXCEPT ![t].live = FALSE]
      BY <2>4 DEF DeleteReversibly
    <3>2. /\ task'[t].live = FALSE /\ task'[t].version = task[t].version /\ task'[t].f = task[t].f
          /\ \A u \in Tasks : u # t => task'[u] = task[u]
      BY <1>1, <3>1 DEF TaskRows
    <3>3. task[t].version # 0
      BY <3>1 DEF RowInv
    <3> QED BY <3>1, <3>2, <3>3 DEF TaskAges
  <2>5. CASE UndoDelete(t)
    <3>1. /\ jpc = "idle" /\ held' = held \ {t}
          /\ task' = [task EXCEPT ![t].live = TRUE, ![t].version = @ + 1]
      BY <2>5 DEF UndoDelete
    <3>2. /\ task'[t].live = TRUE /\ task'[t].version = task[t].version + 1 /\ task'[t].f = task[t].f
          /\ \A u \in Tasks : u # t => task'[u] = task[u]
      BY <1>1, <3>1 DEF TaskRows
    <3>3. task'[t].version # 0
      BY <3>2, RowTypes
    <3> QED BY <3>1, <3>2, <3>3 DEF TaskAges
  <2>6. ASSUME NEW x \in Fields, EditTask(t, x) PROVE <1>5!:
    <3>1. /\ task[t].live /\ held' = held /\ edits' = edits + 1
          /\ task' = [task EXCEPT ![t].version = @ + 1, ![t].f[x] = edits']
      BY <2>6 DEF EditTask, Edit
    <3>2. /\ \A u \in Tasks : u # t => task'[u] = task[u]
          /\ task'[t].live = task[t].live /\ task'[t].version = task[t].version + 1
          /\ task'[t].f = [task[t].f EXCEPT ![x] = edits']
      <4>1. edits' \in Nat
        BY DEF Typed
      <4>2. task' = [task EXCEPT ![t].version = @ + 1, ![t].f[x] = edits']
        BY <3>1
      <4> QED BY <4>1, <4>2, EditedTask
    <3>3. \A y \in Fields : task'[t].f[y] = task[t].f[y] \/ task'[t].f[y] = edits + 1
      BY <1>1, <3>1, <3>2 DEF Contents
    <3>4. task'[t].version # 0 /\ t \notin held
      BY <3>1, <3>2, RowTypes DEF RowInv
    <3>5. task'[t].f = task[t].f \/ \A y \in Fields : task'[t].f[y] <= edits'
      <4>1. \A y \in Fields : task[t].f[y] \in Nat /\ task[t].f[y] <= edits
        BY <1>1 DEF ValueInv, Entered, Contents
      <4> QED BY <1>1, <3>1, <3>3, <4>1
    <3> QED BY <3>1, <3>2, <3>3, <3>4, <3>5 DEF TaskAges
  <2> QED BY <2>1, <2>2, <2>3, <2>4, <2>5, <2>6
<1>6. \A u \in Tasks : TaskAges(u)
  BY <1>5 DEF TaskAges
<1>7. RowInv'
  <2>1. \A u \in Tasks : task'[u].version = 0 => mineHere'[u] = {}
    BY Tracked
  <2>2. \A g \in Items : mineThere'[g] \subseteq mineThere[g]
    BY <1>2, Tracked
  <2>3. \A g \in Items : google'[g].st = "unused" => google'[g] = NoItem /\ mineThere'[g] = {}
    BY <1>2, <2>2 DEF RowInv
  <2>4. Working' => cur' \notin held'
    BY <1>2, <1>5 DEF RowInv, Working
  <2> QED BY <1>2, <1>5, <2>1, <2>3, <2>4 DEF RowInv
<1> QED BY <1>3, <1>5, <1>6, <1>7

\* A job that is idle, or between two links, has planned nothing.
LEMMA PlanFree ==
  ASSUME jpc' \in {"idle", "link"}
  PROVE  PlanInv' /\ ~Working'
BY DEF PlanInv, PostInv, LocalInv, PatchInv, RecordInv, Working

\* A new value is unlike every one that was entered before.
LEMMA NewValue ==
  ASSUME Typed, NEW f \in Contents, Entered(f)
  PROVE  \A x \in Fields : f[x] # edits + 1
<1>1. \A x \in Fields : f[x] \in Nat /\ f[x] <= edits
  BY DEF Contents, Entered
<1>2. edits \in Nat
  BY DEF Typed
<1> QED BY <1>1, <1>2

\* A link that is not there, or only prepared, is not paired.
LEMMA NotPaired ==
  ASSUME Typed, CopyInv, NEW t \in Tasks, link[t].phase \in {"none", "prepared"}, NEW g \in Items
  PROVE  ~Paired(link[t], g, google[g])
<1>1. link[t].ext = 0 /\ (link[t].id = 0 \/ google[g].ref # link[t].id)
  BY DEF CopyInv, LinkInv, NoLink, PreparedInv, Uncreated
<1>2. g # 0
  BY TasksAssumption DEF Items
<1> QED BY <1>1, <1>2 DEF Paired

\* Changes of tasks keep the merge sound: what the user enters is new.
LEMMA TaskStepsMerge ==
  ASSUME Typed, Typed', CopyInv, MergeInv, Track(TRUE), NEW t \in Tasks,
         \/ CreateTask(t) \/ DeleteTask(t) \/ DeleteReversibly(t) \/ UndoDelete(t) \/ UndoExpires(t)
         \/ \E x \in Fields : EditTask(t, x)
  PROVE  MergeInv'
<1>1. UNCHANGED <<link, google, snap, jpc, cur, plan, decided>>
  BY DEF CreateTask, DeleteTask, DeleteReversibly, UndoDelete, UndoExpires, EditTask, jobVars
<1>2. /\ \A u \in Tasks : TaskAges(u)
      /\ edits' = edits \/ edits' = edits + 1
      /\ \A u \in Tasks : task'[u].f = task[u].f \/ \A x \in Fields : task'[u].f[x] <= edits'
      /\ RowInv'
  BY TasksAge DEF MergeInv
<1>3. ValueInv'
  <2>1. edits <= edits'
    BY <1>2 DEF Typed
  <2> QED BY <1>1, <1>2, <2>1, ValuesStay DEF MergeInv
<1>4. /\ AgreeInv'
      /\ \A g \in Items : mineThere'[g] \subseteq mineThere[g]
  BY <1>1, Tracked
<1>5. ASSUME NEW u \in Tasks, NEW x \in mineHere'[u]
      PROVE  /\ x \in Fields
             /\ task'[u].f[x] = edits + 1 \/ (x \in mineHere[u] /\ task'[u].f[x] = task[u].f[x])
  <2>1. /\ x \in Fields /\ task'[u].version # 0
        /\ task'[u].f[x] = task[u].f[x] => x \in mineHere[u]
    BY Tracked
  <2>2. TaskAges(u)
    BY <1>2
  <2> QED BY <2>1, <2>2 DEF TaskAges
<1>6. \A u \in Tasks : \A x \in mineHere[u] : task[u].version # 0
  BY DEF MergeInv, RowInv
<1>7. SnapHereInv'
  <2> SUFFICES ASSUME NEW u \in Tasks, NEW g \in Items, task'[u].live, snap[g].st = "live",
                      Paired(link[u], g, google[g]), NEW x \in mineHere'[u]
               PROVE  task'[u].f[x] # snap[g].f[x]
    BY <1>1 DEF SnapHereInv
  <2>1. CASE task'[u].f[x] = edits + 1
    BY <1>5, <2>1, NewValue, RowTypes DEF MergeInv, ValueInv
  <2>2. CASE x \in mineHere[u] /\ task'[u].f[x] = task[u].f[x]
    <3>1. jpc # "idle"
      BY DEF MergeInv, RowInv, NoSnapshot, NoItem
    <3>2. task'[u].version # 0
      BY <1>2 DEF RowInv
    <3>3. task[u].live
      BY <1>2, <1>6, <2>2, <3>1, <3>2 DEF TaskAges
    <3> QED BY <2>2, <3>3 DEF MergeInv, SnapHereInv
  <2> QED BY <1>5, <2>1, <2>2
<1>8. EtagInv' /\ DecidedInv' /\ PostInv'
  BY <1>1 DEF MergeInv, EtagInv, DecidedInv, PlanInv, PostInv
<1>9. BaseInv'
  <2> SUFFICES ASSUME NEW u \in Tasks, NEW g \in Items, link[u].phase \in {"creating", "linked"},
                      Paired(link[u], g, google[g])
               PROVE  /\ \A x \in mineHere'[u] : task'[u].f[x] # link[u].base[x]
                      /\ google[g].st = "live" => \A x \in mineThere'[g] : google[g].f[x] # link[u].base[x]
    BY <1>1 DEF BaseInv
  <2>1. \A x \in Fields : link[u].base[x] # edits + 1
    BY NewValue, RowTypes DEF MergeInv, ValueInv
  <2>2. \A x \in mineHere[u] : task[u].f[x] # link[u].base[x]
    BY DEF MergeInv, BaseInv
  <2>3. \A x \in mineHere'[u] : task'[u].f[x] # link[u].base[x]
    BY <1>5, <2>1, <2>2
  <2> QED BY <1>4, <2>3 DEF MergeInv, BaseInv
<1>10. LocalInv'
  <2> SUFFICES ASSUME jpc \in {"patch", "apply"}, task'[cur].live
               PROVE  /\ task'[cur].version >= plan.local.version
                      /\ task'[cur].version = plan.local.version => task'[cur].f = plan.local.f
    BY <1>1 DEF MergeInv, PlanInv, LocalInv
  <2>1. cur \in Tasks /\ link[cur].phase = "linked"
    BY DEF CopyInv, JobInv
  <2>2. task'[cur].version # 0 /\ link[cur] # NoLink
    BY <1>2, <2>1 DEF RowInv, NoLink
  <2>3. /\ task[cur].version \in Nat /\ plan.local.version \in Nat
    BY <2>1, RowTypes DEF TaskRows
  <2>4. task[cur].live => /\ task[cur].version >= plan.local.version
                          /\ task[cur].version = plan.local.version => task[cur].f = plan.local.f
    BY DEF MergeInv, PlanInv, LocalInv
  <2>5. \/ task'[cur] = task[cur]
        \/ task[cur].live /\ task'[cur].version = task[cur].version + 1
    BY <1>2, <2>1, <2>2 DEF TaskAges
  <2> QED BY <2>3, <2>4, <2>5
<1>11. PatchInv'
  <2>1. jpc = "patch" => plan.item \in Items
    BY RowTypes DEF CopyInv, JobInv, LinkInv
  <2>2. Matches(plan.item, plan.etag)' <=> Matches(plan.item, plan.etag)
    BY <1>1 DEF Matches
  <2> QED BY <1>1, <1>4, <2>1, <2>2 DEF MergeInv, PlanInv, PatchInv
<1>12. RecordInv'
  <2>1. jpc \in {"apply", "record"} => \A x \in mineHere'[cur] : task'[cur].f[x] # plan.merged[x]
    <3> SUFFICES ASSUME jpc \in {"apply", "record"}, NEW x \in mineHere'[cur]
                 PROVE  task'[cur].f[x] # plan.merged[x]
      OBVIOUS
    <3>1. cur \in Tasks
      BY DEF CopyInv, JobInv
    <3>2. \A y \in Fields : plan.merged[y] # edits + 1
      BY NewValue, RowTypes DEF MergeInv, ValueInv
    <3>3. \A y \in mineHere[cur] : task[cur].f[y] # plan.merged[y]
      BY DEF MergeInv, PlanInv, RecordInv
    <3> QED BY <1>5, <3>1, <3>2, <3>3
  <2>2. jpc = "record" => plan.item \in Items
    BY DEF CopyInv, JobInv
  <2> QED BY <1>1, <1>4, <2>1, <2>2 DEF MergeInv, PlanInv, RecordInv
<1> QED BY <1>2, <1>3, <1>4, <1>7, <1>8, <1>9, <1>10, <1>11, <1>12 DEF MergeInv, PlanInv

\* What becomes of an item by a change made in Google.
ItemAges(g) ==
    \/ google'[g] = google[g]
    \/ google[g].st = "unused" /\ google'[g].st = "live" /\ google'[g].f = google[g].f
    \/ /\ google'[g].st # "unused" /\ google'[g].etag = google[g].etag + 1
       /\ google'[g].st = "live" => google[g].st = "live"
       /\ \A x \in Fields : google'[g].f[x] = google[g].f[x] \/ google'[g].f[x] = edits + 1

\* Every change of an item by the user is one of these.
LEMMA ItemsAge ==
  ASSUME Typed, Typed', CopyInv, ValueInv, RowInv, NEW g \in Items,
         \/ GoogleCreate(g) \/ \E x \in Fields : GoogleEdit(g, x)
         \/ \E st \in {"deleted", "purged"} : GoogleDelete(g, st)
  PROVE  /\ \A h \in Items : ItemAges(h)
         /\ \A h \in Items : google'[h].ref = google[h].ref
         /\ edits' = edits \/ edits' = edits + 1
         /\ \A h \in Items : google'[h].f = google[h].f \/ \A x \in Fields : google'[h].f[x] <= edits'
<1>1. /\ google \in [Items -> ItemRows] /\ google[g] \in ItemRows /\ edits \in Nat
      /\ google[g].f \in Contents
  BY RowTypes DEF Typed
<1>2. edits' = edits \/ edits' = edits + 1
  BY DEF GoogleCreate, GoogleEdit, GoogleDelete, Move, Edit
<1>3. /\ \A h \in Items : h # g => google'[h] = google[h]
      /\ ItemAges(g) /\ google'[g].ref = google[g].ref
      /\ google'[g].f = google[g].f \/ \A x \in Fields : google'[g].f[x] <= edits'
  <2>1. CASE GoogleCreate(g)
    <3> DEFINE item == [st |-> "live", etag |-> 1, ref |-> 0, f |-> Unset]
    <3>1. google[g].st = "unused" /\ google' = [google EXCEPT ![g] = item]
      BY <2>1 DEF GoogleCreate
    <3>2. google'[g] = item /\ \A h \in Items : h # g => google'[h] = google[h]
      BY <1>1, <3>1
    <3>3. google[g] = NoItem
      BY <3>1 DEF RowInv
    <3>4. google[g].f = Unset /\ google[g].ref = 0
      BY <3>3 DEF NoItem
    <3>5. item.st = "live" /\ item.f = Unset /\ item.ref = 0
      OBVIOUS
    <3> HIDE DEF item
    <3> QED BY <3>1, <3>2, <3>4, <3>5 DEF ItemAges
  <2>2. ASSUME NEW x \in Fields, GoogleEdit(g, x) PROVE <1>3!:
    <3>1. google[g].st = "live" /\ edits' = edits + 1 /\ edits' \in Nat
      BY <2>2 DEF GoogleEdit, Edit, Typed
    <3>2. google' = [google EXCEPT ![g].etag = @ + 1, ![g].f[x] = edits']
      BY <2>2 DEF GoogleEdit
    <3>3. /\ \A h \in Items : h # g => google'[h] = google[h]
          /\ google'[g].st = google[g].st /\ google'[g].ref = google[g].ref
          /\ google'[g].etag = google[g].etag + 1 /\ google'[g].f = [google[g].f EXCEPT ![x] = edits']
      BY <3>1, <3>2, EditedItem
    <3>4. \A y \in Fields : google'[g].f[y] = google[g].f[y] \/ google'[g].f[y] = edits + 1
      BY <1>1, <3>1, <3>3 DEF Contents
    <3>5. \A y \in Fields : google[g].f[y] \in Nat /\ google[g].f[y] <= edits
      BY <1>1 DEF ValueInv, Entered, Contents
    <3>6. \A y \in Fields : google'[g].f[y] <= edits'
      BY <1>1, <3>1, <3>4, <3>5
    <3> QED BY <3>1, <3>3, <3>4, <3>6 DEF ItemAges
  <2>3. ASSUME NEW st \in {"deleted", "purged"}, GoogleDelete(g, st) PROVE <1>3!:
    <3> DEFINE mid == [google EXCEPT ![g].st = st]
    <3>1. google' = [mid EXCEPT ![g].etag = @ + 1]
      BY <2>3 DEF GoogleDelete
    <3>2. /\ \A h \in Items : h # g => mid[h] = google[h]
          /\ mid[g].st = st /\ mid[g].ref = google[g].ref
          /\ mid[g].etag = google[g].etag /\ mid[g].f = google[g].f
          /\ mid \in [Items -> ItemRows]
      BY <1>1 DEF ItemRows
    <3> HIDE DEF mid
    <3>3. /\ \A h \in Items : h # g => google'[h] = mid[h]
          /\ google'[g].st = mid[g].st /\ google'[g].ref = mid[g].ref
          /\ google'[g].etag = mid[g].etag + 1 /\ google'[g].f = mid[g].f
      BY <3>1, <3>2 DEF ItemRows
    <3> QED BY <3>2, <3>3 DEF ItemAges
  <2> QED BY <2>1, <2>2, <2>3
<1>4. \A h \in Items : ItemAges(h)
  BY <1>3 DEF ItemAges
<1> QED BY <1>2, <1>3, <1>4

\* Changes in Google keep the merge sound: they show in the etag.
LEMMA GoogleStepsMerge ==
  ASSUME Typed, Typed', CopyInv, MergeInv, Track(TRUE), NEW g \in Items,
         \/ GoogleCreate(g) \/ \E x \in Fields : GoogleEdit(g, x)
         \/ \E st \in {"deleted", "purged"} : GoogleDelete(g, st)
  PROVE  MergeInv'
<1>1. UNCHANGED <<task, held, link, snap, jpc, cur, plan, decided>>
  BY DEF GoogleCreate, GoogleEdit, GoogleDelete, GoogleUnchangedElsewhere, tasks, jobVars
<1>2. /\ \A h \in Items : ItemAges(h)
      /\ \A h \in Items : google'[h].ref = google[h].ref
      /\ edits' = edits \/ edits' = edits + 1
      /\ \A h \in Items : google'[h].f = google[h].f \/ \A x \in Fields : google'[h].f[x] <= edits'
  BY ItemsAge DEF MergeInv
<1>3. ValueInv'
  <2>1. edits <= edits'
    BY <1>2 DEF Typed
  <2> QED BY <1>1, <1>2, <2>1, ValuesStay DEF MergeInv
<1>4. /\ AgreeInv'
      /\ \A u \in Tasks : mineHere'[u] \subseteq mineHere[u]
  BY <1>1, Tracked
<1>5. ASSUME NEW h \in Items, NEW x \in mineThere'[h]
      PROVE  /\ x \in Fields
             /\ google'[h].f[x] = edits + 1 \/ (x \in mineThere[h] /\ google'[h].f[x] = google[h].f[x])
  <2>1. /\ x \in Fields
        /\ google'[h].f[x] = google[h].f[x] => x \in mineThere[h]
    BY Tracked
  <2>2. ItemAges(h)
    BY <1>2
  <2> QED BY <2>1, <2>2 DEF ItemAges
<1>6. \A h \in Items : \A x \in mineThere[h] : google'[h].st = "live" => google[h].st = "live"
  BY <1>2 DEF MergeInv, RowInv, ItemAges
<1>7. \A u \in Tasks, h \in Items : Paired(link'[u], h, google'[h]) <=> Paired(link[u], h, google[h])
  BY <1>1, <1>2 DEF Paired
<1>8. RowInv'
  <2>1. \A h \in Items : google'[h].st = "unused" => google'[h] = NoItem /\ mineThere'[h] = {}
    <3> SUFFICES ASSUME NEW h \in Items, google'[h].st = "unused"
                 PROVE  google'[h] = NoItem /\ mineThere'[h] = {}
      OBVIOUS
    <3>1. google'[h] = google[h]
      BY <1>2 DEF ItemAges
    <3>2. mineThere'[h] \subseteq mineThere[h]
      BY <3>1, Tracked
    <3> QED BY <3>1, <3>2 DEF MergeInv, RowInv
  <2>2. \A u \in Tasks : task'[u].version = 0 => mineHere'[u] = {}
    BY Tracked
  <2> QED BY <1>1, <2>1, <2>2 DEF MergeInv, RowInv, Working
<1>9. SnapHereInv'
  BY <1>1, <1>4, <1>7 DEF MergeInv, SnapHereInv
<1>10. EtagInv'
  <2> SUFFICES ASSUME NEW h \in Items, snap[h].st # "unused"
               PROVE  /\ snap[h].etag <= google'[h].etag
                      /\ snap[h].etag = google'[h].etag => snap[h] = google'[h]
    BY <1>1 DEF EtagInv
  <2>1. google[h].st # "unused"
    BY DEF CopyInv, SnapInv
  <2>2. google'[h] = google[h] \/ google'[h].etag = google[h].etag + 1
    BY <1>2, <2>1 DEF ItemAges
  <2>3. snap[h].etag <= google[h].etag /\ (snap[h].etag = google[h].etag => snap[h] = google[h])
    BY DEF MergeInv, EtagInv
  <2> QED BY <2>2, <2>3, RowTypes
<1>11. BaseInv'
  <2> SUFFICES ASSUME NEW u \in Tasks, NEW h \in Items, link[u].phase \in {"creating", "linked"},
                      Paired(link[u], h, google[h])
               PROVE  /\ \A x \in mineHere'[u] : task[u].f[x] # link[u].base[x]
                      /\ google'[h].st = "live" => \A x \in mineThere'[h] : google'[h].f[x] # link[u].base[x]
    BY <1>1, <1>7 DEF BaseInv
  <2>1. \A x \in Fields : link[u].base[x] # edits + 1
    BY NewValue, RowTypes DEF MergeInv, ValueInv
  <2>2. \A x \in mineHere'[u] : task[u].f[x] # link[u].base[x]
    BY <1>4 DEF MergeInv, BaseInv
  <2>3. google[h].st = "live" => \A x \in mineThere[h] : google[h].f[x] # link[u].base[x]
    BY DEF MergeInv, BaseInv
  <2> QED BY <1>5, <1>6, <2>1, <2>2, <2>3
<1>12. DecidedInv' /\ PostInv' /\ LocalInv'
  BY <1>1 DEF MergeInv, DecidedInv, PlanInv, PostInv, LocalInv
<1>13. PatchInv'
  <2> SUFFICES ASSUME jpc = "patch" PROVE PatchInv'
    BY <1>1 DEF PatchInv
  <2>1. plan.item \in Items /\ google[plan.item].st # "unused"
    BY RowTypes DEF CopyInv, JobInv, LinkInv, ExtInv
  <2>2. google'[plan.item] = google[plan.item] \/ google'[plan.item].etag = google[plan.item].etag + 1
    BY <1>2, <2>1 DEF ItemAges
  <2>3. plan.etag <= google[plan.item].etag /\ plan.etag \in Nat /\ google[plan.item].etag \in Nat
    BY <2>1, RowTypes DEF MergeInv, PlanInv, PatchInv
  <2>4. plan.etag <= google'[plan.item].etag /\ (google'[plan.item].etag = plan.etag => google'[plan.item] = google[plan.item])
    BY <2>2, <2>3
  <2>5. google'[plan.item].st = "live" =>
              \A x \in mineThere'[plan.item] : google'[plan.item].f[x] # plan.local.f[x]
    <3>1. \A x \in Fields : plan.local.f[x] # edits + 1
      BY NewValue, RowTypes DEF MergeInv, ValueInv, TaskRows
    <3>2. google[plan.item].st = "live" =>
              \A x \in mineThere[plan.item] : google[plan.item].f[x] # plan.local.f[x]
      BY DEF MergeInv, PlanInv, PatchInv
    <3> QED BY <1>5, <1>6, <2>1, <3>1, <3>2
  <2>6. Matches(plan.item, plan.etag) => \A x \in Fields : plan.merged[x] # google[plan.item].f[x] =>
              \/ google[plan.item].f[x] = link[cur].base[x]
              \/ link[cur].choice = "prosepect" /\ decided[cur].google = google[plan.item].f
    BY DEF MergeInv, PlanInv, PatchInv
  <2>7. google'[plan.item].st = "live" /\ google'[plan.item].etag = plan.etag =>
            \A x \in Fields : plan.merged[x] # google'[plan.item].f[x] =>
              \/ google'[plan.item].f[x] = link[cur].base[x]
              \/ link[cur].choice = "prosepect" /\ decided[cur].google = google'[plan.item].f
    BY <2>4, <2>6 DEF Matches
  <2> QED BY <1>1, <2>4, <2>5, <2>7 DEF PatchInv, Matches
<1>14. RecordInv'
  <2>1. jpc \in {"apply", "record"} => \A x \in mineHere'[cur] : task[cur].f[x] # plan.merged[x]
    BY <1>4 DEF MergeInv, PlanInv, RecordInv, CopyInv, JobInv
  <2>2. ASSUME jpc = "record", google'[plan.item].st = "live", NEW x \in mineThere'[plan.item]
        PROVE  google'[plan.item].f[x] # plan.merged[x]
    <3>1. plan.item \in Items
      BY <2>2 DEF CopyInv, JobInv
    <3>2. \A y \in Fields : plan.merged[y] # edits + 1
      BY NewValue, RowTypes DEF MergeInv, ValueInv
    <3>3. google[plan.item].st = "live" => \A y \in mineThere[plan.item] : google[plan.item].f[y] # plan.merged[y]
      BY <2>2 DEF MergeInv, PlanInv, RecordInv
    <3> QED BY <1>5, <1>6, <2>2, <3>1, <3>2, <3>3
  <2> QED BY <1>1, <2>1, <2>2 DEF RecordInv
<1> QED BY <1>3, <1>4, <1>8, <1>9, <1>10, <1>11, <1>12, <1>13, <1>14 DEF MergeInv, PlanInv

\* Steps that change neither a row nor the job,
LEMMA StillMerge ==
  ASSUME Typed, Typed', CopyInv, MergeInv,
         UNCHANGED <<edits, task, held, link, google, snap, jpc, cur, plan, decided>>,
         \A t \in Tasks : mineHere'[t] \subseteq mineHere[t],
         \A g \in Items : mineThere'[g] \subseteq mineThere[g]
  PROVE  MergeInv'
<1>1. ValueInv' /\ EtagInv' /\ DecidedInv' /\ PostInv' /\ LocalInv'
  BY DEF MergeInv, ValueInv, Entered, EtagInv, DecidedInv, PlanInv, PostInv, LocalInv
<1>2. RowInv'
  BY DEF MergeInv, RowInv, Working
<1>3. AgreeInv' /\ SnapHereInv' /\ BaseInv'
  BY DEF MergeInv, AgreeInv, SnapHereInv, BaseInv
<1>4. PatchInv'
  <2>1. jpc = "patch" => plan.item \in Items
    BY RowTypes DEF CopyInv, JobInv, LinkInv
  <2>2. Matches(plan.item, plan.etag)' <=> Matches(plan.item, plan.etag)
    BY DEF Matches
  <2> QED BY <2>1, <2>2 DEF MergeInv, PlanInv, PatchInv
<1>5. RecordInv'
  BY DEF MergeInv, PlanInv, RecordInv, CopyInv, JobInv
<1> QED BY <1>1, <1>2, <1>3, <1>4, <1>5 DEF MergeInv, PlanInv

\* and steps that write links and leave nothing planned.
LEMMA LinksMerge ==
  ASSUME Typed, Typed', MergeInv, NEW b \in BOOLEAN, Track(b),
         UNCHANGED <<edits, task, held, google, snap>>,
         jpc' \in {"idle", "link"}, jpc' = "idle" => jpc = "idle", plan' = plan \/ plan' = NoPlan,
         \A u \in Tasks : link'[u].base = link[u].base \/ link'[u].base = plan.merged,
         \A u \in Tasks, g \in Items : Paired(link'[u], g, google[g]) => Paired(link[u], g, google[g]),
         \A u \in Tasks, g \in Items : link'[u].phase \in {"creating", "linked"} /\ Paired(link'[u], g, google[g]) =>
             \/ link[u].phase \in {"creating", "linked"} /\ link'[u].base = link[u].base
             \/ /\ \A x \in mineHere[u] : task[u].f[x] # link'[u].base[x]
                /\ google[g].st = "live" => \A x \in mineThere[g] : google[g].f[x] # link'[u].base[x],
         DecidedInv'
  PROVE  MergeInv'
<1>1. /\ AgreeInv' /\ edits \in Nat
      /\ \A t \in Tasks : mineHere'[t] \subseteq mineHere[t]
      /\ \A g \in Items : mineThere'[g] \subseteq mineThere[g]
  BY Tracked DEF Typed
<1>2. PlanInv' /\ ~Working'
  BY PlanFree
<1>3. ValueInv'
  <2>1. \A x \in Fields : plan.merged[x] <= edits'
    BY DEF MergeInv, ValueInv, Entered
  <2>2. \A x \in Fields : NoPlan.merged[x] <= edits' /\ NoPlan.local.f[x] <= edits'
    BY <1>1 DEF NoPlan, NoTask, Unset
  <2>3. edits <= edits'
    BY <1>1
  <2>4. /\ plan'.merged = plan.merged \/ \A x \in Fields : plan'.merged[x] <= edits'
        /\ plan'.local.f = plan.local.f \/ \A x \in Fields : plan'.local.f[x] <= edits'
    BY <2>2
  <2>5. \A u \in Tasks : link'[u].base = link[u].base \/ \A x \in Fields : link'[u].base[x] <= edits'
    BY <2>1
  <2> QED BY <2>3, <2>4, <2>5, ValuesStay DEF MergeInv
<1>4. RowInv'
  <2>1. \A g \in Items : google'[g].st = "unused" => google'[g] = NoItem /\ mineThere'[g] = {}
    BY <1>1 DEF MergeInv, RowInv
  <2> QED BY <1>1, <1>2, <2>1 DEF MergeInv, RowInv
<1>5. SnapHereInv' /\ EtagInv'
  BY <1>1 DEF MergeInv, SnapHereInv, EtagInv
<1>6. BaseInv'
  <2> SUFFICES ASSUME NEW u \in Tasks, NEW g \in Items, link'[u].phase \in {"creating", "linked"},
                      Paired(link'[u], g, google[g])
               PROVE  /\ \A x \in mineHere'[u] : task[u].f[x] # link'[u].base[x]
                      /\ google[g].st = "live" => \A x \in mineThere'[g] : google[g].f[x] # link'[u].base[x]
    BY DEF BaseInv
  <2>1. Paired(link[u], g, google[g])
    OBVIOUS
  <2>2. \/ link[u].phase \in {"creating", "linked"} /\ link'[u].base = link[u].base
        \/ /\ \A x \in mineHere[u] : task[u].f[x] # link'[u].base[x]
           /\ google[g].st = "live" => \A x \in mineThere[g] : google[g].f[x] # link'[u].base[x]
    OBVIOUS
  <2> QED BY <1>1, <2>1, <2>2 DEF MergeInv, BaseInv
<1> QED BY <1>1, <1>2, <1>3, <1>4, <1>5, <1>6 DEF MergeInv

\* A choice is remembered with the conflict it is for.
LEMMA RequestsMerge ==
  ASSUME Typed, Typed', CopyInv, MergeInv, NEW b \in BOOLEAN, Track(b),
         \/ Enable \/ Disable \/ Periodic \/ SkipJob \/ ListingFails
         \/ \E t \in Tasks : LeaveUnlinked(t) \/ \E c \in {"google", "prosepect"} : ResolveConflict(t, c)
  PROVE  MergeInv'
<1>1. UNCHANGED <<edits, task, held, google, snap, jpc, cur, plan>>
  BY DEF Enable, Disable, Move, Periodic, SkipJob, ListingFails, LeaveUnlinked, ResolveConflict, tasks, jobVars, World
<1>2. CASE Enable \/ Disable \/ Periodic \/ SkipJob \/ ListingFails
  <2>1. link' = link /\ decided' = decided
    BY <1>2 DEF Enable, Disable, Periodic, SkipJob, ListingFails
  <2>2. /\ \A t \in Tasks : mineHere'[t] \subseteq mineHere[t]
        /\ \A g \in Items : mineThere'[g] \subseteq mineThere[g]
    BY <1>1, Tracked
  <2> QED BY <1>1, <2>1, <2>2, StillMerge
<1>3. ASSUME NEW t \in Tasks, NEW c \in {"google", "prosepect"}, ResolveConflict(t, c) PROVE MergeInv'
  <2>1. /\ link' = [link EXCEPT ![t].choice = c] /\ link \in [Tasks -> LinkRows] /\ jpc = "idle"
        /\ decided' = [decided EXCEPT ![t] = link[t].conflict] /\ decided \in [Tasks -> Conflicts]
    BY <1>3 DEF ResolveConflict, Typed
  <2>2. /\ \A u \in Tasks : /\ link'[u].id = link[u].id /\ link'[u].ext = link[u].ext
                            /\ link'[u].phase = link[u].phase /\ link'[u].base = link[u].base
                            /\ link'[u].conflict = link[u].conflict
        /\ \A u \in Tasks : u # t => link'[u] = link[u]
    BY <2>1 DEF LinkRows
  <2>3. DecidedInv'
    BY <2>1, <2>2 DEF MergeInv, DecidedInv
  <2>4. \A u \in Tasks, g \in Items : Paired(link'[u], g, google[g]) => Paired(link[u], g, google[g])
    BY <2>2 DEF Paired
  <2> QED BY <1>1, <2>1, <2>2, <2>3, <2>4, LinksMerge
<1>4. ASSUME NEW t \in Tasks, LeaveUnlinked(t) PROVE MergeInv'
  <2>1. /\ link' = [link EXCEPT ![t].phase = "detached"] /\ link \in [Tasks -> LinkRows] /\ jpc = "idle"
        /\ decided' = decided
    BY <1>4 DEF LeaveUnlinked, Typed
  <2>2. /\ \A u \in Tasks : /\ link'[u].id = link[u].id /\ link'[u].ext = link[u].ext
                            /\ link'[u].base = link[u].base /\ link'[u].choice = link[u].choice
                            /\ link'[u].conflict = link[u].conflict
        /\ \A u \in Tasks : u # t => link'[u] = link[u]
        /\ link'[t].phase = "detached"
    BY <2>1 DEF LinkRows
  <2>3. DecidedInv'
    BY <2>1, <2>2 DEF MergeInv, DecidedInv
  <2>4. \A u \in Tasks, g \in Items : Paired(link'[u], g, google[g]) => Paired(link[u], g, google[g])
    BY <2>2 DEF Paired
  <2>5. \A u \in Tasks : link'[u].phase \in {"creating", "linked"} => link[u].phase \in {"creating", "linked"}
    BY <2>2
  <2> QED BY <1>1, <2>1, <2>2, <2>3, <2>4, <2>5, LinksMerge
<1> QED BY <1>2, <1>3, <1>4

\* The end of the work on a link, when neither app was written in this step.
LEMMA EndMerge ==
  ASSUME Typed, Typed', MergeInv, NEW b \in BOOLEAN, Track(b), NEW t \in Tasks, NEW e \in BOOLEAN, NEW q,
         LinkEnds(t, e, q), UNCHANGED <<edits, task, held, google, snap>>,
         \A u \in Tasks : u # t => link'[u] = link[u],
         link'[t].choice = "none" \/ (link'[t].choice = link[t].choice /\ link'[t].conflict = link[t].conflict),
         link'[t].base = link[t].base \/ link'[t].base = plan.merged,
         \A g \in Items : Paired(link'[t], g, google[g]) => Paired(link[t], g, google[g]),
         \A g \in Items : link'[t].phase \in {"creating", "linked"} /\ Paired(link'[t], g, google[g]) =>
             \/ link[t].phase \in {"creating", "linked"} /\ link'[t].base = link[t].base
             \/ /\ \A x \in mineHere[t] : task[t].f[x] # link'[t].base[x]
                /\ google[g].st = "live" => \A x \in mineThere[g] : google[g].f[x] # link'[t].base[x]
  PROVE  MergeInv'
<1>1. link' \in [Tasks -> LinkRows]
  BY DEF Typed
<1>2. /\ jpc' = "link" /\ plan' = NoPlan
      /\ \A u \in Tasks : decided'[u] = IF u = t /\ link'[t].choice = "none" THEN NoConflict ELSE decided[u]
  BY <1>1, EndedLink
<1>3. DecidedInv'
  BY <1>2 DEF MergeInv, DecidedInv
<1>4. \A u \in Tasks : link'[u].base = link[u].base \/ link'[u].base = plan.merged
  OBVIOUS
<1>5. \A u \in Tasks, g \in Items : Paired(link'[u], g, google[g]) => Paired(link[u], g, google[g])
  OBVIOUS
<1>6. \A u \in Tasks, g \in Items : link'[u].phase \in {"creating", "linked"} /\ Paired(link'[u], g, google[g]) =>
             \/ link[u].phase \in {"creating", "linked"} /\ link'[u].base = link[u].base
             \/ /\ \A x \in mineHere[u] : task[u].f[x] # link'[u].base[x]
                /\ google[g].st = "live" => \A x \in mineThere[g] : google[g].f[x] # link'[u].base[x]
  OBVIOUS
<1> QED BY <1>2, <1>3, <1>4, <1>5, <1>6, LinksMerge

\* Links passed over, detached, or shown as conflicts.
LEMMA PlainLinkMerge ==
  ASSUME Typed, Typed', CopyInv, MergeInv, NEW b \in BOOLEAN, Track(b), NEW t \in Tasks,
         PassHeld(t) \/ DetachDeleted(t) \/ DetachMissing(t) \/ RecordConflict(t)
  PROVE  MergeInv'
<1>1. NextLink(t) /\ LinkUnchanged
  BY DEF PassHeld, DetachDeleted, DetachMissing, RecordConflict, Linked
<1>2. UNCHANGED <<edits, task, held, google, snap>>
  BY <1>1, OnLink
<1>3. PICK e \in BOOLEAN : LinkEnds(t, e, FALSE)
  BY DEF PassHeld, DetachDeleted, DetachMissing, RecordConflict, LinkDone
<1>4. CASE link' = link
  BY <1>2, <1>3, <1>4, EndMerge
<1>5. CASE SetLink(t, Detached(t))
  <2>1. /\ Detached(t) \in LinkRows /\ Detached(t).phase = "detached" /\ Detached(t).choice = "none"
        /\ Detached(t).ext = link[t].ext /\ Detached(t).id = link[t].id /\ Detached(t).base = link[t].base
    BY DetachedRow
  <2>2. link'[t] = Detached(t) /\ \A u \in Tasks : u # t => link'[u] = link[u]
    BY <1>5, <2>1, WrittenLink
  <2>3. \A g \in Items : Paired(link'[t], g, google[g]) => Paired(link[t], g, google[g])
    BY <2>1, <2>2 DEF Paired
  <2> QED BY <1>2, <1>3, <2>1, <2>2, <2>3, EndMerge
<1>6. ASSUME RecordConflict(t), link' # link PROVE MergeInv'
  <2> DEFINE c == [version |-> task[t].version, etag |-> Remote(t).etag,
                   local |-> task[t].f, google |-> Remote(t).f]
             r == [link[t] EXCEPT !.choice = "none", !.conflict = c]
  <2>1. SetLink(t, r) /\ link[t].phase = "linked"
    BY <1>6 DEF RecordConflict, Linked
  <2>2. link[t].ext \in Items
    BY <2>1, RowTypes DEF CopyInv, LinkInv
  <2>3. Remote(t) \in ItemRows /\ Remote(t).etag \in Nat /\ Remote(t).f \in Contents
    BY <2>2, RowTypes DEF Remote
  <2>4. c \in Conflicts
    BY <2>3, RowTypes DEF Conflicts
  <2> HIDE DEF c
  <2>5. /\ r \in LinkRows /\ r.id = link[t].id /\ r.ext = link[t].ext /\ r.phase = link[t].phase
        /\ r.base = link[t].base /\ r.choice = "none"
    BY <2>4, RowTypes DEF LinkRows
  <2> HIDE DEF r
  <2>6. link'[t] = r /\ \A u \in Tasks : u # t => link'[u] = link[u]
    BY <2>1, <2>5, WrittenLink
  <2>7. \A g \in Items : Paired(link'[t], g, google[g]) => Paired(link[t], g, google[g])
    BY <2>5, <2>6 DEF Paired
  <2> QED BY <1>2, <1>3, <2>1, <2>5, <2>6, <2>7, EndMerge
<1> QED BY <1>4, <1>5, <1>6 DEF PassHeld, DetachDeleted, DetachMissing, RecordConflict

\* A recovered creation keeps the baseline that was sent.
LEMMA RecoverMerge ==
  ASSUME Typed, Typed', CopyInv, MergeInv, NEW b \in BOOLEAN, Track(b), NEW t \in Tasks, RecoverCreate(t)
  PROVE  MergeInv'
<1>1. /\ link[t].phase = "creating" /\ link[t].id > 0
      /\ UNCHANGED <<edits, task, held, google, snap>>
  BY OnLink DEF RecoverCreate, CopyInv, LinkInv
<1>2. CASE link' = link
  <2>1. PICK e \in BOOLEAN, q \in BOOLEAN : LinkEnds(t, e, q)
    BY DEF RecoverCreate, LinkDone
  <2> QED BY <1>1, <1>2, <2>1, EndMerge
<1>3. ASSUME link' # link PROVE MergeInv'
  <2>1. PICK g \in Items : /\ snap[g].st \in {"live", "deleted"} /\ snap[g].ref = link[t].id
                           /\ SetLink(t, Recorded(t, g, snap[g].etag, link[t].base))
                           /\ LinkEnds(t, FALSE, TRUE)
    BY <1>3 DEF RecoverCreate
  <2>2. google[g].ref = link[t].id /\ link[t].id # 0
    BY <1>1, <2>1, RowTypes DEF CopyInv, SnapInv
  <2> DEFINE r == Recorded(t, g, snap[g].etag, link[t].base)
  <2>3. /\ r \in LinkRows /\ r.phase = "linked" /\ r.ext = g /\ r.id = link[t].id
        /\ r.base = link[t].base /\ r.choice = "none"
    BY RowTypes, RecordedRow
  <2>4. SetLink(t, r)
    BY <2>1
  <2> HIDE DEF r
  <2>5. link'[t] = r /\ \A u \in Tasks : u # t => link'[u] = link[u]
    BY <2>3, <2>4, WrittenLink
  <2>6. \A h \in Items : Paired(link'[t], h, google[h]) => Paired(link[t], h, google[h])
    BY <2>2, <2>3, <2>5 DEF Paired
  <2> QED BY <1>1, <2>1, <2>3, <2>5, <2>6, EndMerge
<1> QED BY <1>2, <1>3

\* The merged fields become the baseline of both apps.
LEMMA RecordMerge ==
  ASSUME Typed, Typed', CopyInv, CopyInv', MergeInv, NEW b \in BOOLEAN, Track(b), RecordLink
  PROVE  MergeInv'
<1>1. /\ cur \in Tasks /\ plan.item \in Items /\ jpc = "record"
      /\ \/ link[cur].phase = "linked" /\ plan.item = link[cur].ext
         \/ link[cur].phase = "creating" /\ google[plan.item].ref = link[cur].id
  BY DEF RecordLink, CopyInv, JobInv
<1>2. UNCHANGED <<edits, task, held, google, snap>>
  BY DEF RecordLink, LinkUnchanged, World, tasks
<1> DEFINE r == Recorded(cur, plan.item, plan.etag, plan.merged)
<1>3. /\ r \in LinkRows /\ r.phase = "linked" /\ r.ext = plan.item /\ r.id = link[cur].id
      /\ r.base = plan.merged /\ r.choice = "none"
  BY <1>1, RowTypes, RecordedRow
<1>4. SetLink(cur, r) /\ LinkEnds(cur, FALSE, FALSE)
  BY DEF RecordLink, LinkDone
<1> HIDE DEF r
<1>5. link'[cur] = r /\ \A u \in Tasks : u # cur => link'[u] = link[u]
  BY <1>1, <1>3, <1>4, WrittenLink
<1>6. link[cur].id # 0 /\ plan.item # 0
  BY <1>1, RowTypes, TasksAssumption DEF CopyInv, LinkInv, Items
<1>7. \A g \in Items : Paired(link'[cur], g, google[g]) => g = plan.item
  BY <1>1, <1>2, <1>3, <1>5, <1>6 DEF CopyInv, ExtInv, Paired
<1>8. Paired(link[cur], plan.item, google[plan.item])
  BY <1>1, <1>6 DEF Paired
<1>9. /\ \A x \in mineHere[cur] : task[cur].f[x] # plan.merged[x]
      /\ google[plan.item].st = "live" =>
            \A x \in mineThere[plan.item] : google[plan.item].f[x] # plan.merged[x]
  BY <1>1 DEF MergeInv, PlanInv, RecordInv
<1>10. /\ link'[cur].choice = "none" /\ link'[cur].base = plan.merged
       /\ \A g \in Items : Paired(link'[cur], g, google[g]) =>
             /\ Paired(link[cur], g, google[g])
             /\ \A x \in mineHere[cur] : task[cur].f[x] # link'[cur].base[x]
             /\ google[g].st = "live" => \A x \in mineThere[g] : google[g].f[x] # link'[cur].base[x]
  BY <1>3, <1>5, <1>7, <1>8, <1>9
<1> QED BY <1>1, <1>2, <1>4, <1>5, <1>10, EndMerge

\* A creation is claimed with the fields that are sent.
LEMMA ClaimMerge ==
  ASSUME Typed, Typed', CopyInv, MergeInv, NEW b \in BOOLEAN, Track(b), NEW t \in Tasks, ClaimCreate(t)
  PROVE  MergeInv'
<1>1. /\ link[t].phase = "prepared" /\ t \notin held
      /\ UNCHANGED <<edits, task, held, google, snap>>
  BY OnLink DEF ClaimCreate
<1>2. /\ SetLink(t, [link[t] EXCEPT !.phase = "creating", !.base = task[t].f])
      /\ cur' = t /\ jpc' = "post" /\ decided' = decided
      /\ plan' = [NoPlan EXCEPT !.local = task[t], !.merged = task[t].f]
  BY DEF ClaimCreate
<1> DEFINE r == [link[t] EXCEPT !.phase = "creating", !.base = task[t].f]
<1>3. /\ r \in LinkRows /\ r.id = link[t].id /\ r.ext = link[t].ext
      /\ r.choice = link[t].choice /\ r.conflict = link[t].conflict /\ r.base = task[t].f
  BY RowTypes DEF LinkRows, Phases
<1> HIDE DEF r
<1>4. /\ link'[t] = r /\ \A u \in Tasks : u # t => link'[u] = link[u]
  BY <1>2, <1>3, WrittenLink DEF r
<1>5. plan'.local = task[t] /\ plan'.merged = task[t].f
  BY <1>2 DEF NoPlan
<1>6. /\ AgreeInv' /\ edits \in Nat
      /\ \A u \in Tasks : mineHere'[u] \subseteq mineHere[u]
      /\ \A g \in Items : mineThere'[g] \subseteq mineThere[g]
  BY <1>1, Tracked DEF Typed
<1>7. ValueInv'
  <2>1. \A x \in Fields : task[t].f[x] <= edits'
    BY <1>1 DEF MergeInv, ValueInv, Entered
  <2>2. edits <= edits'
    BY <1>1, <1>6
  <2> QED BY <1>1, <1>3, <1>4, <1>5, <2>1, <2>2, ValuesStay DEF MergeInv
<1>8. RowInv'
  <2>1. \A g \in Items : google'[g].st = "unused" => google'[g] = NoItem /\ mineThere'[g] = {}
    BY <1>1, <1>6 DEF MergeInv, RowInv
  <2> QED BY <1>1, <1>2, <1>6, <2>1 DEF MergeInv, RowInv
<1>9. \A u \in Tasks, g \in Items : Paired(link'[u], g, google[g]) => u # t /\ Paired(link[u], g, google[g])
  <2>1. \A g \in Items : ~Paired(link[t], g, google[g])
    BY <1>1, NotPaired
  <2> QED BY <1>3, <1>4, <2>1 DEF Paired
<1>10. SnapHereInv' /\ EtagInv'
  BY <1>1, <1>6, <1>9 DEF MergeInv, SnapHereInv, EtagInv
<1>11. BaseInv'
  BY <1>1, <1>4, <1>6, <1>9 DEF MergeInv, BaseInv
<1>12. DecidedInv'
  BY <1>2, <1>3, <1>4 DEF MergeInv, DecidedInv
<1>13. PlanInv'
  BY <1>2, <1>3, <1>4, <1>5 DEF PlanInv, PostInv, LocalInv, PatchInv, RecordInv
<1> QED BY <1>6, <1>7, <1>8, <1>10, <1>11, <1>12, <1>13 DEF MergeInv

\* The item of a post holds the baseline of its link.
LEMMA PostedMerge ==
  ASSUME Typed, Typed', CopyInv, MergeInv, Track(FALSE), jpc = "post", NEW g \in Items, PostCreates(g),
         UNCHANGED <<edits, task, held, link, snap>>
  PROVE  /\ AgreeInv' /\ SnapHereInv' /\ EtagInv' /\ BaseInv'
         /\ \A u \in Tasks : mineHere'[u] \subseteq mineHere[u]
         /\ \A h \in Items : google'[h].st = "unused" => google'[h] = NoItem /\ mineThere'[h] = {}
         /\ \A h \in Items : google'[h].f = google[h].f \/ google'[h].f = plan.merged
         /\ mineThere'[g] = {}
         /\ \A x \in mineHere'[cur] : task[cur].f[x] # plan.merged[x]
<1>1. /\ cur \in Tasks /\ link[cur].phase = "creating"
      /\ link[cur].id > 0 /\ link[cur].ext = 0 /\ plan.merged = link[cur].base /\ cur \notin held
  BY DEF CopyInv, JobInv, LinkInv, MergeInv, PlanInv, PostInv, RowInv, Working
<1>2. /\ google'[g].ref = link[cur].id /\ google'[g].st = "live" /\ google'[g].f = plan.merged
      /\ \A h \in Items : h # g => google'[h] = google[h]
  BY PostedItem
<1>3. google[g].st = "unused" /\ mineThere[g] = {} /\ snap[g].st = "unused"
  BY DEF PostCreates, MergeInv, RowInv, CopyInv, SnapInv
<1>4. /\ AgreeInv' /\ \A u \in Tasks : mineHere'[u] \subseteq mineHere[u]
      /\ \A u \in Tasks : task[u].version = 0 => mineHere'[u] = {}
  BY Tracked
<1>5. mineThere'[g] = {} /\ \A h \in Items : h # g => mineThere'[h] \subseteq mineThere[h]
  BY <1>2, <1>3, Tracked
<1>6. \A u \in Tasks : Paired(link[u], g, google'[g]) <=> u = cur
  <2>1. \A u \in Tasks : link[u].ext # g
    BY <1>3, TasksAssumption DEF CopyInv, ExtInv, Items
  <2>2. link[cur].id # 0 /\ \A u \in Tasks : link[u].id = link[cur].id => u = cur
    BY <1>1, RowTypes DEF CopyInv, IdInv
  <2> QED BY <1>2, <2>1, <2>2 DEF Paired
<1>7. \A x \in mineHere'[cur] : task[cur].f[x] # plan.merged[x]
  <2>1. CASE task[cur].live
    BY <1>1, <1>2, <1>4, <1>6, <2>1 DEF AgreeInv
  <2>2. CASE ~task[cur].live
    <3>1. task[cur].version = 0
      BY <1>1, <2>2 DEF MergeInv, RowInv
    <3> QED BY <1>1, <1>4, <3>1
  <2> QED BY <2>1, <2>2
<1>8. SnapHereInv'
  <2> SUFFICES ASSUME NEW u \in Tasks, NEW h \in Items, task[u].live, snap[h].st = "live",
                      Paired(link[u], h, google'[h]), NEW x \in mineHere'[u]
               PROVE  task[u].f[x] # snap[h].f[x]
    BY DEF SnapHereInv
  <2>1. h # g
    BY <1>3
  <2> QED BY <1>2, <1>4, <2>1 DEF MergeInv, SnapHereInv
<1>9. EtagInv'
  BY <1>2, <1>3 DEF MergeInv, EtagInv
<1>10. BaseInv'
  <2> SUFFICES ASSUME NEW u \in Tasks, NEW h \in Items, link[u].phase \in {"creating", "linked"},
                      Paired(link[u], h, google'[h])
               PROVE  /\ \A x \in mineHere'[u] : task[u].f[x] # link[u].base[x]
                      /\ google'[h].st = "live" => \A x \in mineThere'[h] : google'[h].f[x] # link[u].base[x]
    BY DEF BaseInv
  <2>1. CASE h = g
    BY <1>1, <1>5, <1>6, <1>7, <2>1
  <2>2. CASE h # g
    BY <1>2, <1>4, <1>5, <2>2 DEF MergeInv, BaseInv
  <2> QED BY <2>1, <2>2
<1>11. \A h \in Items : google'[h].st = "unused" => google'[h] = NoItem /\ mineThere'[h] = {}
  BY <1>2, <1>5 DEF MergeInv, RowInv
<1> QED BY <1>2, <1>4, <1>5, <1>7, <1>8, <1>9, <1>10, <1>11

\* The answers to a creation, and their absence.
LEMMA PostMerge ==
  ASSUME Typed, Typed', CopyInv, MergeInv, Track(FALSE), (\E g \in Items : PostAnswered(g)) \/ PostUncertain \/ PostRejected
  PROVE  MergeInv'
<1>1. /\ jpc = "post" /\ cur \in Tasks /\ link[cur].phase = "creating" /\ cur \notin held
      /\ UNCHANGED <<edits, task, held, snap>> /\ edits \in Nat
  <2>1. jpc = "post" /\ UNCHANGED <<edits, task, held, snap>>
    <3>1. CASE \E g \in Items : PostAnswered(g)
      BY <3>1 DEF PostAnswered, PostCreates, World, tasks
    <3>2. CASE PostUncertain \/ PostRejected
      BY <3>2 DEF PostUncertain, PostRejected, World, tasks
    <3> QED BY <3>1, <3>2
  <2> QED BY <2>1 DEF CopyInv, JobInv, MergeInv, RowInv, Working, Typed
<1>2. ASSUME NEW g \in Items, PostCreates(g), link' = link,
             plan' = NoPlan \/ (plan'.merged = plan.merged /\ plan'.local = plan.local)
      PROVE  /\ AgreeInv' /\ SnapHereInv' /\ EtagInv' /\ BaseInv' /\ ValueInv'
             /\ \A u \in Tasks : mineHere'[u] \subseteq mineHere[u]
             /\ \A h \in Items : google'[h].st = "unused" => google'[h] = NoItem /\ mineThere'[h] = {}
             /\ mineThere'[g] = {}
             /\ \A x \in mineHere'[cur] : task[cur].f[x] # plan.merged[x]
  <2>1. /\ AgreeInv' /\ SnapHereInv' /\ EtagInv' /\ BaseInv'
        /\ \A u \in Tasks : mineHere'[u] \subseteq mineHere[u]
        /\ \A h \in Items : google'[h].st = "unused" => google'[h] = NoItem /\ mineThere'[h] = {}
        /\ \A h \in Items : google'[h].f = google[h].f \/ google'[h].f = plan.merged
        /\ mineThere'[g] = {}
        /\ \A x \in mineHere'[cur] : task[cur].f[x] # plan.merged[x]
    BY <1>1, <1>2, PostedMerge
  <2>2. \A x \in Fields : plan.merged[x] <= edits'
    BY <1>1 DEF MergeInv, ValueInv, Entered
  <2>3. \A x \in Fields : NoPlan.merged[x] <= edits' /\ NoPlan.local.f[x] <= edits'
    BY <1>1 DEF NoPlan, NoTask, Unset
  <2>4. edits <= edits'
    BY <1>1
  <2>5. \A h \in Items : google'[h].f = google[h].f \/ \A x \in Fields : google'[h].f[x] <= edits'
    BY <2>1, <2>2
  <2>6. /\ plan'.merged = plan.merged \/ \A x \in Fields : plan'.merged[x] <= edits'
        /\ plan'.local.f = plan.local.f \/ \A x \in Fields : plan'.local.f[x] <= edits'
    BY <1>2, <2>3
  <2>7. ValueInv'
    BY <1>1, <1>2, <2>4, <2>5, <2>6, ValuesStay DEF MergeInv
  <2> QED BY <2>1, <2>7
<1>3. ASSUME NEW g \in Items, PostAnswered(g) PROVE MergeInv'
  <2>1. /\ PostCreates(g) /\ plan' = [plan EXCEPT !.item = g, !.etag = 1] /\ jpc' = "record"
        /\ UNCHANGED <<link, cur, decided>>
    BY <1>3 DEF PostAnswered, PostCreates, World, tasks
  <2>2. plan'.item = g /\ plan'.merged = plan.merged /\ plan'.local = plan.local
    BY <2>1 DEF Typed, Plans
  <2>3. /\ AgreeInv' /\ SnapHereInv' /\ EtagInv' /\ BaseInv' /\ ValueInv'
        /\ \A u \in Tasks : mineHere'[u] \subseteq mineHere[u]
        /\ \A h \in Items : google'[h].st = "unused" => google'[h] = NoItem /\ mineThere'[h] = {}
        /\ mineThere'[g] = {}
        /\ \A x \in mineHere'[cur] : task[cur].f[x] # plan.merged[x]
    BY <1>2, <2>1, <2>2
  <2>4. RowInv'
    BY <1>1, <2>1, <2>3 DEF MergeInv, RowInv
  <2>5. DecidedInv'
    BY <2>1 DEF MergeInv, DecidedInv
  <2>6. PlanInv'
    BY <1>1, <2>1, <2>2, <2>3 DEF PlanInv, PostInv, LocalInv, PatchInv, RecordInv
  <2> QED BY <2>3, <2>4, <2>5, <2>6 DEF MergeInv
<1>4. CASE PostUncertain
  <2>1. link' = link /\ LinkEnds(cur, TRUE, FALSE)
    BY <1>4 DEF PostUncertain, LinkDone
  <2>2. CASE google' = google
    BY <1>1, <2>1, <2>2, EndMerge
  <2>3. ASSUME NEW g \in Items, PostCreates(g) PROVE MergeInv'
    <3>1. link' \in [Tasks -> LinkRows]
      BY DEF Typed
    <3>2. /\ jpc' = "link" /\ plan' = NoPlan
          /\ \A u \in Tasks : decided'[u] = IF u = cur /\ link'[cur].choice = "none" THEN NoConflict ELSE decided[u]
      BY <1>1, <2>1, <3>1, EndedLink
    <3>3. /\ AgreeInv' /\ SnapHereInv' /\ EtagInv' /\ BaseInv' /\ ValueInv'
          /\ \A u \in Tasks : mineHere'[u] \subseteq mineHere[u]
          /\ \A h \in Items : google'[h].st = "unused" => google'[h] = NoItem /\ mineThere'[h] = {}
      BY <1>2, <2>1, <2>3, <3>2
    <3>4. PlanInv' /\ ~Working'
      BY <3>2, PlanFree
    <3>5. RowInv'
      BY <1>1, <3>2, <3>3, <3>4 DEF MergeInv, RowInv
    <3>6. DecidedInv'
      BY <2>1, <3>2 DEF MergeInv, DecidedInv
    <3> QED BY <3>3, <3>4, <3>5, <3>6 DEF MergeInv
  <2> QED BY <1>4, <2>2, <2>3 DEF PostUncertain
<1>5. CASE PostRejected
  <2> DEFINE r == [link[cur] EXCEPT !.phase = "prepared"]
  <2>1. SetLink(cur, r) /\ LinkEnds(cur, TRUE, FALSE) /\ google' = google
    BY <1>5 DEF PostRejected, LinkDone
  <2>2. /\ r \in LinkRows /\ r.phase = "prepared" /\ r.id = link[cur].id /\ r.ext = link[cur].ext
        /\ r.base = link[cur].base /\ r.choice = link[cur].choice /\ r.conflict = link[cur].conflict
    BY <1>1, RowTypes DEF LinkRows, Phases
  <2> HIDE DEF r
  <2>3. link'[cur] = r /\ \A u \in Tasks : u # cur => link'[u] = link[u]
    BY <1>1, <2>1, <2>2, WrittenLink
  <2>4. \A h \in Items : Paired(link'[cur], h, google[h]) => Paired(link[cur], h, google[h])
    BY <2>2, <2>3 DEF Paired
  <2> QED BY <1>1, <2>1, <2>2, <2>3, <2>4, EndMerge
<1> QED BY <1>3, <1>4, <1>5

\* A patch that Google accepts replaces what was listed.
LEMMA PatchedMerge ==
  ASSUME Typed, Typed', CopyInv, MergeInv, Track(FALSE), jpc = "patch", Matches(plan.item, plan.etag), Patched(plan.item),
         UNCHANGED <<edits, task, held, link, snap>>
  PROVE  /\ AgreeInv' /\ SnapHereInv' /\ EtagInv' /\ BaseInv'
         /\ \A u \in Tasks : mineHere'[u] \subseteq mineHere[u]
         /\ \A h \in Items : google'[h].st = "unused" => google'[h] = NoItem /\ mineThere'[h] = {}
         /\ \A h \in Items : google'[h].f = google[h].f \/ google'[h].f = plan.merged
         /\ \A x \in mineThere'[plan.item] : x \in mineThere[plan.item] /\ google[plan.item].f[x] = plan.merged[x]
         /\ \A x \in mineHere'[cur] : task[cur].f[x] # plan.merged[x]
<1>1. /\ cur \in Tasks /\ link[cur].phase = "linked" /\ plan.item = link[cur].ext /\ cur \notin held
      /\ google[plan.item].st = "live"
  BY DEF CopyInv, JobInv, MergeInv, RowInv, Working, Matches
<1>2. /\ plan.item \in Items
      /\ google'[plan.item].f = plan.merged /\ google'[plan.item].etag = google[plan.item].etag + 1
      /\ google'[plan.item].st = google[plan.item].st /\ google'[plan.item].ref = google[plan.item].ref
      /\ \A g \in Items : g # plan.item => google'[g] = google[g]
  BY PatchedItem
<1>3. /\ AgreeInv' /\ \A u \in Tasks : mineHere'[u] \subseteq mineHere[u]
      /\ \A u \in Tasks : task[u].version = 0 => mineHere'[u] = {}
  BY Tracked
<1>4. \A h \in Items : \A x \in mineThere'[h] : x \in mineThere[h] /\ google'[h].f[x] = google[h].f[x]
  BY Tracked
<1>5. \A u \in Tasks, h \in Items : Paired(link[u], h, google'[h]) <=> Paired(link[u], h, google[h])
  BY <1>2 DEF Paired
<1>6. \A x \in mineHere'[cur] : task[cur].f[x] # plan.merged[x]
  <2>1. CASE task[cur].live
    <3>1. Paired(link[cur], plan.item, google'[plan.item])
      BY <1>1 DEF Paired
    <3> QED BY <1>1, <1>2, <1>3, <2>1, <3>1 DEF AgreeInv
  <2>2. CASE ~task[cur].live
    <3>1. task[cur].version = 0
      BY <1>1, <2>2 DEF MergeInv, RowInv
    <3> QED BY <1>1, <1>3, <3>1
  <2> QED BY <2>1, <2>2
<1>7. SnapHereInv'
  BY <1>3, <1>5 DEF MergeInv, SnapHereInv
<1>8. EtagInv'
  <2> SUFFICES ASSUME NEW h \in Items, snap[h].st # "unused"
               PROVE  /\ snap[h].etag <= google'[h].etag
                      /\ snap[h].etag = google'[h].etag => snap[h] = google'[h]
    BY DEF EtagInv
  <2>1. snap[h].etag <= google[h].etag /\ (snap[h].etag = google[h].etag => snap[h] = google[h])
    BY DEF MergeInv, EtagInv
  <2> QED BY <1>2, <2>1, RowTypes
<1>9. BaseInv'
  <2> SUFFICES ASSUME NEW u \in Tasks, NEW h \in Items, link[u].phase \in {"creating", "linked"},
                      Paired(link[u], h, google[h])
               PROVE  /\ \A x \in mineHere'[u] : task[u].f[x] # link[u].base[x]
                      /\ google'[h].st = "live" => \A x \in mineThere'[h] : google'[h].f[x] # link[u].base[x]
    BY <1>5 DEF BaseInv
  <2>1. google'[h].st = google[h].st
    BY <1>2
  <2> QED BY <1>3, <1>4, <2>1 DEF MergeInv, BaseInv
<1>10. \A h \in Items : google'[h].st = "unused" => google'[h] = NoItem /\ mineThere'[h] = {}
  BY <1>1, <1>2, <1>4 DEF MergeInv, RowInv
<1> QED BY <1>2, <1>3, <1>4, <1>6, <1>7, <1>8, <1>9, <1>10

\* The answers to an update, their absence, and refusals.
LEMMA PatchMerge ==
  ASSUME Typed, Typed', CopyInv, MergeInv, Track(FALSE), PatchAnswered \/ PatchUncertain \/ PatchRefused \/ ApplyRefused
  PROVE  MergeInv'
<1>1. /\ jpc \in {"patch", "apply"} /\ cur \in Tasks /\ cur \notin held
      /\ UNCHANGED <<edits, task, held, link, snap>> /\ edits \in Nat
  <2>1. jpc \in {"patch", "apply"}
    BY DEF PatchAnswered, PatchUncertain, PatchRefused, ApplyRefused
  <2>2. UNCHANGED <<edits, task, held, link, snap>>
    BY DEF PatchAnswered, PatchUncertain, PatchRefused, ApplyRefused, LinkUnchanged, World, tasks
  <2> QED BY <2>1, <2>2 DEF CopyInv, JobInv, MergeInv, RowInv, Working, Typed
<1>2. ASSUME jpc = "patch", Matches(plan.item, plan.etag), Patched(plan.item),
             plan' = NoPlan \/ (plan'.merged = plan.merged /\ plan'.local = plan.local)
      PROVE  /\ AgreeInv' /\ SnapHereInv' /\ EtagInv' /\ BaseInv' /\ ValueInv'
             /\ \A u \in Tasks : mineHere'[u] \subseteq mineHere[u]
             /\ \A h \in Items : google'[h].st = "unused" => google'[h] = NoItem /\ mineThere'[h] = {}
             /\ \A x \in mineThere'[plan.item] : x \in mineThere[plan.item] /\ google[plan.item].f[x] = plan.merged[x]
             /\ \A x \in mineHere'[cur] : task[cur].f[x] # plan.merged[x]
  <2>1. /\ AgreeInv' /\ SnapHereInv' /\ EtagInv' /\ BaseInv'
        /\ \A u \in Tasks : mineHere'[u] \subseteq mineHere[u]
        /\ \A h \in Items : google'[h].st = "unused" => google'[h] = NoItem /\ mineThere'[h] = {}
        /\ \A h \in Items : google'[h].f = google[h].f \/ google'[h].f = plan.merged
        /\ \A x \in mineThere'[plan.item] : x \in mineThere[plan.item] /\ google[plan.item].f[x] = plan.merged[x]
        /\ \A x \in mineHere'[cur] : task[cur].f[x] # plan.merged[x]
    BY <1>1, <1>2, PatchedMerge
  <2>2. \A x \in Fields : plan.merged[x] <= edits'
    BY <1>1 DEF MergeInv, ValueInv, Entered
  <2>3. \A x \in Fields : NoPlan.merged[x] <= edits' /\ NoPlan.local.f[x] <= edits'
    BY <1>1 DEF NoPlan, NoTask, Unset
  <2>4. edits <= edits'
    BY <1>1
  <2>5. \A h \in Items : google'[h].f = google[h].f \/ \A x \in Fields : google'[h].f[x] <= edits'
    BY <2>1, <2>2
  <2>6. /\ plan'.merged = plan.merged \/ \A x \in Fields : plan'.merged[x] <= edits'
        /\ plan'.local.f = plan.local.f \/ \A x \in Fields : plan'.local.f[x] <= edits'
    BY <1>2, <2>3
  <2>7. ValueInv'
    BY <1>1, <2>4, <2>5, <2>6, ValuesStay DEF MergeInv
  <2> QED BY <2>1, <2>7
<1>3. CASE (PatchUncertain /\ google' = google) \/ PatchRefused \/ ApplyRefused
  <2>1. LinkEnds(cur, TRUE, FALSE) /\ google' = google
    BY <1>3 DEF PatchUncertain, PatchRefused, ApplyRefused, LinkDone, LinkUnchanged
  <2> QED BY <1>1, <2>1, EndMerge
<1>4. CASE PatchUncertain /\ google' # google
  <2>1. /\ LinkEnds(cur, TRUE, FALSE) /\ jpc = "patch" /\ Matches(plan.item, plan.etag) /\ Patched(plan.item)
    BY <1>4 DEF PatchUncertain, LinkDone
  <2>2. link' \in [Tasks -> LinkRows]
    BY DEF Typed
  <2>3. /\ jpc' = "link" /\ plan' = NoPlan
        /\ \A u \in Tasks : decided'[u] = IF u = cur /\ link'[cur].choice = "none" THEN NoConflict ELSE decided[u]
    BY <1>1, <2>1, <2>2, EndedLink
  <2>4. /\ AgreeInv' /\ SnapHereInv' /\ EtagInv' /\ BaseInv' /\ ValueInv'
        /\ \A u \in Tasks : mineHere'[u] \subseteq mineHere[u]
        /\ \A h \in Items : google'[h].st = "unused" => google'[h] = NoItem /\ mineThere'[h] = {}
    BY <1>2, <2>1, <2>3
  <2>5. PlanInv' /\ ~Working'
    BY <2>3, PlanFree
  <2>6. RowInv'
    BY <1>1, <2>3, <2>4, <2>5 DEF MergeInv, RowInv
  <2>7. DecidedInv'
    BY <1>1, <2>3 DEF MergeInv, DecidedInv
  <2> QED BY <2>4, <2>5, <2>6, <2>7 DEF MergeInv
<1>5. CASE PatchAnswered
  <2>1. /\ jpc = "patch" /\ Matches(plan.item, plan.etag) /\ Patched(plan.item) /\ UNCHANGED <<cur, decided>>
        /\ plan' = [plan EXCEPT !.etag = google'[plan.item].etag] /\ jpc' \in {"apply", "record"}
        /\ jpc' = "record" => plan.merged = plan.local.f
    BY <1>5 DEF PatchAnswered, AfterPatch
  <2>2. plan'.item = plan.item /\ plan'.merged = plan.merged /\ plan'.local = plan.local
    BY <2>1 DEF Typed, Plans
  <2>3. /\ AgreeInv' /\ SnapHereInv' /\ EtagInv' /\ BaseInv' /\ ValueInv'
        /\ \A u \in Tasks : mineHere'[u] \subseteq mineHere[u]
        /\ \A h \in Items : google'[h].st = "unused" => google'[h] = NoItem /\ mineThere'[h] = {}
        /\ \A x \in mineThere'[plan.item] : x \in mineThere[plan.item] /\ google[plan.item].f[x] = plan.merged[x]
        /\ \A x \in mineHere'[cur] : task[cur].f[x] # plan.merged[x]
    BY <1>2, <2>1, <2>2
  <2>4. RowInv'
    BY <1>1, <2>1, <2>3 DEF MergeInv, RowInv
  <2>5. DecidedInv'
    BY <1>1, <2>1 DEF MergeInv, DecidedInv
  <2>6. LocalInv'
    BY <1>1, <2>1, <2>2 DEF MergeInv, PlanInv, LocalInv
  <2>7. jpc' = "record" => mineThere'[plan.item] = {}
    BY <2>1, <2>3 DEF MergeInv, PlanInv, PatchInv, Matches
  <2>8. PlanInv'
    BY <1>1, <2>1, <2>2, <2>3, <2>6, <2>7 DEF PlanInv, PostInv, PatchInv, RecordInv
  <2> QED BY <2>3, <2>4, <2>5, <2>8 DEF MergeInv
<1> QED BY <1>3, <1>4, <1>5

\* What the job writes here replaces nothing that is the user's own.
LEMMA ApplyMerge ==
  ASSUME Typed, Typed', CopyInv, MergeInv, Track(FALSE), ApplyLocally
  PROVE  MergeInv'
<1>1. /\ jpc = "apply" /\ jpc' = "record" /\ task[cur].live
      /\ UNCHANGED <<edits, held, link, google, snap, cur, plan, decided>>
  BY DEF ApplyLocally
<1>2. /\ cur \in Tasks /\ link[cur].phase = "linked" /\ plan.item = link[cur].ext /\ plan.item \in Items /\ cur \notin held
  BY <1>1, RowTypes DEF CopyInv, JobInv, LinkInv, MergeInv, RowInv, Working
<1>3. /\ task'[cur].f = plan.merged /\ task'[cur].live = task[cur].live
      /\ task'[cur].version = task[cur].version + 1
      /\ \A u \in Tasks : u # cur => task'[u] = task[u]
  BY ApplyCopies
<1>4. /\ AgreeInv' /\ \A g \in Items : mineThere'[g] \subseteq mineThere[g]
      /\ \A u \in Tasks : u # cur => mineHere'[u] \subseteq mineHere[u]
      /\ \A u \in Tasks : task'[u].version = 0 => mineHere'[u] = {}
  BY <1>1, <1>3, Tracked
<1>5. mineHere'[cur] = {}
  <2>1. \A x \in mineHere[cur] : task[cur].f[x] # plan.merged[x]
    BY <1>1 DEF MergeInv, PlanInv, RecordInv
  <2>2. \A x \in mineHere'[cur] : task'[cur].f[x] = task[cur].f[x] /\ x \in mineHere[cur]
    BY <1>2, Tracked
  <2> QED BY <1>3, <2>1, <2>2
<1>6. ValueInv'
  <2>1. \A x \in Fields : plan.merged[x] <= edits'
    BY <1>1 DEF MergeInv, ValueInv, Entered
  <2>2. edits <= edits'
    BY <1>1 DEF Typed
  <2>3. \A u \in Tasks : task'[u].f = task[u].f \/ \A x \in Fields : task'[u].f[x] <= edits'
    BY <1>3, <2>1
  <2> QED BY <1>1, <2>2, <2>3, ValuesStay DEF MergeInv
<1>7. RowInv'
  <2>1. task'[cur].version # 0
    BY <1>2, <1>3, RowTypes
  <2>2. \A g \in Items : google'[g].st = "unused" => google'[g] = NoItem /\ mineThere'[g] = {}
    BY <1>1, <1>4 DEF MergeInv, RowInv
  <2> QED BY <1>1, <1>2, <1>3, <1>4, <2>1, <2>2 DEF MergeInv, RowInv
<1>8. SnapHereInv'
  <2> SUFFICES ASSUME NEW u \in Tasks, NEW g \in Items, task'[u].live, snap[g].st = "live",
                      Paired(link[u], g, google[g]), NEW x \in mineHere'[u]
               PROVE  task'[u].f[x] # snap[g].f[x]
    BY <1>1 DEF SnapHereInv
  <2>1. u # cur
    BY <1>5
  <2>2. task'[u] = task[u] /\ x \in mineHere[u]
    BY <1>3, <1>4, <2>1
  <2> QED BY <2>2 DEF MergeInv, SnapHereInv
<1>9. EtagInv' /\ DecidedInv'
  BY <1>1 DEF MergeInv, EtagInv, DecidedInv
<1>10. BaseInv'
  BY <1>1, <1>3, <1>4, <1>5 DEF MergeInv, BaseInv
<1>11. google[plan.item].st = "live" => \A x \in mineThere'[plan.item] : google[plan.item].f[x] # plan.merged[x]
  <2>1. Paired(link'[cur], plan.item, google'[plan.item]) /\ task'[cur].live
    BY <1>1, <1>2, <1>3 DEF Paired
  <2>2. google'[plan.item].st = "live" =>
            \A x \in mineThere'[plan.item] : task'[cur].f[x] # google'[plan.item].f[x]
    BY <1>2, <1>4, <2>1 DEF AgreeInv
  <2> QED BY <1>1, <1>3, <2>2
<1>12. PlanInv'
  BY <1>1, <1>5, <1>11 DEF PlanInv, PostInv, LocalInv, PatchInv, RecordInv
<1> QED BY <1>4, <1>6, <1>7, <1>8, <1>9, <1>10, <1>12 DEF MergeInv

\* A merge is planned from what was read: each app keeps what only it changed, and a
\* choice decides only about the values that were shown.
LEMMA PlanMerged ==
  ASSUME Typed, Typed', CopyInv, MergeInv, NEW b \in BOOLEAN, Track(b), NEW t \in Tasks, PlanMerge(t)
  PROVE  MergeInv'
<1>1. /\ jpc = "link" /\ link[t].phase = "linked" /\ t \notin held /\ task[t].live
      /\ UNCHANGED <<edits, task, held, google, snap>>
  BY OnLink DEF PlanMerge, Linked
<1>2. cur' = t /\ UNCHANGED <<link, decided>> /\ Remote(t).st = "live"
  BY DEF PlanMerge
<1> DEFINE g == link[t].ext
           R == Remote(t)
           p == IF link[t].choice = "google" THEN R.f ELSE task[t].f
           m == Reconcile(link[t].base, task[t].f, R.f, p)
           row == [local |-> task[t], etag |-> IfMatch(t), merged |-> m, item |-> g]
<1>3. g \in Items /\ Paired(link[t], g, google[g])
  BY <1>1, RowTypes DEF CopyInv, LinkInv, Paired
<1>4. /\ plan' = row
      /\ jpc' = IF m # R.f THEN "patch" ELSE IF m # task[t].f THEN "apply" ELSE "record"
      /\ Reconcilable(link[t].base, task[t].f, R.f) \/ (Current(t) /\ link[t].choice # "none")
  BY DEF PlanMerge
<1>5. R = snap[g] \/ R = google[g]
  BY DEF Remote
<1>6. R \in ItemRows /\ R.etag \in Nat /\ R.f \in Contents /\ google[g].etag \in Nat
  BY <1>3, <1>5, RowTypes
<1>7. \A x \in mineHere[t] : task[t].f[x] # R.f[x]
  BY <1>1, <1>2, <1>3, <1>5 DEF MergeInv, SnapHereInv, AgreeInv
<1>8. google[g].st = "live" => \A x \in mineThere[g] : google[g].f[x] # task[t].f[x]
  BY <1>1, <1>3 DEF MergeInv, AgreeInv
<1>9. R.etag <= google[g].etag /\ (R.etag = google[g].etag => R = google[g])
  <2>1. CASE R = google[g]
    BY <1>6, <2>1
  <2>2. CASE R = snap[g]
    BY <1>2, <1>3, <2>2 DEF MergeInv, EtagInv
  <2> QED BY <1>5, <2>1, <2>2
<1>10. \A x \in Fields : R.f[x] <= edits /\ task[t].f[x] <= edits
  BY <1>3, <1>5 DEF MergeInv, ValueInv, Entered
<1>11. Current(t) => link[t].conflict.local = task[t].f /\ link[t].conflict.google = R.f
  BY DEF Current
<1>12. link[t].choice # "none" => decided[t] = link[t].conflict
  BY DEF MergeInv, DecidedInv
<1>13. (\E x \in Fields : Merge(link[t].base[x], task[t].f[x], R.f[x]) = {}) =>
           link[t].choice \in {"google", "prosepect"} /\ decided[t].local = task[t].f /\ decided[t].google = R.f
  BY <1>4, <1>11, <1>12, RowTypes DEF Reconcilable
<1>14. p \in Contents /\ IfMatch(t) = R.etag
  BY <1>6, RowTypes DEF IfMatch
<1>15. (link[t].choice = "google" => p = R.f) /\ (link[t].choice # "google" => p = task[t].f)
  OBVIOUS
<1> HIDE DEF g, R, p
<1>16. m \in Contents /\ KeepsChanges(m, link[t].base, task[t].f, R.f, p)
  BY <1>6, <1>14, RowTypes, Reconciled
<1> HIDE DEF m
<1>17. row.local = task[t] /\ row.etag = R.etag /\ row.merged = m /\ row.item = g
  BY <1>14
<1> HIDE DEF row
<1>18. /\ AgreeInv' /\ edits \in Nat
       /\ \A u \in Tasks : mineHere'[u] \subseteq mineHere[u]
       /\ \A h \in Items : mineThere'[h] \subseteq mineThere[h]
  BY <1>1, Tracked DEF Typed
<1>19. ValueInv'
  <2>1. \A x \in Fields : m[x] <= edits' /\ task[t].f[x] <= edits'
    BY <1>1, <1>10, <1>15, <1>16 DEF KeepsChanges
  <2>2. edits <= edits'
    BY <1>1, <1>18
  <2> QED BY <1>1, <1>2, <1>4, <1>17, <2>1, <2>2, ValuesStay DEF MergeInv
<1>20. RowInv'
  <2>1. \A h \in Items : google'[h].st = "unused" => google'[h] = NoItem /\ mineThere'[h] = {}
    BY <1>1, <1>18 DEF MergeInv, RowInv
  <2> QED BY <1>1, <1>2, <1>4, <1>18, <2>1 DEF MergeInv, RowInv
<1>21. SnapHereInv' /\ EtagInv' /\ BaseInv' /\ DecidedInv'
  BY <1>1, <1>2, <1>18 DEF MergeInv, SnapHereInv, EtagInv, BaseInv, DecidedInv
<1>22. LocalInv'
  <2>1. ASSUME NEW x \in Fields, m[x] # task[t].f[x]
        PROVE  task[t].f[x] = link[t].base[x] \/ (link[t].choice = "google" /\ decided[t].local = task[t].f)
    BY <1>13, <1>15, <1>16, <2>1 DEF KeepsChanges
  <2>2. task[t].version >= task[t].version
    BY RowTypes
  <2> QED BY <1>1, <1>2, <1>4, <1>17, <2>1, <2>2 DEF LocalInv
<1>23. PatchInv'
  <2>1. ASSUME google[g].etag = R.etag, NEW x \in Fields, m[x] # google[g].f[x]
        PROVE  \/ google[g].f[x] = link[t].base[x]
               \/ link[t].choice = "prosepect" /\ decided[t].google = google[g].f
    <3>1. R = google[g]
      BY <1>9, <2>1
    <3> QED BY <1>13, <1>15, <1>16, <2>1, <3>1 DEF KeepsChanges
  <2> QED BY <1>1, <1>2, <1>3, <1>4, <1>8, <1>9, <1>17, <1>18, <2>1 DEF PatchInv, Matches
<1>24. RecordInv'
  <2>1. jpc' \in {"apply", "record"} => m = R.f
    BY <1>4
  <2>2. jpc' = "record" => m = task[t].f
    BY <1>4
  <2> QED BY <1>1, <1>2, <1>3, <1>4, <1>7, <1>8, <1>17, <1>18, <2>1, <2>2 DEF RecordInv
<1>25. PlanInv'
  BY <1>4, <1>22, <1>23, <1>24 DEF PlanInv, PostInv
<1> QED BY <1>18, <1>19, <1>20, <1>21, <1>25 DEF MergeInv

\* An imported task starts from what was listed.
LEMMA ImportMerge ==
  ASSUME Typed, Typed', CopyInv, CopyInv', MergeInv, Track(FALSE), NEW g \in Items, NEW t \in Tasks, Import(g, t)
  PROVE  MergeInv'
<1>1. /\ link[t] = NoLink /\ task[t] = NoTask /\ snap[g].st = "live" /\ jpc = "link" /\ jpc' = "link"
      /\ \A u \in Tasks : ~Paired(link[u], g, snap[g])
      /\ UNCHANGED <<edits, held, google, snap, cur, plan, decided>>
      /\ task' \in [Tasks -> TaskRows] /\ link' \in [Tasks -> LinkRows]
      /\ task'[t].live = TRUE /\ task'[t].f = snap[g].f /\ task'[t].version = 1
      /\ link'[t].phase = "linked" /\ link'[t].ext = g /\ link'[t].base = snap[g].f
      /\ link'[t].choice = "none" /\ link'[t].etag = snap[g].etag
      /\ \A u \in Tasks : u # t => link'[u] = link[u] /\ task'[u] = task[u]
      /\ \A u \in Tasks : link[u].id < link'[t].id
      /\ conn' \in Conns /\ scan' \in Scans /\ scan'.todo = scan.todo
  BY ImportedRows
<1>2. task[t].version = 0 /\ t \notin held /\ mineHere[t] = {}
  <2>1. task[t].version = 0
    BY <1>1 DEF NoTask
  <2> QED BY <2>1 DEF MergeInv, RowInv
<1>3. /\ AgreeInv' /\ edits \in Nat
      /\ \A u \in Tasks : u # t => mineHere'[u] \subseteq mineHere[u]
      /\ \A h \in Items : mineThere'[h] \subseteq mineThere[h]
      /\ \A u \in Tasks : task'[u].version = 0 => mineHere'[u] = {}
      /\ mineHere'[t] = {}
  BY <1>1, <1>2, Tracked DEF Typed
<1>4. PlanInv' /\ ~Working'
  BY <1>1, PlanFree
<1>5. ValueInv'
  <2>1. \A x \in Fields : snap[g].f[x] <= edits'
    BY <1>1 DEF MergeInv, ValueInv, Entered
  <2>2. edits <= edits'
    BY <1>1, <1>3
  <2>3. /\ \A u \in Tasks : task'[u].f = task[u].f \/ \A x \in Fields : task'[u].f[x] <= edits'
        /\ \A u \in Tasks : link'[u].base = link[u].base \/ \A x \in Fields : link'[u].base[x] <= edits'
    BY <1>1, <2>1
  <2> QED BY <1>1, <2>2, <2>3, ValuesStay DEF MergeInv
<1>6. RowInv'
  <2>1. \A h \in Items : google'[h].st = "unused" => google'[h] = NoItem /\ mineThere'[h] = {}
    BY <1>1, <1>3 DEF MergeInv, RowInv
  <2> QED BY <1>1, <1>2, <1>3, <1>4, <2>1 DEF MergeInv, RowInv
<1>7. SnapHereInv'
  <2> SUFFICES ASSUME NEW u \in Tasks, NEW h \in Items, task'[u].live, snap[h].st = "live",
                      Paired(link'[u], h, google[h]), NEW x \in mineHere'[u]
               PROVE  task'[u].f[x] # snap[h].f[x]
    BY <1>1 DEF SnapHereInv
  <2>1. u # t
    BY <1>3
  <2>2. task'[u] = task[u] /\ link'[u] = link[u] /\ x \in mineHere[u]
    BY <1>1, <1>3, <2>1
  <2> QED BY <2>2 DEF MergeInv, SnapHereInv
<1>8. EtagInv' /\ DecidedInv'
  BY <1>1 DEF MergeInv, EtagInv, DecidedInv
<1>9. BaseInv'
  <2> SUFFICES ASSUME NEW u \in Tasks, NEW h \in Items, link'[u].phase \in {"creating", "linked"},
                      Paired(link'[u], h, google[h])
               PROVE  /\ \A x \in mineHere'[u] : task'[u].f[x] # link'[u].base[x]
                      /\ google[h].st = "live" => \A x \in mineThere'[h] : google[h].f[x] # link'[u].base[x]
    BY <1>1 DEF BaseInv
  <2>1. CASE u # t
    <3>1. task'[u] = task[u] /\ link'[u] = link[u]
      BY <1>1, <2>1
    <3> QED BY <1>3, <2>1, <3>1 DEF MergeInv, BaseInv
  <2>2. CASE u = t
    <3>1. h = g
      <4>1. g # 0
        BY TasksAssumption DEF Items
      <4> QED BY <1>1, <2>2, <4>1 DEF CopyInv, ExtInv, Paired
    <3>2. google'[h].st = "live" => \A x \in mineThere'[h] : task'[t].f[x] # google'[h].f[x]
      BY <1>1, <1>3, <2>2, <3>1 DEF AgreeInv
    <3> QED BY <1>1, <1>3, <2>2, <3>2
  <2> QED BY <2>1, <2>2
<1> QED BY <1>3, <1>4, <1>5, <1>6, <1>7, <1>8, <1>9 DEF MergeInv

\* The end of a job forgets its listing,
LEMMA QuietMerge ==
  ASSUME Typed, Typed', CopyInv, MergeInv, NEW b \in BOOLEAN, Track(b), FinishBatch \/ Crash \/ ImportFails
  PROVE  MergeInv'
<1>1. Quiet /\ UNCHANGED <<edits, task, held, link, google, decided>>
  BY DEF FinishBatch, Crash, ImportFails, World, tasks
<1>2. /\ AgreeInv' /\ edits \in Nat
      /\ \A u \in Tasks : mineHere'[u] \subseteq mineHere[u]
      /\ \A h \in Items : mineThere'[h] \subseteq mineThere[h]
  BY <1>1, Tracked DEF Typed
<1>3. jpc' = "idle" /\ snap' = NoSnapshot /\ plan' = NoPlan /\ PlanInv' /\ ~Working'
  BY <1>1, PlanFree DEF Quiet
<1>4. \A g \in Items : snap'[g].st = "unused" /\ snap'[g].f = Unset
  BY <1>3 DEF NoSnapshot, NoItem
<1>5. ValueInv'
  <2>1. edits <= edits' /\ \A x \in Fields : Unset[x] <= edits'
    BY <1>1, <1>2 DEF Unset
  <2>2. plan'.merged = Unset /\ plan'.local.f = Unset
    BY <1>3 DEF NoPlan, NoTask
  <2> QED BY <1>1, <1>4, <2>1, <2>2, ValuesStay DEF MergeInv
<1>6. RowInv'
  <2>1. \A g \in Items : google'[g].st = "unused" => google'[g] = NoItem /\ mineThere'[g] = {}
    BY <1>1, <1>2 DEF MergeInv, RowInv
  <2> QED BY <1>1, <1>2, <1>3, <2>1 DEF MergeInv, RowInv
<1>7. SnapHereInv' /\ EtagInv'
  BY <1>4 DEF SnapHereInv, EtagInv
<1>8. BaseInv' /\ DecidedInv'
  BY <1>1, <1>2 DEF MergeInv, BaseInv, DecidedInv
<1> QED BY <1>2, <1>3, <1>5, <1>6, <1>7, <1>8 DEF MergeInv

\* and its beginning takes a new one.
LEMMA StartMerge ==
  ASSUME Typed, Typed', CopyInv, CopyInv', MergeInv, NEW b \in BOOLEAN, Track(b), StartJob
  PROVE  MergeInv'
<1>1. /\ jpc' = "link" /\ snap' = google /\ UNCHANGED <<edits, task, held, google, cur, plan, decided>>
  BY DEF StartJob, World, tasks
<1>2. PICK N \in SUBSET Tasks :
        /\ \A t \in Tasks : t \notin N => link'[t] = link[t]
        /\ \A t \in N : link'[t].phase = "prepared" /\ link'[t].choice = "none" /\ link'[t].base = Unset
  BY StartedJob
<1>3. /\ AgreeInv' /\ edits \in Nat
      /\ \A u \in Tasks : mineHere'[u] \subseteq mineHere[u]
      /\ \A h \in Items : mineThere'[h] \subseteq mineThere[h]
  BY <1>1, Tracked DEF Typed
<1>4. PlanInv' /\ ~Working'
  BY <1>1, PlanFree
<1>5. ValueInv'
  <2>1. edits <= edits' /\ \A x \in Fields : Unset[x] <= edits'
    BY <1>1, <1>3 DEF Unset
  <2>2. \A g \in Items : \A x \in Fields : snap'[g].f[x] <= edits'
    BY <1>1 DEF MergeInv, ValueInv, Entered
  <2>3. \A t \in Tasks : link'[t].base = link[t].base \/ \A x \in Fields : link'[t].base[x] <= edits'
    BY <1>2, <2>1
  <2> QED BY <1>1, <2>1, <2>2, <2>3, ValuesStay DEF MergeInv
<1>6. RowInv'
  <2>1. \A g \in Items : google'[g].st = "unused" => google'[g] = NoItem /\ mineThere'[g] = {}
    BY <1>1, <1>3 DEF MergeInv, RowInv
  <2> QED BY <1>1, <1>3, <1>4, <2>1 DEF MergeInv, RowInv
<1>7. SnapHereInv'
  BY <1>1, <1>3 DEF AgreeInv, SnapHereInv
<1>8. EtagInv'
  BY <1>1, RowTypes DEF EtagInv
<1>9. BaseInv'
  BY <1>1, <1>2, <1>3 DEF MergeInv, BaseInv
<1>10. DecidedInv'
  BY <1>1, <1>2 DEF MergeInv, DecidedInv
<1> QED BY <1>3, <1>4, <1>5, <1>6, <1>7, <1>8, <1>9, <1>10 DEF MergeInv

\* Nothing was changed at first.
LEMMA InitMerge == Init => MergeInv
<1> SUFFICES ASSUME Init PROVE MergeInv
  OBVIOUS
<1>1. Typed
  BY InitType DEF TypeInv
<1>2. /\ edits = 0 /\ held = {} /\ jpc = "idle" /\ snap = NoSnapshot /\ plan = NoPlan
      /\ \A t \in Tasks : link[t] = NoLink /\ mineHere[t] = {}
      /\ \A g \in Items : mineThere[g] = {}
      /\ \A t \in Tasks : task[t] \in {NoTask, [NoTask EXCEPT !.live = TRUE, !.version = 1]}
      /\ \A g \in Items : google[g] \in {NoItem, [NoItem EXCEPT !.st = "live", !.etag = 1]}
  BY DEF Init
<1>3. /\ NoTask.f = Unset /\ NoTask.version = 0 /\ NoTask.live = FALSE
      /\ NoItem.f = Unset /\ NoItem.st = "unused"
      /\ NoLink.base = Unset /\ NoLink.phase = "none" /\ NoLink.choice = "none"
      /\ NoPlan.merged = Unset /\ NoPlan.local.f = Unset
  BY DEF NoTask, NoItem, NoLink, NoPlan
<1>4. \A x \in Fields : Unset[x] <= 0
  BY DEF Unset
<1>5. \A t \in Tasks : task[t].f = Unset /\ (task[t].version # 0 <=> task[t].live)
  <2> SUFFICES ASSUME NEW t \in Tasks PROVE task[t].f = Unset /\ (task[t].version # 0 <=> task[t].live)
    OBVIOUS
  <2>1. CASE task[t] = [NoTask EXCEPT !.live = TRUE, !.version = 1]
    BY <2>1 DEF NoTask
  <2>2. CASE task[t] = NoTask
    BY <1>3, <2>2
  <2> QED BY <1>2, <2>1, <2>2
<1>6. \A g \in Items : google[g].f = Unset /\ (google[g].st = "unused" => google[g] = NoItem)
  <2> SUFFICES ASSUME NEW g \in Items PROVE google[g].f = Unset /\ (google[g].st = "unused" => google[g] = NoItem)
    OBVIOUS
  <2>1. CASE google[g] = [NoItem EXCEPT !.st = "live", !.etag = 1]
    BY <2>1 DEF NoItem
  <2>2. CASE google[g] = NoItem
    BY <1>3, <2>2
  <2> QED BY <1>2, <2>1, <2>2
<1>7. \A g \in Items : snap[g] = NoItem
  BY <1>2 DEF NoSnapshot
<1>8. ValueInv
  BY <1>2, <1>3, <1>4, <1>5, <1>6, <1>7 DEF ValueInv, Entered
<1>9. RowInv
  BY <1>2, <1>5, <1>6 DEF RowInv, Working
<1>10. AgreeInv /\ SnapHereInv /\ EtagInv /\ BaseInv /\ DecidedInv
  BY <1>2, <1>3, <1>7 DEF AgreeInv, SnapHereInv, EtagInv, BaseInv, DecidedInv
<1>11. PlanInv
  BY <1>2 DEF PlanInv, PostInv, LocalInv, PatchInv, RecordInv
<1> QED BY <1>8, <1>9, <1>10, <1>11 DEF MergeInv

\* Every step keeps the merge sound.
LEMMA MergeStep ==
  TypeInv /\ CopyInv /\ MergeInv /\ TypeInv' /\ CopyInv' /\ [Next]_vars => MergeInv'
<1> SUFFICES ASSUME TypeInv, CopyInv, MergeInv, TypeInv', CopyInv', [Next]_vars PROVE MergeInv'
  OBVIOUS
<1>1. Typed /\ Typed'
  BY DEF TypeInv
<1>2. CASE UNCHANGED vars
  <2>1. UNCHANGED <<edits, task, held, link, google, jpc, snap, cur, plan, decided, mineHere, mineThere>>
    BY <1>2 DEF vars, tasks, jobVars
  <2> QED BY <1>1, <2>1, StillMerge
<1>3. CASE (UserStep \/ Periodic) /\ Track(TRUE)
  BY <1>1, <1>3, TaskStepsMerge, GoogleStepsMerge, RequestsMerge DEF UserStep
<1>4. CASE JobStep /\ Track(FALSE)
  <2>1. ASSUME NEW t \in Tasks, NEW g \in Items, Import(g, t) PROVE MergeInv'
    BY <1>1, <1>4, <2>1, ImportMerge
  <2>2. ASSUME NEW t \in Tasks,
               \/ PassHeld(t) \/ DetachDeleted(t) \/ RecoverCreate(t) \/ ClaimCreate(t)
               \/ DetachMissing(t) \/ RecordConflict(t) \/ PlanMerge(t)
        PROVE  MergeInv'
    BY <1>1, <1>4, <2>2, PlainLinkMerge, RecoverMerge, ClaimMerge, PlanMerged
  <2>3. CASE StartJob \/ SkipJob \/ FinishBatch
    BY <1>1, <1>4, <2>3, StartMerge, RequestsMerge, QuietMerge
  <2>4. CASE (\E g \in Items : PostAnswered(g)) \/ PatchAnswered \/ PatchRefused \/ ApplyLocally \/ ApplyRefused \/ RecordLink
    BY <1>1, <1>4, <2>4, PostMerge, PatchMerge, ApplyMerge, RecordMerge
  <2> QED BY <1>4, <2>1, <2>2, <2>3, <2>4 DEF JobStep
<1>5. CASE Fault /\ Track(FALSE)
  BY <1>1, <1>5, RequestsMerge, QuietMerge, PostMerge, PatchMerge DEF Fault
<1> QED BY <1>2, <1>3, <1>4, <1>5 DEF Next

\* The merge is sound in every state.
LEMMA MergeInvariance == Spec => [](TypeInv /\ CopyInv /\ MergeInv)
<1>1. Init => TypeInv /\ CopyInv /\ MergeInv
  BY InitType, InitCopies, InitMerge
<1>2. TypeInv /\ CopyInv /\ MergeInv /\ [Next]_vars => (TypeInv /\ CopyInv /\ MergeInv)'
  BY CopyStep, MergeStep
<1> QED BY <1>1, <1>2, PTL DEF Spec

\* Nothing of the user's own is replaced by a step of the job, except by choice.
Respects ==
    /\ \A t \in Tasks : \A x \in mineHere[t] :
          task[t].live /\ task'[t].f[x] # task[t].f[x] =>
             link[t].choice = "google" /\ decided[t].local[x] = task[t].f[x]
    /\ \A g \in Items : \A x \in mineThere[g] :
          google'[g].f[x] # google[g].f[x] =>
             \E t \in Tasks : /\ link[t].ext = g
                              /\ link[t].choice = "prosepect"
                              /\ decided[t].google[x] = google[g].f[x]

\* update_task by the job: the version it read is the one it replaces.
LEMMA ApplyRespects ==
  ASSUME TypeInv, CopyInv, MergeInv, ApplyLocally
  PROVE  Respects
<1>1. Typed
  BY DEF TypeInv
<1>2. /\ jpc = "apply" /\ task[cur].live /\ task[cur].version = plan.local.version /\ google' = google
  BY DEF ApplyLocally
<1>3. /\ cur \in Tasks /\ link[cur].phase = "linked" /\ link[cur].ext \in Items
  BY <1>1, <1>2, RowTypes DEF CopyInv, JobInv, LinkInv
<1>4. /\ task'[cur].f = plan.merged /\ \A u \in Tasks : u # cur => task'[u] = task[u]
  BY <1>1, ApplyCopies
<1>5. /\ task[cur].f = plan.local.f
      /\ \A x \in Fields : plan.merged[x] # plan.local.f[x] =>
              \/ plan.local.f[x] = link[cur].base[x]
              \/ link[cur].choice = "google" /\ decided[cur].local = plan.local.f
  BY <1>2 DEF MergeInv, PlanInv, LocalInv
<1>6. \A x \in mineHere[cur] : x \in Fields /\ task[cur].f[x] # link[cur].base[x]
  BY <1>3 DEF TypeInv, MergeInv, BaseInv, Paired
<1>7. ASSUME NEW x \in mineHere[cur], task'[cur].f[x] # task[cur].f[x]
      PROVE  link[cur].choice = "google" /\ decided[cur].local[x] = task[cur].f[x]
  BY <1>4, <1>5, <1>6, <1>7
<1> QED BY <1>2, <1>4, <1>7 DEF Respects

\* The conditional update of the item.
LEMMA PatchRespects ==
  ASSUME TypeInv, CopyInv, MergeInv, jpc = "patch", Matches(plan.item, plan.etag), Patched(plan.item), task' = task
  PROVE  Respects
<1>1. Typed
  BY DEF TypeInv
<1>2. /\ cur \in Tasks /\ link[cur].phase = "linked" /\ plan.item = link[cur].ext /\ google[plan.item].st = "live"
  BY DEF CopyInv, JobInv, Matches
<1>3. /\ plan.item \in Items /\ google'[plan.item].f = plan.merged
      /\ \A g \in Items : g # plan.item => google'[g] = google[g]
  BY <1>1, PatchedItem
<1>4. \A x \in Fields : plan.merged[x] # google[plan.item].f[x] =>
              \/ google[plan.item].f[x] = link[cur].base[x]
              \/ link[cur].choice = "prosepect" /\ decided[cur].google = google[plan.item].f
  BY DEF MergeInv, PlanInv, PatchInv
<1>5. \A x \in mineThere[plan.item] : x \in Fields /\ google[plan.item].f[x] # link[cur].base[x]
  BY <1>2, <1>3 DEF TypeInv, MergeInv, BaseInv, Paired
<1>6. ASSUME NEW x \in mineThere[plan.item], google'[plan.item].f[x] # google[plan.item].f[x]
      PROVE  /\ link[cur].choice = "prosepect" /\ decided[cur].google[x] = google[plan.item].f[x]
  BY <1>3, <1>4, <1>5, <1>6
<1> QED BY <1>2, <1>3, <1>6 DEF Respects

\* No other step of the job writes a field.
LEMMA JobRespects == TypeInv /\ CopyInv /\ MergeInv /\ [Next]_vars => [jpc' # jpc => Respects]_vars
<1> SUFFICES ASSUME TypeInv, CopyInv, MergeInv, Next, jpc' # jpc PROVE Respects
  OBVIOUS
<1>1. Typed
  BY DEF TypeInv
<1>2. CASE task' = task /\ google' = google
  BY <1>2 DEF Respects
<1>3. ASSUME jpc = "post", NEW g \in Items, PostCreates(g), task' = task PROVE Respects
  <2>1. google \in [Items -> ItemRows] /\ mineThere[g] = {}
    BY <1>1, <1>3 DEF PostCreates, MergeInv, RowInv, Typed
  <2>2. \A h \in Items : h # g => google'[h] = google[h]
    BY <1>3, <2>1 DEF PostCreates
  <2> QED BY <1>3, <2>1, <2>2 DEF Respects
<1>4. CASE UserStep \/ Periodic
  <2>1. jpc' = jpc
    BY <1>4 DEF UserStep, Enable, Disable, CreateTask, DeleteTask, DeleteReversibly, UndoDelete, UndoExpires,
                LeaveUnlinked, EditTask, ResolveConflict, GoogleCreate, GoogleEdit, GoogleDelete,
                GoogleUnchangedElsewhere, Periodic, jobVars
  <2> QED BY <2>1
<1>5. CASE JobStep
  <2>1. CASE StartJob \/ SkipJob \/ FinishBatch \/ PatchRefused \/ ApplyRefused \/ RecordLink
    <3>1. task' = task /\ google' = google
      BY <2>1 DEF StartJob, SkipJob, FinishBatch, PatchRefused, ApplyRefused, RecordLink, LinkUnchanged, World, tasks
    <3> QED BY <1>2, <3>1
  <2>2. ASSUME NEW t \in Tasks,
               \/ PassHeld(t) \/ DetachDeleted(t) \/ RecoverCreate(t) \/ ClaimCreate(t)
               \/ DetachMissing(t) \/ RecordConflict(t) \/ PlanMerge(t)
        PROVE  Respects
    <3>1. LinkUnchanged
      BY <2>2 DEF PassHeld, DetachDeleted, RecoverCreate, ClaimCreate, DetachMissing, RecordConflict, PlanMerge
    <3> QED BY <1>2, <3>1 DEF LinkUnchanged, World, tasks
  <2>3. ASSUME NEW t \in Tasks, NEW g \in Items, Import(g, t) PROVE Respects
    BY <2>3 DEF Import
  <2>4. ASSUME NEW g \in Items, PostAnswered(g) PROVE Respects
    BY <1>3, <2>4 DEF PostAnswered, World, tasks
  <2>5. CASE PatchAnswered
    BY <2>5, PatchRespects DEF PatchAnswered, World, tasks
  <2>6. CASE ApplyLocally
    BY <2>6, ApplyRespects
  <2> QED BY <1>5, <2>1, <2>2, <2>3, <2>4, <2>5, <2>6 DEF JobStep
<1>6. CASE Fault
  <2>1. CASE ListingFails \/ Crash \/ ImportFails \/ PostRejected
    BY <1>2, <2>1 DEF ListingFails, Crash, ImportFails, PostRejected, World, tasks
  <2>2. CASE PostUncertain
    BY <1>2, <1>3, <2>2 DEF PostUncertain, World, tasks
  <2>3. CASE PatchUncertain
    BY <1>2, <2>3, PatchRespects DEF PatchUncertain, World, tasks
  <2> QED BY <1>6, <2>1, <2>2, <2>3 DEF Fault
<1> QED BY <1>4, <1>5, <1>6 DEF Next

\* A step of the job replaces a field that the user changed, and that the other app does
\* not have, only where the user saw this value in a conflict and chose the other one
\* (reconcile, resolve_conflicting_fields, the conditional writes of sync_google_task_link).
THEOREM ChangesAreNotOverwritten == Spec => NoSilentOverwrite
<1>1. TypeInv /\ CopyInv /\ MergeInv /\ [Next]_vars =>
        [jpc' # jpc =>
          /\ \A t \in Tasks : \A x \in mineHere[t] :
                task[t].live /\ task'[t].f[x] # task[t].f[x] =>
                   link[t].choice = "google" /\ decided[t].local[x] = task[t].f[x]
          /\ \A g \in Items : \A x \in mineThere[g] :
                google'[g].f[x] # google[g].f[x] =>
                   \E t \in Tasks : /\ link[t].ext = g
                                    /\ link[t].choice = "prosepect"
                                    /\ decided[t].google[x] = google[g].f[x]]_vars
  BY JobRespects DEF Respects
<1> QED BY <1>1, MergeInvariance, PTL DEF Spec, NoSilentOverwrite

---------------------------------------------------------------------------
(* Waiting *)

\* What NothingStranded allows a live task when nothing is going on.
Handled(t) ==
    \/ t \in adopted
    \/ link[t].phase = "detached" /\ (link[t].ext = 0 \/ google[link[t].ext].etag # link[t].etag)
    \/ link[t].phase = "linked" /\ task[t].f = link[t].base

Waiting(t) == task[t].live /\ ~Handled(t)

\* Between jobs, a job or an error announces what waits.
IdleInv ==
    conn.enabled /\ jpc = "idle" => \A t \in Tasks : Waiting(t) => queued \/ failed \/ interrupted

\* What waits is ahead of the saved cursor, or the saved scan has a reason to be repeated.
SavedInv ==
    conn.enabled => \A t \in Tasks : Waiting(t) =>
        \/ conn.changed \/ conn.errs
        \/ link[t] = NoLink \/ link[t].id > conn.lc

\* What waits is in the batch, ahead of it, or the running scan has a reason to be repeated.
BatchInv ==
    jpc # "idle" => \A t \in Tasks : Waiting(t) =>
        \/ conn.changed \/ scan.errs
        \/ t \in scan.todo
        \/ scan.more /\ link[t] = NoLink
        \/ scan.more /\ link[t].id > scan.lc /\ \A u \in scan.todo : link[t].id > link[u].id

\* Cursors are identities of links; a scan that is not partial begins with the first.
CursorInv ==
    /\ ~conn.partial => conn.lc = 0
    /\ \E t \in Tasks : conn.lc <= link[t].id
    /\ jpc # "idle" => conn.enabled /\ \E t \in Tasks : scan.lc <= link[t].id
    /\ \A t \in scan.todo : link[t].id > conn.lc
    /\ Working => cur \in scan.todo

\* What the job is about to record is what the task holds, unless a change was noticed.
FreshInv ==
    /\ jpc \in {"post", "record"} => (task[cur].live => conn.changed \/ task[cur].f = plan.merged)
    /\ jpc = "patch" => (task[cur].live => conn.changed \/ task[cur].f = plan.local.f)

\* An item that was found deleted has another etag than the link.
LinkGone(t) ==
    /\ link[t].phase = "linked" =>
          /\ link[t].etag <= google[link[t].ext].etag
          /\ link[t].etag = google[link[t].ext].etag => google[link[t].ext].st = "live"
    /\ link[t].phase = "detached" /\ task[t].version # 0 /\ link[t].ext # 0 =>
          link[t].etag < google[link[t].ext].etag

SnapGone == \A g \in Items : snap[g].st \in {"deleted", "purged"} => google[g].st \in {"deleted", "purged"}

PlanGone ==
    jpc \in {"apply", "record"} =>
        /\ plan.etag <= google[plan.item].etag
        /\ plan.etag = google[plan.item].etag => google[plan.item].st = "live"

GoneInv == (\A t \in Tasks : LinkGone(t)) /\ SnapGone /\ PlanGone

WaitInv == IdleInv /\ SavedInv /\ BatchInv /\ CursorInv /\ FreshInv /\ GoneInv

\* Items that stay, come into being, or are changed.
ItemGrows(g) ==
    \/ google'[g] = google[g]
    \/ google[g].st = "unused"
    \/ /\ google'[g].etag = google[g].etag + 1 /\ google'[g].st # "unused"
       /\ google'[g].st = "live" => google[g].st = "live"

\* Items that grow, and links that keep their items, keep what is known of deleted items.
LEMMA GoneKept ==
  ASSUME Typed, Typed', CopyInv, GoneInv, \A g \in Items : ItemGrows(g)
  PROVE  /\ \A u \in Tasks :
              /\ link'[u].phase = link[u].phase /\ link'[u].ext = link[u].ext /\ link'[u].etag = link[u].etag
              /\ link[u] # NoLink /\ task'[u].version # 0 => task[u].version # 0
              => LinkGone(u)'
         /\ snap' = snap => SnapGone'
         /\ jpc' \notin {"apply", "record"} \/ (jpc' = jpc /\ plan' = plan) => PlanGone'
<1>1. \A g \in Items : google[g].etag \in Nat /\ google'[g].st \in {"unused", "live", "deleted", "purged"}
  BY RowTypes DEF Typed, ItemRows
<1>2. ASSUME NEW u \in Tasks, link'[u].phase = link[u].phase, link'[u].ext = link[u].ext, link'[u].etag = link[u].etag,
             link[u] # NoLink /\ task'[u].version # 0 => task[u].version # 0
      PROVE  LinkGone(u)'
  <2>1. LinkGone(u) /\ link[u].etag \in Nat
    BY RowTypes DEF GoneInv
  <2>2. CASE link[u].ext = 0
    <3>1. link[u].phase # "linked"
      BY <2>2 DEF CopyInv, LinkInv
    <3> QED BY <1>2, <2>2, <3>1 DEF LinkGone
  <2>3. CASE link[u].ext # 0
    <3>1. link[u].ext \in Items /\ google[link[u].ext].st # "unused" /\ link[u] # NoLink
      BY <2>3, RowTypes DEF CopyInv, ExtInv, NoLink
    <3>2. google'[link[u].ext] = google[link[u].ext] \/ google'[link[u].ext].etag = google[link[u].ext].etag + 1
      BY <3>1 DEF ItemGrows
    <3> DEFINE E == google[link[u].ext]
    <3>3. /\ link[u].phase = "linked" => link[u].etag <= E.etag /\ (link[u].etag = E.etag => E.st = "live")
          /\ link[u].phase = "detached" /\ task[u].version # 0 => link[u].etag < E.etag
      BY <2>1, <2>3 DEF LinkGone
    <3>4. E.etag \in Nat
      BY <1>1, <3>1
    <3> DEFINE F == google'[link[u].ext]
    <3>5. F = E \/ F.etag = E.etag + 1
      BY <3>2
    <3> HIDE DEF E, F
    <3>6. /\ link[u].phase = "linked" => link[u].etag <= F.etag /\ (link[u].etag = F.etag => F.st = "live")
          /\ link[u].phase = "detached" /\ task[u].version # 0 => link[u].etag < F.etag
      BY <2>1, <3>3, <3>4, <3>5
    <3> QED BY <1>2, <3>1, <3>6 DEF LinkGone, F
  <2> QED BY <2>2, <2>3
<1>3. snap' = snap => SnapGone'
  <2> SUFFICES ASSUME NEW g \in Items, snap[g].st \in {"deleted", "purged"} PROVE google'[g].st \in {"deleted", "purged"}
    BY DEF SnapGone
  <2>1. google[g].st \in {"deleted", "purged"}
    BY DEF GoneInv, SnapGone
  <2> QED BY <1>1, <2>1 DEF ItemGrows
<1>4. jpc' \notin {"apply", "record"} \/ (jpc' = jpc /\ plan' = plan) => PlanGone'
  <2> SUFFICES ASSUME jpc \in {"apply", "record"}, jpc' = jpc, plan' = plan
               PROVE  /\ plan.etag <= google'[plan.item].etag
                      /\ plan.etag = google'[plan.item].etag => google'[plan.item].st = "live"
    BY DEF PlanGone
  <2>1. plan.item \in Items /\ google[plan.item].st # "unused"
    <3>1. cur \in Tasks /\ plan.item \in Items
      BY RowTypes DEF CopyInv, JobInv, LinkInv
    <3>2. CASE link[cur].phase = "linked" /\ plan.item = link[cur].ext
      BY <3>1, <3>2 DEF CopyInv, LinkInv, ExtInv
    <3>3. CASE link[cur].phase = "creating" /\ google[plan.item].ref = link[cur].id
      <4>1. link[cur].id > 0 /\ link[cur].id \in Nat
        BY <3>1, <3>3, RowTypes DEF CopyInv, LinkInv
      <4>2. google[plan.item].ref # 0
        BY <3>3, <4>1
      <4> QED BY <3>1, <4>2 DEF CopyInv, ItemInv
    <3> QED BY <3>1, <3>2, <3>3 DEF CopyInv, JobInv
  <2>2. plan.etag \in Nat /\ google[plan.item].etag \in Nat
    BY <2>1, RowTypes
  <2>3. plan.etag <= google[plan.item].etag /\ (plan.etag = google[plan.item].etag => google[plan.item].st = "live")
    BY DEF GoneInv, PlanGone
  <2>4. google'[plan.item] = google[plan.item] \/ google'[plan.item].etag = google[plan.item].etag + 1
    BY <2>1 DEF ItemGrows
  <2> QED BY <2>2, <2>3, <2>4
<1> QED BY <1>2, <1>3, <1>4

\* What was settled stays so while the row, the link and the claim of a recovery do.
LEMMA HandledStays ==
  ASSUME Typed', GoneInv', NEW t \in Tasks, link'[t].phase = link[t].phase, link'[t].ext = link[t].ext,
         link'[t].base = link[t].base, task'[t].f = task[t].f, t \in adopted => t \in adopted',
         Waiting(t)', RowInv'
  PROVE  ~Handled(t)
<1>1. task'[t].live /\ task'[t].version # 0 /\ ~Handled(t)'
  BY DEF Waiting, RowInv
<1>2. t \notin adopted /\ ~(link[t].phase = "linked" /\ task[t].f = link[t].base)
  BY <1>1 DEF Handled
<1>3. ASSUME link[t].phase = "detached", link[t].ext = 0 \/ google[link[t].ext].etag # link[t].etag PROVE FALSE
  <2>1. LinkGone(t)'
    BY DEF GoneInv
  <2>2. link'[t].ext # 0 /\ google'[link'[t].ext].etag = link'[t].etag
    BY <1>1, <1>3 DEF Handled
  <2>3. link'[t].ext \in Items /\ link'[t].etag \in Nat
    BY <2>2 DEF Typed, LinkRows
  <2> QED BY <1>1, <1>3, <2>1, <2>2, <2>3 DEF LinkGone
<1> QED BY <1>2, <1>3 DEF Handled

\* Cursors that stay are still identities of links.
LEMMA CursorKept ==
  ASSUME Typed, WaitInv, \A u \in Tasks : link'[u].id = link[u].id,
         conn'.lc = conn.lc, conn'.partial = conn.partial, conn'.enabled = conn.enabled,
         scan'.todo \subseteq scan.todo, scan'.lc = scan.lc \/ \E u \in Tasks : scan'.lc = link[u].id,
         jpc' # "idle" => jpc # "idle",
         Working' => cur' \in scan'.todo
  PROVE  CursorInv'
<1>1. CursorInv /\ scan.todo \subseteq Tasks /\ \A u \in Tasks : link[u].id \in Nat
  BY RowTypes DEF WaitInv, Typed, Scans
<1>2. \A u \in scan'.todo : link'[u].id > conn'.lc
  BY <1>1 DEF CursorInv
<1>3. \E u \in Tasks : conn'.lc <= link'[u].id
  BY <1>1 DEF CursorInv
<1>4. jpc' # "idle" => \E u \in Tasks : scan'.lc <= link'[u].id
  BY <1>1 DEF CursorInv
<1> QED BY <1>1, <1>2, <1>3, <1>4 DEF CursorInv

\* Nothing waits that did not, and everything that announces it stays.
LEMMA WaitingStays ==
  ASSUME WaitInv, \A u \in Tasks : Waiting(u)' => Waiting(u),
         \A u \in Tasks : link'[u].id = link[u].id /\ (link[u] = NoLink => link'[u] = NoLink),
         Typed, conn' = conn, scan' = scan, jpc' = jpc, 
         queued \/ failed \/ interrupted => queued' \/ failed' \/ interrupted'
  PROVE  IdleInv' /\ SavedInv' /\ BatchInv'
<1>1. IdleInv /\ SavedInv /\ BatchInv /\ scan.todo \subseteq Tasks
  BY DEF WaitInv, Typed, Scans
<1>2. IdleInv'
  BY <1>1 DEF IdleInv
<1>3. SavedInv'
  BY <1>1 DEF SavedInv
<1>4. BatchInv'
  BY <1>1 DEF BatchInv
<1> QED BY <1>2, <1>3, <1>4

\* What enqueue_google_tasks_change does.
LEMMA Changed ==
  ASSUME Typed, TaskChanged
  PROVE  /\ conn'.enabled = conn.enabled /\ conn'.partial = conn.partial /\ conn'.lc = conn.lc /\ conn'.errs = conn.errs
         /\ conn.enabled => (conn'.changed <=> Scanning) /\ queued'
         /\ ~conn.enabled => conn' = conn
<1>1. conn \in Conns /\ Scanning \in BOOLEAN
  BY DEF Typed, Scanning
<1>2. [conn EXCEPT !.changed = Scanning].changed = Scanning
  BY <1>1 DEF Conns
<1> QED BY <1>1, <1>2 DEF TaskChanged, Conns

\* A change of a task is noticed by the scan that is under way, and a job is queued for it.
LEMMA Noticed ==
  ASSUME Typed, Typed', CopyInv', WaitInv, TaskChanged, jpc' # "idle" => jpc # "idle"
  PROVE  (jpc' = "idle" => IdleInv' /\ SavedInv') /\ (jpc' # "idle" => IdleInv' /\ SavedInv' /\ BatchInv' /\ FreshInv')
<1>1. CursorInv /\ \A u \in Tasks : link'[u].id \in Nat
  BY DEF WaitInv, Typed, LinkRows
<1>2. /\ conn'.enabled = conn.enabled /\ conn'.partial = conn.partial /\ conn'.lc = conn.lc
      /\ conn.enabled => (conn'.changed <=> Scanning) /\ queued'
  BY Changed
<1>3. IdleInv'
  BY <1>2 DEF IdleInv
<1>4. CASE jpc' # "idle"
  <2>1. conn'.changed
    BY <1>1, <1>2, <1>4 DEF CursorInv, Scanning
  <2> QED BY <1>3, <1>4, <2>1 DEF SavedInv, BatchInv, FreshInv
<1>5. CASE conn'.enabled /\ ~conn'.partial
  <2>1. conn'.lc = 0
    BY <1>1, <1>2, <1>5 DEF CursorInv
  <2>2. \A u \in Tasks : link'[u] = NoLink \/ link'[u].id > 0
    BY DEF CopyInv, LinkInv
  <2> QED BY <1>3, <1>4, <2>1, <2>2 DEF SavedInv
<1>6. CASE conn'.enabled /\ conn'.partial
  <2>1. conn'.changed
    BY <1>2, <1>6 DEF Scanning
  <2> QED BY <1>3, <1>4, <2>1 DEF SavedInv
<1> QED BY <1>3, <1>4, <1>5, <1>6 DEF SavedInv

\* Changes of tasks.
LEMMA TaskStepsWait ==
  ASSUME Typed, Typed', CopyInv, CopyInv', MergeInv, MergeInv', WaitInv, NEW t \in Tasks,
         \/ CreateTask(t) \/ DeleteTask(t) \/ DeleteReversibly(t) \/ UndoDelete(t) \/ UndoExpires(t)
         \/ \E x \in Fields : EditTask(t, x)
  PROVE  WaitInv'
<1>1. UNCHANGED <<link, failed, google, jpc, snap, scan, cur, plan, interrupted, adopted>>
  BY DEF CreateTask, DeleteTask, DeleteReversibly, UndoDelete, UndoExpires, EditTask, jobVars
<1>2. TaskChanged \/ UndoExpires(t)
  BY DEF CreateTask, DeleteTask, DeleteReversibly, UndoDelete, EditTask
<1>3. \A u \in Tasks : link[u] # NoLink /\ task'[u].version # 0 => task[u].version # 0
  <2>1. RowInv /\ task \in [Tasks -> TaskRows]
    BY DEF MergeInv, Typed
  <2>2. \A u \in Tasks : u # t => task'[u] = task[u]
    BY <2>1 DEF CreateTask, DeleteTask, DeleteReversibly, UndoDelete, UndoExpires, EditTask
  <2>3. CASE CreateTask(t)
    BY <2>2, <2>3 DEF CreateTask, Fresh
  <2>4. CASE DeleteTask(t) \/ UndoExpires(t)
    <3>1. task'[t].version = 0
      BY <2>1, <2>4 DEF DeleteTask, UndoExpires, NoTask
    <3> QED BY <2>2, <3>1
  <2>5. CASE DeleteReversibly(t) \/ UndoDelete(t) \/ \E x \in Fields : EditTask(t, x)
    <3>1. task[t].version # 0
      BY <2>1, <2>5 DEF RowInv, DeleteReversibly, UndoDelete, EditTask
    <3> QED BY <2>2, <3>1
  <2> QED BY <2>3, <2>4, <2>5
<1>4. GoneInv'
  <2>1. \A g \in Items : ItemGrows(g)
    BY <1>1 DEF ItemGrows
  <2>2. GoneInv
    BY DEF WaitInv
  <2> QED BY <1>1, <1>3, <2>1, <2>2, GoneKept DEF GoneInv
<1>5. conn'.lc = conn.lc /\ conn'.partial = conn.partial /\ conn'.enabled = conn.enabled
  BY <1>2, Changed DEF UndoExpires
<1>6. CursorInv'
  <2>1. Working' => cur' \in scan'.todo
    BY <1>1 DEF WaitInv, CursorInv, Working
  <2> QED BY <1>1, <1>5, <2>1, CursorKept
<1>7. CASE TaskChanged
  <2>1. jpc = "idle" => BatchInv' /\ FreshInv'
    BY <1>1 DEF BatchInv, FreshInv
  <2> QED BY <1>1, <1>4, <1>6, <1>7, <2>1, Noticed DEF WaitInv
<1>8. CASE UndoExpires(t)
  <2>1. conn' = conn /\ queued' = queued /\ ~task'[t].live /\ \A u \in Tasks : u # t => task'[u] = task[u]
    BY <1>8 DEF UndoExpires, Typed, NoTask
  <2>2. ASSUME NEW u \in Tasks, Waiting(u)' PROVE Waiting(u)
    <3>1. u # t /\ task'[u] = task[u]
      BY <2>1, <2>2 DEF Waiting
    <3>2. ~Handled(u)
      BY <1>1, <1>4, <2>2, <3>1, HandledStays DEF MergeInv
    <3> QED BY <2>2, <3>1, <3>2 DEF Waiting
  <2>3. IdleInv' /\ SavedInv' /\ BatchInv'
    BY <1>1, <2>1, <2>2, WaitingStays
  <2>4. FreshInv'
    <3>1. FreshInv /\ (jpc \in {"post", "patch", "record"} => cur \in Tasks)
      BY DEF WaitInv, CopyInv, JobInv
    <3> QED BY <1>1, <2>1, <3>1 DEF FreshInv
  <2> QED BY <1>4, <1>6, <2>3, <2>4 DEF WaitInv
<1> QED BY <1>2, <1>7, <1>8

\* Changes made in Google are found by the next job, and change nothing here.
LEMMA GoogleStepsWait ==
  ASSUME Typed, Typed', CopyInv, CopyInv', MergeInv, MergeInv', WaitInv, NEW g \in Items,
         \/ GoogleCreate(g) \/ \E x \in Fields : GoogleEdit(g, x)
         \/ \E st \in {"deleted", "purged"} : GoogleDelete(g, st)
  PROVE  WaitInv'
<1>1. UNCHANGED <<task, held, link, conn, queued, failed, jpc, snap, scan, cur, plan, interrupted, adopted>>
  BY DEF GoogleCreate, GoogleEdit, GoogleDelete, GoogleUnchangedElsewhere, tasks, jobVars
<1>2. GoneInv'
  <2>1. \A h \in Items : ItemAges(h)
    BY ItemsAge DEF MergeInv
  <2>2. \A h \in Items : ItemGrows(h)
    BY <2>1 DEF ItemAges, ItemGrows
  <2>3. GoneInv
    BY DEF WaitInv
  <2> QED BY <1>1, <2>2, <2>3, GoneKept DEF GoneInv
<1>3. CursorInv'
  <2>1. Working' => cur' \in scan'.todo
    BY <1>1 DEF WaitInv, CursorInv, Working
  <2> QED BY <1>1, <2>1, CursorKept
<1>4. \A u \in Tasks : Waiting(u)' => Waiting(u)
  BY <1>1, <1>2, HandledStays DEF MergeInv, Waiting
<1>5. IdleInv' /\ SavedInv' /\ BatchInv'
  BY <1>1, <1>4, WaitingStays
<1>6. FreshInv'
  BY <1>1 DEF WaitInv, FreshInv
<1> QED BY <1>2, <1>3, <1>5, <1>6 DEF WaitInv

\* Nothing that matters changes.
LEMMA StillWait ==
  ASSUME Typed, Typed', CopyInv, MergeInv', WaitInv,
         UNCHANGED <<task, google, link, conn, jpc, snap, scan, cur, plan, adopted>>,
         queued \/ failed \/ interrupted => queued' \/ failed' \/ interrupted'
  PROVE  WaitInv'
<1>1. GoneInv'
  <2>1. \A h \in Items : ItemGrows(h)
    BY DEF ItemGrows
  <2>2. GoneInv
    BY DEF WaitInv
  <2> QED BY <2>1, <2>2, GoneKept DEF GoneInv
<1>2. CursorInv'
  <2>1. Working' => cur' \in scan'.todo
    BY DEF WaitInv, CursorInv, Working
  <2> QED BY <2>1, CursorKept
<1>3. \A u \in Tasks : Waiting(u)' => Waiting(u)
  BY <1>1, HandledStays DEF MergeInv, Waiting
<1>4. IdleInv' /\ SavedInv' /\ BatchInv'
  BY <1>3, WaitingStays
<1>5. FreshInv'
  BY DEF WaitInv, FreshInv
<1> QED BY <1>1, <1>2, <1>4, <1>5 DEF WaitInv

\* A scan that is reset begins with the first link.
LEMMA ResetWait ==
  ASSUME Typed, Typed', CopyInv, CopyInv', WaitInv, NEW b \in BOOLEAN, conn' = ResetScan(b), jpc = "idle",
         UNCHANGED <<task, google, link, jpc, snap, scan, cur, plan>>, b => queued'
  PROVE  WaitInv'
<1>1. conn'.enabled = b /\ ~conn'.partial /\ conn'.lc = 0
  BY DEF ResetScan, Typed, Conns
<1>2. \A u \in Tasks : link'[u].id \in Nat /\ (link'[u] = NoLink \/ link'[u].id > 0)
  BY RowTypes DEF CopyInv, LinkInv
<1>3. IdleInv' /\ SavedInv' /\ BatchInv' /\ FreshInv'
  BY <1>1, <1>2 DEF IdleInv, SavedInv, BatchInv, FreshInv
<1>4. CursorInv'
  <2>1. 1 \in Tasks
    BY TasksAssumption DEF Tasks
  <2>2. \E u \in Tasks : conn'.lc <= link'[u].id
    BY <1>1, <1>2, <2>1
  <2>3. \A u \in scan'.todo : link'[u].id > 0
    <3>1. scan.todo \subseteq Tasks /\ \A u \in scan.todo : link[u].phase # "none"
      BY DEF Typed, Scans, CopyInv, TodoInv
    <3> QED BY <3>1 DEF CopyInv, LinkInv
  <2> QED BY <1>1, <2>2, <2>3 DEF CursorInv, Working
<1>5. GoneInv'
  <2>1. \A h \in Items : ItemGrows(h)
    BY DEF ItemGrows
  <2>2. GoneInv
    BY DEF WaitInv
  <2> QED BY <2>1, <2>2, GoneKept DEF GoneInv
<1> QED BY <1>3, <1>4, <1>5 DEF WaitInv

\* Requests, and jobs that do not begin.
LEMMA RequestsWait ==
  ASSUME Typed, Typed', CopyInv, CopyInv', MergeInv, MergeInv', WaitInv,
         \/ Enable \/ Disable \/ Periodic \/ SkipJob \/ ListingFails
         \/ \E t \in Tasks : LeaveUnlinked(t) \/ \E c \in {"google", "prosepect"} : ResolveConflict(t, c)
  PROVE  WaitInv'
<1>1. UNCHANGED <<task, held, google, snap, jpc, scan, cur, plan, adopted>>
  BY DEF Enable, Disable, Periodic, SkipJob, ListingFails, LeaveUnlinked, ResolveConflict, tasks, jobVars, World
<1>2. CASE Enable \/ Disable
  BY <1>1, <1>2, ResetWait DEF Enable, Disable
<1>3. CASE Periodic \/ ListingFails
  BY <1>1, <1>3, StillWait DEF Periodic, ListingFails, JobFails
<1>4. \A h \in Items : ItemGrows(h)
  BY <1>1 DEF ItemGrows
<1>5. GoneInv /\ CursorInv
  BY DEF WaitInv
<1>6. Working' => cur' \in scan'.todo
  BY <1>1, <1>5 DEF CursorInv, Working
<1>7. CASE SkipJob
  <2>1. link' = link /\ conn' = conn /\ ~conn.enabled /\ jpc = "idle"
    BY <1>7 DEF SkipJob
  <2>2. GoneInv'
    BY <1>1, <1>4, <1>5, <2>1, GoneKept DEF GoneInv
  <2>3. CursorInv'
    BY <1>1, <1>6, <2>1, CursorKept
  <2> QED BY <1>1, <2>1, <2>2, <2>3 DEF WaitInv, IdleInv, SavedInv, BatchInv, FreshInv
<1>8. ASSUME NEW t \in Tasks, NEW c \in {"google", "prosepect"}, ResolveConflict(t, c) PROVE WaitInv'
  <2>1. link' = [link EXCEPT ![t].choice = c] /\ link \in [Tasks -> LinkRows] /\ jpc = "idle" /\ TaskChanged
    BY <1>8 DEF ResolveConflict, Typed, TaskChanged
  <2>2. \A u \in Tasks : /\ link'[u].id = link[u].id /\ link'[u].ext = link[u].ext
                         /\ link'[u].phase = link[u].phase /\ link'[u].etag = link[u].etag
    BY <2>1 DEF LinkRows
  <2>3. GoneInv'
    BY <1>1, <1>4, <1>5, <2>2, GoneKept DEF GoneInv
  <2>4. conn'.lc = conn.lc /\ conn'.partial = conn.partial /\ conn'.enabled = conn.enabled
    BY <2>1, Changed
  <2>5. CursorInv'
    BY <1>1, <1>6, <2>2, <2>4, CursorKept
  <2>6. IdleInv' /\ SavedInv'
    BY <1>1, <2>1, Noticed
  <2> QED BY <1>1, <2>1, <2>3, <2>5, <2>6 DEF WaitInv, BatchInv, FreshInv
<1>9. ASSUME NEW t \in Tasks, LeaveUnlinked(t) PROVE WaitInv'
  <2>1. /\ link' = [link EXCEPT ![t].phase = "detached"] /\ link \in [Tasks -> LinkRows]
        /\ jpc = "idle" /\ link[t].phase = "creating" /\ UNCHANGED <<conn, queued, failed, interrupted>>
    BY <1>9 DEF LeaveUnlinked, Typed
  <2>2. /\ \A u \in Tasks : link'[u].id = link[u].id /\ (u # t => link'[u] = link[u])
        /\ link'[t].phase = "detached" /\ link'[t].ext = 0 /\ link[t] # NoLink
    BY <2>1 DEF LinkRows, CopyInv, LinkInv, NoLink
  <2>3. GoneInv'
    <3>1. SnapGone' /\ PlanGone' /\ \A u \in Tasks : u # t => LinkGone(u)'
      BY <1>1, <1>4, <1>5, <2>2, GoneKept
    <3>2. LinkGone(t)'
      BY <2>2 DEF LinkGone
    <3> QED BY <3>1, <3>2 DEF GoneInv
  <2>4. CursorInv'
    BY <1>1, <1>6, <2>1, <2>2, CursorKept
  <2>5. ASSUME NEW u \in Tasks, Waiting(u)' PROVE Waiting(u)
    <3>1. u # t
      BY <2>2, <2>5 DEF Waiting, Handled
    <3>2. ~Handled(u)
      BY <1>1, <2>2, <2>3, <2>5, <3>1, HandledStays DEF MergeInv
    <3> QED BY <1>1, <2>5, <3>2 DEF Waiting
  <2>6. \A u \in Tasks : link'[u].id = link[u].id /\ (link[u] = NoLink => link'[u] = NoLink)
    BY <2>2
  <2>7. IdleInv' /\ SavedInv' /\ BatchInv'
    BY <1>1, <2>1, <2>5, <2>6, WaitingStays
  <2> QED BY <1>1, <2>1, <2>3, <2>4, <2>7 DEF WaitInv, FreshInv
<1> QED BY <1>2, <1>3, <1>7, <1>8, <1>9

\* The job turns to the next link: the one it leaves is settled, or the scan will be repeated.
LEMMA EndWait ==
  ASSUME Typed, Typed', CopyInv, MergeInv', WaitInv, NEW t \in Tasks, NEW e \in BOOLEAN, NEW q \in BOOLEAN,
         LinkEnds(t, e, q), t \in scan.todo, jpc # "idle", UNCHANGED <<task, conn>>,
         \A u \in Tasks : u # t => link'[u] = link[u], link'[t].id = link[t].id,
         GoneInv', Waiting(t)' => conn.changed \/ e
  PROVE  WaitInv'
<1>1. /\ jpc' = "link" /\ scan'.todo = scan.todo \ {t} /\ scan'.lc = link[t].id
      /\ scan'.more = scan.more /\ scan'.errs = (scan.errs \/ e)
  BY EndedLink DEF Typed
<1>2. \A u \in Tasks : u # t /\ u \in adopted => u \in adopted'
  BY DEF LinkEnds
<1>3. ASSUME NEW u \in Tasks, u # t, Waiting(u)' PROVE Waiting(u)
  <2>1. ~Handled(u)
    <3>1. RowInv' /\ link'[u] = link[u] /\ task'[u] = task[u] /\ (u \in adopted => u \in adopted')
      BY <1>2, <1>3 DEF MergeInv
    <3> QED BY <1>3, <3>1, HandledStays
  <2> QED BY <1>3, <2>1 DEF Waiting
<1>4. /\ SavedInv /\ BatchInv /\ CursorInv /\ scan.todo \subseteq Tasks
      /\ \A u \in Tasks : link[u].id \in Nat /\ link'[u].id = link[u].id
  BY RowTypes DEF WaitInv, Typed, Scans
<1>5. SavedInv'
  <2>1. link'[t].id > conn.lc
    BY <1>4 DEF CursorInv
  <2> QED BY <1>3, <1>4, <2>1 DEF SavedInv
<1>6. BatchInv'
  <2> SUFFICES ASSUME NEW u \in Tasks, Waiting(u)', ~conn.changed, ~scan'.errs
               PROVE  \/ u \in scan'.todo
                      \/ scan'.more /\ link'[u] = NoLink
                      \/ scan'.more /\ link'[u].id > scan'.lc /\ \A v \in scan'.todo : link'[u].id > link'[v].id
    BY DEF BatchInv
  <2>1. u # t /\ Waiting(u) /\ ~scan.errs
    BY <1>1, <1>3
  <2>2. \/ u \in scan.todo
        \/ scan.more /\ link[u] = NoLink
        \/ scan.more /\ \A v \in scan.todo : link[u].id > link[v].id
    BY <1>4, <2>1 DEF BatchInv
  <2> QED BY <1>1, <1>4, <2>1, <2>2
<1>7. CursorInv'
  <2>1. ~Working' /\ scan'.todo \subseteq scan.todo
    BY <1>1 DEF Working
  <2> QED BY <1>1, <1>4, <2>1, CursorKept
<1> QED BY <1>1, <1>5, <1>6, <1>7 DEF WaitInv, IdleInv, FreshInv

\* Links passed over, detached, or shown as conflicts.
LEMMA PlainLinkWait ==
  ASSUME Typed, Typed', CopyInv, MergeInv, MergeInv', WaitInv, NEW t \in Tasks,
         PassHeld(t) \/ DetachDeleted(t) \/ DetachMissing(t) \/ RecordConflict(t)
  PROVE  WaitInv'
<1>1. NextLink(t) /\ LinkUnchanged
  BY DEF PassHeld, DetachDeleted, DetachMissing, RecordConflict, Linked
<1>2. UNCHANGED <<task, held, google, snap, conn>> /\ jpc = "link" /\ t \in scan.todo
  BY <1>1, OnLink DEF NextLink
<1>3. \A h \in Items : ItemGrows(h)
  BY <1>2 DEF ItemGrows
<1>4. GoneInv /\ RowInv
  BY DEF WaitInv, MergeInv
<1>5. CASE PassHeld(t)
  <2>1. link' = link /\ LinkEnds(t, FALSE, FALSE) /\ ~task[t].live
    BY <1>4, <1>5 DEF PassHeld, LinkDone, RowInv
  <2>2. jpc' = "link"
    BY <2>1 DEF LinkEnds
  <2>3. GoneInv'
    BY <1>2, <1>3, <1>4, <2>1, <2>2, GoneKept DEF GoneInv
  <2> QED BY <1>2, <2>1, <2>3, EndWait DEF Waiting
<1>6. CASE RecordConflict(t)
  <2>1. LinkEnds(t, TRUE, FALSE)
    BY <1>6 DEF RecordConflict, LinkDone
  <2>2. jpc' = "link"
    BY <2>1 DEF LinkEnds
  <2>3. \E c : link' = link \/ link' = [link EXCEPT ![t] = [link[t] EXCEPT !.choice = "none", !.conflict = c]]
    BY <1>6 DEF RecordConflict, SetLink
  <2>4. /\ \A u \in Tasks : u # t => link'[u] = link[u]
        /\ link'[t].id = link[t].id /\ link'[t].phase = link[t].phase
        /\ link'[t].ext = link[t].ext /\ link'[t].etag = link[t].etag
    <3>1. PICK c : link' = link \/ link' = [link EXCEPT ![t] = [link[t] EXCEPT !.choice = "none", !.conflict = c]]
      BY <2>3
    <3> DEFINE r == [link[t] EXCEPT !.choice = "none", !.conflict = c]
    <3>2. r.id = link[t].id /\ r.phase = link[t].phase /\ r.ext = link[t].ext /\ r.etag = link[t].etag
      BY RowTypes DEF LinkRows
    <3>3. link' = link \/ link' = [link EXCEPT ![t] = r]
      BY <3>1
    <3> HIDE DEF r
    <3> QED BY <3>2, <3>3 DEF Typed
  <2>5. GoneInv'
    BY <1>2, <1>3, <1>4, <2>2, <2>4, GoneKept DEF GoneInv
  <2> QED BY <1>2, <2>1, <2>4, <2>5, EndWait
<1>7. CASE DetachDeleted(t) \/ DetachMissing(t)
  <2>1. LinkEnds(t, FALSE, FALSE) /\ SetLink(t, Detached(t))
    BY <1>7 DEF DetachDeleted, DetachMissing, LinkDone
  <2>2. jpc' = "link"
    BY <2>1 DEF LinkEnds
  <2>3. /\ Detached(t) \in LinkRows /\ Detached(t).phase = "detached" /\ Detached(t).etag = link[t].etag
        /\ Detached(t).ext = link[t].ext /\ Detached(t).id = link[t].id
    BY DetachedRow
  <2>4. link'[t] = Detached(t) /\ \A u \in Tasks : u # t => link'[u] = link[u]
    BY <2>1, <2>3, WrittenLink
  <2>5. ASSUME task[t].version # 0 PROVE link[t].ext # 0 /\ link[t].etag < google[link[t].ext].etag
    <3>1. DetachMissing(t) /\ link[t].phase = "linked"
      BY <1>4, <1>7, <2>5 DEF DetachDeleted, DetachMissing, Linked, RowInv
    <3>2. link[t].ext # 0 /\ link[t].ext \in Items
      BY <3>1, RowTypes DEF CopyInv, LinkInv
    <3>3. google[link[t].ext].st # "live"
      BY <1>4, <3>1, <3>2 DEF DetachMissing, Remote, GoneInv, SnapGone
    <3>4. link[t].etag \in Nat /\ google[link[t].ext].etag \in Nat
      BY <3>2, RowTypes
    <3> QED BY <1>4, <3>1, <3>2, <3>3, <3>4 DEF GoneInv, LinkGone
  <2>6. GoneInv'
    <3>1. SnapGone' /\ PlanGone' /\ \A u \in Tasks : u # t => LinkGone(u)'
      BY <1>2, <1>3, <1>4, <2>2, <2>4, GoneKept
    <3>2. LinkGone(t)'
      BY <1>2, <2>3, <2>4, <2>5 DEF LinkGone
    <3> QED BY <3>1, <3>2 DEF GoneInv
  <2>7. ~Waiting(t)'
    <3>1. CASE task[t].version = 0
      BY <1>2, <1>4, <3>1 DEF Waiting, RowInv
    <3>2. CASE task[t].version # 0
      <4>1. google[link[t].ext].etag # link[t].etag
        <5>1. link[t].ext \in Items
          BY <2>5, <3>2, RowTypes
        <5> QED BY <2>5, <3>2, <5>1, RowTypes
      <4> QED BY <1>2, <2>3, <2>4, <4>1 DEF Waiting, Handled
    <3> QED BY <3>1, <3>2
  <2> QED BY <1>2, <2>1, <2>3, <2>4, <2>6, <2>7, EndWait
<1> QED BY <1>5, <1>6, <1>7

\* An etag that was listed is not later than the item's, and equal only for an item that is as it was.
LEMMA ListedEtag ==
  ASSUME Typed, MergeInv, NEW g \in Items, snap[g].st = "live"
  PROVE  snap[g].etag <= google[g].etag /\ (snap[g].etag = google[g].etag => google[g].st = "live")
BY DEF MergeInv, EtagInv

\* A recovered creation is compared in the next scan; one that is not found is an error.
LEMMA RecoverWait ==
  ASSUME Typed, Typed', CopyInv, MergeInv, MergeInv', WaitInv, NEW t \in Tasks, RecoverCreate(t)
  PROVE  WaitInv'
<1>1. /\ UNCHANGED <<task, held, google, snap, conn>> /\ jpc = "link" /\ t \in scan.todo
      /\ link[t].phase = "creating"
  BY OnLink DEF RecoverCreate, NextLink
<1>2. (\A h \in Items : ItemGrows(h)) /\ GoneInv
  BY <1>1 DEF ItemGrows, WaitInv
<1>3. CASE LinkEnds(t, TRUE, FALSE) /\ link' = link
  <2>1. jpc' = "link"
    BY <1>3 DEF LinkEnds
  <2>2. GoneInv'
    BY <1>1, <1>2, <1>3, <2>1, GoneKept DEF GoneInv
  <2> QED BY <1>1, <1>3, <2>2, EndWait
<1>4. ASSUME ~(LinkEnds(t, TRUE, FALSE) /\ link' = link) PROVE WaitInv'
  <2>1. PICK g \in Items : /\ snap[g].st = "live"
                           /\ SetLink(t, Recorded(t, g, snap[g].etag, link[t].base))
                           /\ LinkEnds(t, FALSE, TRUE)
    BY <1>4 DEF RecoverCreate, LinkDone
  <2> DEFINE r == Recorded(t, g, snap[g].etag, link[t].base)
  <2>2. r \in LinkRows /\ r.phase = "linked" /\ r.ext = g /\ r.id = link[t].id /\ r.etag = snap[g].etag
    BY RowTypes, RecordedRow
  <2>3. SetLink(t, r)
    BY <2>1
  <2> HIDE DEF r
  <2>4. link'[t] = r /\ \A u \in Tasks : u # t => link'[u] = link[u]
    BY <2>2, <2>3, WrittenLink
  <2>5. jpc' = "link" /\ t \in adopted'
    BY <2>1 DEF LinkEnds
  <2>6. GoneInv'
    <3>1. SnapGone' /\ PlanGone' /\ \A u \in Tasks : u # t => LinkGone(u)'
      BY <1>1, <1>2, <2>4, <2>5, GoneKept
    <3>2. LinkGone(t)'
      BY <1>1, <2>1, <2>2, <2>4, ListedEtag DEF LinkGone
    <3> QED BY <3>1, <3>2 DEF GoneInv
  <2>7. ~Waiting(t)'
    BY <2>5 DEF Waiting, Handled
  <2> QED BY <1>1, <2>1, <2>2, <2>4, <2>6, <2>7, EndWait
<1> QED BY <1>3, <1>4

\* What is recorded is what the task holds, or the change was noticed.
LEMMA RecordWait ==
  ASSUME Typed, Typed', CopyInv, MergeInv, MergeInv', WaitInv, RecordLink
  PROVE  WaitInv'
<1>1. /\ cur \in Tasks /\ cur \in scan.todo /\ plan.item \in Items /\ jpc = "record"
      /\ UNCHANGED <<task, google, snap, conn>>
  <2>1. jpc = "record" /\ UNCHANGED <<task, google, snap, conn>>
    BY DEF RecordLink, LinkUnchanged, World, tasks
  <2> QED BY <2>1 DEF WaitInv, CursorInv, Working, CopyInv, JobInv
<1>0. PICK t \in Tasks : t = cur
  BY <1>1
<1> DEFINE r == Recorded(t, plan.item, plan.etag, plan.merged)
<1>2. r \in LinkRows /\ r.phase = "linked" /\ r.ext = plan.item /\ r.id = link[t].id /\ r.base = plan.merged /\ r.etag = plan.etag
  BY <1>1, RowTypes, RecordedRow
<1>3. SetLink(t, r) /\ LinkEnds(t, FALSE, FALSE)
  BY <1>0 DEF RecordLink, LinkDone
<1> HIDE DEF r
<1>4. link'[t] = r /\ \A u \in Tasks : u # t => link'[u] = link[u]
  BY <1>1, <1>2, <1>3, WrittenLink
<1>5. jpc' = "link" /\ GoneInv /\ FreshInv /\ \A h \in Items : ItemGrows(h)
  BY <1>1, <1>3 DEF LinkEnds, WaitInv, ItemGrows
<1>6. GoneInv'
  <2>1. SnapGone' /\ PlanGone' /\ \A u \in Tasks : u # t => LinkGone(u)'
    BY <1>1, <1>4, <1>5, GoneKept
  <2>2. LinkGone(t)'
    BY <1>1, <1>2, <1>4, <1>5 DEF LinkGone, GoneInv, PlanGone
  <2> QED BY <2>1, <2>2 DEF GoneInv
<1>7. Waiting(t)' => conn.changed
  BY <1>0, <1>1, <1>2, <1>4, <1>5 DEF Waiting, Handled, FreshInv
<1> QED BY <1>0, <1>1, <1>2, <1>3, <1>4, <1>6, <1>7, EndWait

\* The job goes on with a link of its batch.
LEMMA WorkWait ==
  ASSUME Typed, Typed', CopyInv, MergeInv', WaitInv, NEW t \in Tasks, t \in scan.todo, jpc # "idle", jpc' # "idle",
         cur' = t, UNCHANGED <<task, conn, scan, adopted>>,
         \A u \in Tasks : u # t => link'[u] = link[u], link'[t].id = link[t].id, GoneInv', FreshInv'
  PROVE  WaitInv'
<1>1. ASSUME NEW u \in Tasks, u # t, Waiting(u)' PROVE Waiting(u)
  <2>1. RowInv' /\ link'[u] = link[u] /\ task'[u] = task[u] /\ (u \in adopted => u \in adopted')
    BY <1>1 DEF MergeInv
  <2>2. ~Handled(u)
    BY <1>1, <2>1, HandledStays
  <2> QED BY <1>1, <2>2 DEF Waiting
<1>2. /\ SavedInv /\ BatchInv /\ CursorInv /\ scan.todo \subseteq Tasks
      /\ \A u \in Tasks : link[u].id \in Nat /\ link'[u].id = link[u].id
  BY RowTypes DEF WaitInv, Typed, Scans
<1>3. SavedInv'
  <2>1. link'[t].id > conn.lc
    BY <1>2 DEF CursorInv
  <2> QED BY <1>1, <1>2, <2>1 DEF SavedInv
<1>4. BatchInv'
  BY <1>1, <1>2 DEF BatchInv
<1>5. CursorInv'
  BY <1>2, CursorKept
<1> QED BY <1>3, <1>4, <1>5 DEF WaitInv, IdleInv

\* A creation is claimed with the fields that the task holds.
LEMMA ClaimWait ==
  ASSUME Typed, Typed', CopyInv, MergeInv, MergeInv', WaitInv, NEW t \in Tasks, ClaimCreate(t)
  PROVE  WaitInv'
<1>1. /\ UNCHANGED <<task, google, snap, conn, scan, adopted>> /\ jpc = "link" /\ t \in scan.todo
      /\ SetLink(t, [link[t] EXCEPT !.phase = "creating", !.base = task[t].f])
      /\ cur' = t /\ jpc' = "post" /\ plan' = [NoPlan EXCEPT !.local = task[t], !.merged = task[t].f]
  BY OnLink DEF ClaimCreate, NextLink
<1> DEFINE r == [link[t] EXCEPT !.phase = "creating", !.base = task[t].f]
<1>2. r \in LinkRows /\ r.id = link[t].id /\ r.phase = "creating"
  BY RowTypes DEF LinkRows, Phases
<1> HIDE DEF r
<1>3. /\ link'[t] = r /\ \A u \in Tasks : u # t => link'[u] = link[u]
  BY <1>1, <1>2, WrittenLink DEF r
<1>4. plan'.merged = task[t].f
  BY <1>1 DEF NoPlan
<1>5. (\A h \in Items : ItemGrows(h)) /\ GoneInv
  BY <1>1 DEF ItemGrows, WaitInv
<1>6. GoneInv'
  <2>1. SnapGone' /\ PlanGone' /\ \A u \in Tasks : u # t => LinkGone(u)'
    BY <1>1, <1>3, <1>5, GoneKept
  <2>2. LinkGone(t)'
    BY <1>2, <1>3 DEF LinkGone
  <2> QED BY <2>1, <2>2 DEF GoneInv
<1>7. FreshInv'
  BY <1>1, <1>4 DEF FreshInv
<1> QED BY <1>1, <1>2, <1>3, <1>6, <1>7, WorkWait

\* A merge is planned from what the task holds.
LEMMA PlanWait ==
  ASSUME Typed, Typed', CopyInv, MergeInv, MergeInv', WaitInv, NEW t \in Tasks, PlanMerge(t)
  PROVE  WaitInv'
<1>1. /\ UNCHANGED <<task, google, snap, conn, scan, adopted, link>> /\ jpc = "link" /\ t \in scan.todo
      /\ link[t].phase = "linked" /\ Remote(t).st = "live" /\ cur' = t
  BY OnLink DEF PlanMerge, Linked, NextLink
<1>2. PICK m : /\ plan' = [local |-> task[t], etag |-> Remote(t).etag, merged |-> m, item |-> link[t].ext]
               /\ jpc' = IF m # Remote(t).f THEN "patch" ELSE IF m # task[t].f THEN "apply" ELSE "record"
  BY DEF PlanMerge, IfMatch
<1>3. plan'.local = task[t] /\ plan'.etag = Remote(t).etag /\ plan'.merged = m /\ plan'.item = link[t].ext
  BY <1>2
<1>4. jpc' \in {"patch", "apply", "record"} /\ (jpc' = "record" => m = task[t].f)
  BY <1>2
<1>5. (\A h \in Items : ItemGrows(h)) /\ GoneInv
  BY <1>1 DEF ItemGrows, WaitInv
<1>6. GoneInv'
  <2>1. SnapGone' /\ \A u \in Tasks : LinkGone(u)'
    BY <1>1, <1>5, GoneKept
  <2>2. link[t].ext \in Items
    BY <1>1, RowTypes DEF CopyInv, LinkInv
  <2>3. /\ Remote(t).etag <= google[link[t].ext].etag
        /\ Remote(t).etag = google[link[t].ext].etag => google[link[t].ext].st = "live"
    BY <1>1, <2>2, ListedEtag, RowTypes DEF Remote
  <2>4. PlanGone'
    BY <1>1, <1>3, <2>3 DEF PlanGone
  <2> QED BY <2>1, <2>4 DEF GoneInv
<1>7. FreshInv'
  BY <1>1, <1>3, <1>4 DEF FreshInv
<1> QED BY <1>1, <1>4, <1>6, <1>7, WorkWait

\* Answers of Google.
LEMMA AnswerWait ==
  ASSUME Typed, Typed', CopyInv, MergeInv, MergeInv', WaitInv, (\E g \in Items : PostAnswered(g)) \/ PatchAnswered
  PROVE  WaitInv'
<1>1. jpc \in {"post", "patch"} /\ cur \in Tasks /\ cur \in scan.todo
  <2>1. jpc \in {"post", "patch"}
    BY DEF PostAnswered, PatchAnswered
  <2> QED BY <2>1 DEF WaitInv, CursorInv, Working, CopyInv, JobInv
<1>2. UNCHANGED <<task, snap, conn, scan, adopted, link, cur>>
  BY DEF PostAnswered, PatchAnswered, World, tasks
<1>3. GoneInv /\ FreshInv
  BY DEF WaitInv
<1>4. PICK t \in Tasks : t = cur
  BY <1>1
<1>5. ASSUME NEW g \in Items, PostAnswered(g) PROVE WaitInv'
  <2>1. /\ jpc = "post" /\ jpc' = "record" /\ PostCreates(g) /\ google[g].st = "unused"
        /\ plan' = [plan EXCEPT !.item = g, !.etag = 1]
    BY <1>5 DEF PostAnswered, PostCreates
  <2>2. google'[g].st = "live" /\ google'[g].etag = 1 /\ \A h \in Items : h # g => google'[h] = google[h]
    BY <1>2, <2>1, PostedItem
  <2>3. plan'.item = g /\ plan'.etag = 1 /\ plan'.merged = plan.merged
    BY <2>1 DEF Typed, Plans
  <2>4. \A h \in Items : ItemGrows(h)
    BY <2>1, <2>2 DEF ItemGrows
  <2>5. SnapGone' /\ \A u \in Tasks : LinkGone(u)'
    BY <1>2, <1>3, <2>4, GoneKept
  <2>6. PlanGone' /\ FreshInv'
    BY <1>2, <1>3, <2>1, <2>2, <2>3 DEF PlanGone, FreshInv
  <2> QED BY <1>1, <1>2, <1>4, <2>1, <2>5, <2>6, WorkWait DEF GoneInv
<1>6. CASE PatchAnswered
  <2>1. /\ jpc = "patch" /\ Patched(plan.item) /\ google[plan.item].st = "live"
        /\ plan' = [plan EXCEPT !.etag = google'[plan.item].etag] /\ jpc' \in {"apply", "record"}
        /\ jpc' = "record" => plan.merged = plan.local.f
    BY <1>6 DEF PatchAnswered, AfterPatch, Matches
  <2>2. /\ plan.item \in Items /\ google'[plan.item].etag = google[plan.item].etag + 1
        /\ google'[plan.item].st = google[plan.item].st
        /\ \A g \in Items : g # plan.item => google'[g] = google[g]
    BY <2>1, PatchedItem
  <2>3. plan'.item = plan.item /\ plan'.etag = google'[plan.item].etag /\ plan'.merged = plan.merged
    BY <2>1 DEF Typed, Plans
  <2>4. \A h \in Items : ItemGrows(h)
    BY <2>1, <2>2 DEF ItemGrows
  <2>5. SnapGone' /\ \A u \in Tasks : LinkGone(u)'
    BY <1>2, <1>3, <2>4, GoneKept
  <2>6. PlanGone'
    <3>1. google'[plan.item].etag \in Nat
      BY <2>2, RowTypes
    <3> QED BY <2>1, <2>2, <2>3, <3>1 DEF PlanGone
  <2>7. FreshInv'
    BY <1>2, <1>3, <2>1, <2>3 DEF FreshInv
  <2> QED BY <1>1, <1>2, <1>4, <2>1, <2>5, <2>6, <2>7, WorkWait DEF GoneInv
<1> QED BY <1>5, <1>6

\* Requests that fail, and writes that are refused, are errors of the scan.
LEMMA ErrorWait ==
  ASSUME Typed, Typed', CopyInv, MergeInv, MergeInv', WaitInv,
         PostUncertain \/ PostRejected \/ PatchUncertain \/ PatchRefused \/ ApplyRefused
  PROVE  WaitInv'
<1>1. jpc \in {"post", "patch", "apply"} /\ cur \in Tasks /\ cur \in scan.todo
  <2>1. jpc \in {"post", "patch", "apply"}
    BY DEF PostUncertain, PostRejected, PatchUncertain, PatchRefused, ApplyRefused
  <2> QED BY <2>1 DEF WaitInv, CursorInv, Working, CopyInv, JobInv
<1>2. UNCHANGED <<task, snap, conn>> /\ LinkEnds(cur, TRUE, FALSE)
  <2>1. CASE PostUncertain \/ PostRejected \/ PatchUncertain
    BY <2>1 DEF PostUncertain, PostRejected, PatchUncertain, World, tasks, LinkDone
  <2>2. CASE PatchRefused \/ ApplyRefused
    BY <2>2 DEF PatchRefused, ApplyRefused, LinkUnchanged, World, tasks, LinkDone
  <2> QED BY <2>1, <2>2
<1>3. PICK t \in Tasks : t = cur
  BY <1>1
<1>4. jpc' = "link" /\ GoneInv
  BY <1>2 DEF LinkEnds, WaitInv
<1>5. \A h \in Items : ItemGrows(h)
  <2>1. CASE google' = google
    BY <2>1 DEF ItemGrows
  <2>2. ASSUME NEW g \in Items, PostUncertain, PostCreates(g) PROVE \A h \in Items : ItemGrows(h)
    BY <2>2 DEF PostCreates, ItemGrows, Typed
  <2>3. ASSUME jpc = "patch", Matches(plan.item, plan.etag), Patched(plan.item) PROVE \A h \in Items : ItemGrows(h)
    <3>1. /\ google'[plan.item].etag = google[plan.item].etag + 1
          /\ google'[plan.item].st = google[plan.item].st
          /\ \A g \in Items : g # plan.item => google'[g] = google[g]
      BY <2>3, PatchedItem
    <3> QED BY <2>3, <3>1 DEF ItemGrows, Matches
  <2> QED BY <2>1, <2>2, <2>3 DEF PostUncertain, PostRejected, PatchUncertain, PatchRefused, ApplyRefused, LinkUnchanged
<1>6. /\ \A u \in Tasks : u # t => link'[u] = link[u]
      /\ link'[t].id = link[t].id /\ link'[t].ext = link[t].ext /\ link'[t].etag = link[t].etag
      /\ link'[t].phase = link[t].phase \/ link'[t].phase = "prepared"
  <2>1. link' = link \/ SetLink(t, [link[t] EXCEPT !.phase = "prepared"])
    BY <1>3 DEF PostUncertain, PostRejected, PatchUncertain, PatchRefused, ApplyRefused
  <2> DEFINE r == [link[t] EXCEPT !.phase = "prepared"]
  <2>2. r \in LinkRows /\ r.id = link[t].id /\ r.ext = link[t].ext /\ r.etag = link[t].etag /\ r.phase = "prepared"
    BY RowTypes DEF LinkRows, Phases
  <2>3. link' = link \/ SetLink(t, r)
    BY <2>1
  <2> HIDE DEF r
  <2> QED BY <2>2, <2>3, WrittenLink
<1>7. GoneInv'
  <2>1. SnapGone' /\ PlanGone' /\ \A u \in Tasks : u # t => LinkGone(u)'
    BY <1>2, <1>4, <1>5, <1>6, GoneKept
  <2>2. LinkGone(t)'
    <3>1. CASE link'[t].phase = link[t].phase
      BY <1>2, <1>4, <1>5, <1>6, <3>1, GoneKept
    <3>2. CASE link'[t].phase = "prepared"
      BY <3>2 DEF LinkGone
    <3> QED BY <1>6, <3>1, <3>2
  <2> QED BY <2>1, <2>2 DEF GoneInv
<1> QED BY <1>1, <1>2, <1>3, <1>6, <1>7, EndWait

\* What the job writes here is noticed like any other change.
LEMMA ApplyWait ==
  ASSUME Typed, Typed', CopyInv, CopyInv', MergeInv, MergeInv', WaitInv, ApplyLocally
  PROVE  WaitInv'
<1>1. /\ jpc = "apply" /\ jpc' = "record" /\ TaskChanged /\ task[cur].live
      /\ UNCHANGED <<link, google, snap, scan, cur, plan>>
  BY DEF ApplyLocally
<1>2. cur \in Tasks /\ cur \in scan.todo /\ GoneInv /\ RowInv
  BY <1>1 DEF WaitInv, CursorInv, Working, CopyInv, JobInv, MergeInv
<1>3. \A u \in Tasks : task'[u].version # 0 => task[u].version # 0
  <2>1. \A u \in Tasks : u # cur => task'[u] = task[u]
    BY <1>2 DEF ApplyLocally, Typed
  <2>2. task[cur].version # 0
    BY <1>1, <1>2 DEF RowInv
  <2> QED BY <2>1, <2>2
<1>4. GoneInv'
  <2>1. \A h \in Items : ItemGrows(h)
    BY <1>1 DEF ItemGrows
  <2>2. SnapGone' /\ \A u \in Tasks : LinkGone(u)'
    BY <1>1, <1>2, <1>3, <2>1, GoneKept
  <2>3. PlanGone'
    BY <1>1, <1>2 DEF GoneInv, PlanGone
  <2> QED BY <2>2, <2>3 DEF GoneInv
<1>5. conn'.lc = conn.lc /\ conn'.partial = conn.partial /\ conn'.enabled = conn.enabled
  BY <1>1, Changed
<1>6. CursorInv'
  <2>1. Working' => cur' \in scan'.todo
    BY <1>1, <1>2
  <2> QED BY <1>1, <1>5, <2>1, CursorKept
<1>7. IdleInv' /\ SavedInv' /\ BatchInv' /\ FreshInv'
  BY <1>1, Noticed
<1> QED BY <1>4, <1>6, <1>7 DEF WaitInv

\* So is an import.
LEMMA ImportWait ==
  ASSUME Typed, Typed', CopyInv, CopyInv', MergeInv, MergeInv', WaitInv, NEW g \in Items, NEW t \in Tasks, Import(g, t)
  PROVE  WaitInv'
<1>1. /\ link[t] = NoLink /\ task[t] = NoTask /\ snap[g].st = "live" /\ jpc = "link" /\ jpc' = "link"
      /\ \A u \in Tasks : ~Paired(link[u], g, snap[g])
      /\ UNCHANGED <<edits, held, google, snap, cur, plan, decided>>
      /\ task' \in [Tasks -> TaskRows] /\ link' \in [Tasks -> LinkRows]
      /\ task'[t].live = TRUE /\ task'[t].f = snap[g].f /\ task'[t].version = 1
      /\ link'[t].phase = "linked" /\ link'[t].ext = g /\ link'[t].base = snap[g].f
      /\ link'[t].choice = "none" /\ link'[t].etag = snap[g].etag
      /\ \A u \in Tasks : u # t => link'[u] = link[u] /\ task'[u] = task[u]
      /\ \A u \in Tasks : link[u].id < link'[t].id
      /\ conn' \in Conns /\ scan' \in Scans /\ scan'.todo = scan.todo
  BY ImportedRows
<1>2. TaskChanged /\ scan.todo = {} /\ scan'.lc = scan.lc
  BY DEF Import, Typed, Scans
<1>3. IdleInv' /\ SavedInv' /\ BatchInv' /\ FreshInv'
  BY <1>1, <1>2, Noticed
<1>4. conn'.lc = conn.lc /\ conn'.partial = conn.partial /\ conn'.enabled = conn.enabled
  BY <1>2, Changed
<1>5. \A u \in Tasks : link[u].id \in Nat /\ link'[u].id \in Nat /\ link[u].id <= link'[u].id
  BY <1>1, RowTypes DEF Typed, LinkRows
<1>6. CursorInv'
  <2>1. CursorInv /\ conn.lc \in Nat /\ scan.lc \in Nat
    BY DEF WaitInv, Typed, Conns, Scans
  <2>2. PICK u \in Tasks : conn.lc <= link[u].id
    BY <2>1 DEF CursorInv
  <2>3. PICK v \in Tasks : scan.lc <= link[v].id
    BY <1>1, <2>1 DEF CursorInv
  <2>4. conn'.lc <= link'[u].id /\ scan'.lc <= link'[v].id
    BY <1>2, <1>4, <1>5, <2>1, <2>2, <2>3
  <2>5. ~Working'
    BY <1>1 DEF Working
  <2> QED BY <1>1, <1>2, <1>4, <2>1, <2>4, <2>5 DEF CursorInv
<1>7. GoneInv'
  <2>1. (\A h \in Items : ItemGrows(h)) /\ GoneInv
    BY <1>1 DEF ItemGrows, WaitInv
  <2>2. SnapGone' /\ PlanGone' /\ \A u \in Tasks : u # t => LinkGone(u)'
    BY <1>1, <2>1, GoneKept
  <2>3. LinkGone(t)'
    BY <1>1, ListedEtag DEF LinkGone
  <2> QED BY <2>2, <2>3 DEF GoneInv
<1> QED BY <1>3, <1>6, <1>7 DEF WaitInv

\* The end of a job: what waits is announced, and what the saved scan has not reached is ahead.
LEMMA QuietWait ==
  ASSUME Typed, Typed', CopyInv, CopyInv', MergeInv, MergeInv', WaitInv, FinishBatch \/ Crash \/ ImportFails
  PROVE  WaitInv'
<1>1. Quiet /\ UNCHANGED <<task, link, google, adopted>> /\ jpc # "idle"
  BY DEF FinishBatch, Crash, ImportFails, World, tasks
<1>2. jpc' = "idle" /\ scan'.todo = {} /\ SnapGone' /\ PlanGone' /\ ~Working'
  BY <1>1 DEF Quiet, NoScan, SnapGone, PlanGone, NoSnapshot, NoItem, Working
<1>3. GoneInv'
  <2>1. (\A h \in Items : ItemGrows(h)) /\ GoneInv
    BY <1>1 DEF ItemGrows, WaitInv
  <2> QED BY <1>1, <1>2, <2>1, GoneKept DEF GoneInv
<1>4. \A u \in Tasks : Waiting(u)' => Waiting(u)
  BY <1>1, <1>3, HandledStays DEF MergeInv, Waiting
<1>5. /\ SavedInv /\ BatchInv /\ CursorInv /\ conn \in Conns /\ scan \in Scans
      /\ \A u \in Tasks : link'[u] = link[u] /\ link[u].id \in Nat /\ (link[u] = NoLink \/ link[u].id > 0)
  BY <1>1, RowTypes DEF WaitInv, Typed, CopyInv, LinkInv
<1>6. 1 \in Tasks
  BY TasksAssumption DEF Tasks
<1>7. CASE Crash \/ ImportFails
  <2>1. (interrupted' \/ failed') /\ conn' = [conn EXCEPT !.changed = @ /\ conn.partial]
    BY <1>7 DEF Crash, ImportFails
  <2>2. /\ conn'.lc = conn.lc /\ conn'.partial = conn.partial /\ conn'.enabled = conn.enabled /\ conn'.errs = conn.errs
        /\ conn'.changed = (conn.changed /\ conn.partial)
    BY <1>5, <2>1 DEF Conns
  <2>3. SavedInv'
    <3>1. CASE conn.partial
      BY <1>4, <1>5, <2>2, <3>1 DEF SavedInv, Conns
    <3>2. CASE ~conn.partial
      BY <1>5, <2>2, <3>2 DEF SavedInv, CursorInv
    <3> QED BY <3>1, <3>2
  <2>4. CursorInv'
    BY <1>1, <1>2, <1>5, <2>2 DEF CursorInv
  <2> QED BY <1>2, <1>3, <2>1, <2>3, <2>4 DEF WaitInv, IdleInv, BatchInv, FreshInv
<1>8. CASE FinishBatch
  <2>1. scan.todo = {} /\ conn' = Progress
    BY <1>8 DEF FinishBatch
  <2>2. /\ conn'.partial = More /\ conn'.changed = (conn.changed /\ More) /\ conn'.errs = (More /\ scan.errs)
        /\ conn'.lc = (IF More THEN scan.lc ELSE 0) /\ conn'.enabled = conn.enabled
    BY <1>5, <2>1 DEF Progress, Conns
  <2>3. /\ More \/ conn.changed => queued'
        /\ scan.errs => queued' \/ failed'
    BY <1>8 DEF FinishBatch, FollowUp
  <2>4. scan.more => More
    BY DEF More
  <2>5. \A u \in Tasks : Waiting(u)' =>
          conn.changed \/ scan.errs \/ (scan.more /\ (link[u] = NoLink \/ link[u].id > scan.lc))
    BY <1>1, <1>4, <1>5, <2>1 DEF BatchInv
  <2>6. IdleInv'
    BY <2>3, <2>4, <2>5 DEF IdleInv
  <2>7. SavedInv'
    <3>1. CASE More
      BY <1>5, <2>2, <2>5, <3>1 DEF SavedInv
    <3>2. CASE ~More
      BY <1>5, <2>2, <3>2 DEF SavedInv
    <3> QED BY <3>1, <3>2
  <2>8. CursorInv'
    <3>1. \E u \in Tasks : conn'.lc <= link'[u].id
      <4>1. CASE More
        BY <1>1, <1>5, <2>2, <4>1 DEF CursorInv
      <4>2. CASE ~More
        BY <1>5, <1>6, <2>2, <4>2
      <4> QED BY <4>1, <4>2
    <3> QED BY <1>2, <2>2, <3>1 DEF CursorInv
  <2> QED BY <1>2, <1>3, <2>6, <2>7, <2>8 DEF WaitInv, BatchInv, FreshInv
<1> QED BY <1>7, <1>8

\* What First leaves out comes after what it takes.
LEMMA BatchOrder ==
  ASSUME NEW S \in SUBSET Tasks, NEW K \in [Tasks -> Nat], NEW n \in Nat,
         NEW s \in S, NEW v \in S, ~(Cardinality({r \in S : K[r] < K[s]}) < n), Cardinality({r \in S : K[r] < K[v]}) < n
  PROVE  K[s] > K[v]
<1> DEFINE Before(u) == {r \in S : K[r] < K[u]}
<1>1. IsFiniteSet(S) /\ \A u \in S : K[u] \in Nat
  <2>1. IsFiniteSet(Tasks)
    BY FS_Interval, TasksAssumption DEF Tasks
  <2> QED BY <2>1, FS_Subset
<1>2. IsFiniteSet(Before(s)) /\ IsFiniteSet(Before(v))
  BY <1>1, FS_Subset
<1>3. Cardinality(Before(s)) \in Nat /\ Cardinality(Before(v)) \in Nat
  BY <1>2, FS_CardinalityType
<1>4. ASSUME K[s] <= K[v] PROVE FALSE
  <2>1. Before(s) \in SUBSET Before(v)
    BY <1>1, <1>4
  <2>2. ~(Cardinality(Before(s)) < n) /\ Cardinality(Before(v)) < n
    OBVIOUS
  <2> HIDE DEF Before
  <2>3. Cardinality(Before(s)) <= Cardinality(Before(v))
    BY <1>2, <2>1, FS_Subset
  <2> QED BY <1>3, <2>2, <2>3
<1> QED BY <1>1, <1>4

\* The batch of a new job: the first links after the cursor, and nothing before them is left out.
LEMMA StartedBatch ==
  ASSUME Typed, Typed', StartJob
  PROVE  /\ scan'.lc = conn.lc /\ scan'.errs = conn.errs /\ scan'.todo \subseteq Tasks
         /\ \A u \in scan'.todo : link'[u].id > conn.lc
         /\ \A u \in Tasks : link'[u].phase \notin {"none", "detached"} /\ link'[u].id > conn.lc =>
               u \in scan'.todo \/ (scan'.more /\ \A v \in scan'.todo : link'[u].id > link'[v].id)
         /\ \A u \in Tasks : task[u].live /\ link[u] = NoLink /\ link'[u] = NoLink => scan'.more
<1> DEFINE unlinked == {t \in Tasks : task[t].live /\ link[t] = NoLink}
           new == First(unlinked, LAMBDA t : t)
           used == Max({link[t].id : t \in Tasks})
           prepared == [t \in Tasks |->
               IF t \in new THEN [NoLink EXCEPT !.phase = "prepared",
                                     !.id = used + Cardinality({u \in new : u <= t})]
               ELSE link[t]]
           ahead == {t \in Tasks : /\ prepared[t].phase \notin {"none", "detached"}
                                   /\ prepared[t].id > conn.lc}
           todo == First(ahead, LAMBDA t : prepared[t].id)
<1>1. /\ scan' = [todo |-> todo, imported |-> 0, errs |-> conn.errs,
                  more |-> new # unlinked \/ todo # ahead, lc |-> conn.lc, ic |-> conn.ic]
      /\ link' = prepared
  BY DEF StartJob
<1>2. todo = {s \in ahead : Cardinality({r \in ahead : prepared[r].id < prepared[s].id}) < BatchSize}
  BY DEF First
<1>3. \A u \in new : prepared[u].phase = "prepared" /\ u \in Tasks
  <2>1. new \subseteq unlinked
    BY DEF First
  <2>2. \A n : [NoLink EXCEPT !.phase = "prepared", !.id = n].phase = "prepared"
    BY DEF NoLink
  <2> HIDE DEF new
  <2> QED BY <2>1, <2>2
<1> HIDE DEF new, used, prepared, todo
<1> DEFINE K == [t \in Tasks |-> prepared[t].id]
<1>4. K \in [Tasks -> Nat] /\ ahead \in SUBSET Tasks /\ BatchSize \in Nat /\ \A t \in Tasks : K[t] = link'[t].id
  BY <1>1, TasksAssumption DEF Typed, LinkRows
<1>5. todo = {s \in ahead : Cardinality({r \in ahead : K[r] < K[s]}) < BatchSize}
  <2>1. \A s \in ahead : {r \in ahead : prepared[r].id < prepared[s].id} = {r \in ahead : K[r] < K[s]}
    OBVIOUS
  <2> HIDE DEF K, ahead
  <2> QED BY <1>2, <2>1
<1>6. \A u \in Tasks : u \in ahead <=> link'[u].phase \notin {"none", "detached"} /\ link'[u].id > conn.lc
  BY <1>1
<1> HIDE DEF K, ahead
<1>7. ASSUME NEW u \in ahead, u \notin todo, NEW v \in todo PROVE link'[u].id > link'[v].id
  <2>1. u \in ahead /\ v \in ahead /\ u \in Tasks /\ v \in Tasks
    BY <1>4, <1>5
  <2>2. ~(Cardinality({r \in ahead : K[r] < K[u]}) < BatchSize) /\ Cardinality({r \in ahead : K[r] < K[v]}) < BatchSize
    BY <1>5, <1>7
  <2>3. K[u] > K[v]
    BY <1>4, <2>1, <2>2, BatchOrder
  <2> QED BY <1>4, <2>1, <2>3
<1>8. /\ scan'.lc = conn.lc /\ scan'.errs = conn.errs /\ scan'.todo = todo
      /\ scan'.more = (new # unlinked \/ todo # ahead)
  BY <1>1
<1>9. todo \subseteq ahead
  BY <1>5
<1>10. ASSUME NEW u \in Tasks, task[u].live, link[u] = NoLink, link'[u] = NoLink PROVE u \in unlinked /\ u \notin new
  <2>1. NoLink.phase # "prepared"
    BY DEF NoLink
  <2> QED BY <1>1, <1>3, <1>10, <2>1
<1> HIDE DEF unlinked
<1>11. \A u \in Tasks : link'[u].phase \notin {"none", "detached"} /\ link'[u].id > conn.lc =>
               u \in scan'.todo \/ (scan'.more /\ \A v \in scan'.todo : link'[u].id > link'[v].id)
  BY <1>6, <1>7, <1>8
<1> QED BY <1>4, <1>6, <1>8, <1>9, <1>10, <1>11

\* The beginning of a job.
LEMMA StartWait ==
  ASSUME Typed, Typed', CopyInv, CopyInv', MergeInv, MergeInv', WaitInv, StartJob
  PROVE  WaitInv'
<1>1. /\ jpc' = "link" /\ snap' = google /\ conn.enabled /\ UNCHANGED <<task, conn, google, adopted>>
  BY DEF StartJob, World, tasks
<1>2. PICK N \in SUBSET Tasks :
        /\ \A t \in Tasks : t \notin N => link'[t] = link[t]
        /\ \A t \in N : /\ link[t] = NoLink /\ link'[t].phase = "prepared"
                        /\ \A u \in Tasks : link[u].id < link'[t].id
  BY StartedJob
<1>3. /\ scan'.lc = conn.lc /\ scan'.errs = conn.errs /\ scan'.todo \subseteq Tasks
      /\ \A u \in scan'.todo : link'[u].id > conn.lc
      /\ \A u \in Tasks : link'[u].phase \notin {"none", "detached"} /\ link'[u].id > conn.lc =>
            u \in scan'.todo \/ (scan'.more /\ \A v \in scan'.todo : link'[u].id > link'[v].id)
      /\ \A u \in Tasks : task[u].live /\ link[u] = NoLink /\ link'[u] = NoLink => scan'.more
  BY StartedBatch
<1>4. /\ SavedInv /\ CursorInv /\ GoneInv /\ conn.lc \in Nat
      /\ \A u \in Tasks : link[u].id \in Nat /\ link'[u].id \in Nat
  BY RowTypes DEF WaitInv, Typed, Conns, LinkRows
<1>5. \A u \in Tasks : link[u].id <= link'[u].id
  BY <1>2, <1>4
<1>6. PICK c \in Tasks : conn.lc <= link[c].id
  BY <1>4 DEF CursorInv
<1>7. \A u \in N : link'[u].id > conn.lc
  BY <1>2, <1>4, <1>6
<1>8. GoneInv'
  <2>1. \A h \in Items : ItemGrows(h)
    BY <1>1 DEF ItemGrows
  <2>2. PlanGone' /\ \A u \in Tasks : u \notin N => LinkGone(u)'
    BY <1>1, <1>2, <1>4, <2>1, GoneKept
  <2>3. \A u \in N : LinkGone(u)'
    BY <1>2 DEF LinkGone
  <2>4. SnapGone'
    BY <1>1 DEF SnapGone
  <2> QED BY <2>2, <2>3, <2>4 DEF GoneInv
<1>9. CursorInv'
  <2>1. conn'.lc <= link'[c].id /\ scan'.lc <= link'[c].id
    BY <1>1, <1>3, <1>4, <1>5, <1>6
  <2>2. ~Working'
    BY <1>1 DEF Working
  <2> QED BY <1>1, <1>3, <1>4, <2>1, <2>2 DEF CursorInv
<1>10. ASSUME NEW u \in Tasks, Waiting(u)', ~conn.changed, ~conn.errs
       PROVE  \/ link'[u] = NoLink /\ link[u] = NoLink /\ task[u].live
              \/ link'[u].id > conn.lc /\ link'[u].phase \notin {"none", "detached"}
  <2>1. CASE u \in N
    BY <1>2, <1>7, <2>1
  <2>2. CASE u \notin N
    <3>1. link'[u] = link[u] /\ task'[u] = task[u] /\ (u \in adopted => u \in adopted') /\ RowInv'
      BY <1>1, <1>2, <2>2 DEF MergeInv
    <3>2. ~Handled(u) /\ task[u].live
      <4>1. ~Handled(u)
        BY <1>8, <1>10, <3>1, HandledStays
      <4> QED BY <1>10, <3>1, <4>1 DEF Waiting
    <3>3. link[u] = NoLink \/ link[u].id > conn.lc
      BY <1>1, <1>4, <1>10, <3>2 DEF SavedInv, Waiting
    <3>4. link[u].phase # "detached"
      <4>1. task[u].version # 0
        BY <3>2 DEF MergeInv, RowInv
      <4>2. ASSUME link[u].phase = "detached", link[u].ext # 0 PROVE link[u].etag < google[link[u].ext].etag
        BY <1>4, <4>1, <4>2 DEF GoneInv, LinkGone
      <4>3. link[u].etag \in Nat /\ (link[u].ext # 0 => google[link[u].ext].etag \in Nat)
        BY RowTypes
      <4> QED BY <3>2, <4>2, <4>3 DEF Handled
    <3>5. link[u].phase = "none" => link[u] = NoLink
      BY DEF CopyInv, LinkInv
    <3> QED BY <3>1, <3>2, <3>3, <3>4, <3>5
  <2> QED BY <2>1, <2>2
<1>11. SavedInv'
  BY <1>1, <1>10 DEF SavedInv
<1>12. BatchInv'
  <2> SUFFICES ASSUME NEW u \in Tasks, Waiting(u)', ~conn'.changed, ~scan'.errs
               PROVE  \/ u \in scan'.todo
                      \/ scan'.more /\ link'[u] = NoLink
                      \/ scan'.more /\ link'[u].id > scan'.lc /\ \A v \in scan'.todo : link'[u].id > link'[v].id
    BY DEF BatchInv
  <2> QED BY <1>1, <1>3, <1>10
<1> QED BY <1>1, <1>8, <1>9, <1>11, <1>12 DEF WaitInv, IdleInv, FreshInv

\* Nothing waits at first: Tasks is not configured.
LEMMA InitWait == Init => WaitInv
<1> SUFFICES ASSUME Init PROVE WaitInv
  OBVIOUS
<1>1. /\ jpc = "idle" /\ ~conn.enabled /\ conn.lc = 0 /\ scan.todo = {} /\ snap = NoSnapshot
      /\ \A t \in Tasks : link[t] = NoLink
  BY DEF Init, NoScan
<1>2. NoLink.id = 0 /\ NoLink.phase = "none" /\ \A g \in Items : snap[g].st = "unused"
  BY <1>1 DEF NoLink, NoSnapshot, NoItem
<1>3. 1 \in Tasks
  BY TasksAssumption DEF Tasks
<1> QED BY <1>1, <1>2, <1>3 DEF WaitInv, IdleInv, SavedInv, BatchInv, CursorInv, FreshInv, GoneInv, LinkGone, SnapGone,
     PlanGone, Working

\* Every step announces what it leaves waiting.
LEMMA WaitStep ==
  /\ TypeInv /\ CopyInv /\ MergeInv /\ WaitInv
  /\ TypeInv' /\ CopyInv' /\ MergeInv' /\ [Next]_vars
  => WaitInv'
<1> SUFFICES ASSUME TypeInv, CopyInv, MergeInv, WaitInv, TypeInv', CopyInv', MergeInv', [Next]_vars PROVE WaitInv'
  OBVIOUS
<1>1. Typed /\ Typed'
  BY DEF TypeInv
<1>2. CASE UNCHANGED vars
  <2>1. UNCHANGED <<task, google, link, conn, queued, failed, interrupted, jpc, snap, scan, cur, plan, adopted>>
    BY <1>2 DEF vars, tasks, jobVars
  <2> QED BY <1>1, <2>1, StillWait
<1>3. CASE UserStep \/ Periodic
  BY <1>1, <1>3, TaskStepsWait, GoogleStepsWait, RequestsWait DEF UserStep
<1>4. CASE JobStep
  <2>1. ASSUME NEW t \in Tasks, NEW g \in Items, Import(g, t) PROVE WaitInv'
    BY <1>1, <2>1, ImportWait
  <2>2. ASSUME NEW t \in Tasks,
               \/ PassHeld(t) \/ DetachDeleted(t) \/ RecoverCreate(t) \/ ClaimCreate(t)
               \/ DetachMissing(t) \/ RecordConflict(t) \/ PlanMerge(t)
        PROVE  WaitInv'
    BY <1>1, <2>2, PlainLinkWait, RecoverWait, ClaimWait, PlanWait
  <2>3. CASE StartJob \/ SkipJob \/ FinishBatch
    BY <1>1, <2>3, StartWait, RequestsWait, QuietWait
  <2>4. CASE (\E g \in Items : PostAnswered(g)) \/ PatchAnswered \/ PatchRefused \/ ApplyLocally \/ ApplyRefused \/ RecordLink
    BY <1>1, <2>4, AnswerWait, ErrorWait, ApplyWait, RecordWait
  <2> QED BY <1>4, <2>1, <2>2, <2>3, <2>4 DEF JobStep
<1>5. CASE Fault
  BY <1>1, <1>5, RequestsWait, QuietWait, ErrorWait DEF Fault
<1> QED BY <1>2, <1>3, <1>4, <1>5 DEF Next

\* The invariants hold in every state.
LEMMA WaitInvariance == Spec => [](TypeInv /\ CopyInv /\ MergeInv /\ WaitInv)
<1>1. Init => TypeInv /\ CopyInv /\ MergeInv /\ WaitInv
  BY InitType, InitCopies, InitMerge, InitWait
<1>2. TypeInv /\ CopyInv /\ MergeInv /\ WaitInv /\ [Next]_vars => (TypeInv /\ CopyInv /\ MergeInv /\ WaitInv)'
  BY CopyStep, MergeStep, WaitStep
<1> QED BY <1>1, <1>2, PTL DEF Spec

\* Whenever no job is queued or running, none failed and none was lost, every live task
\* is recovered, detached or as it was last recorded (finish_google_tasks_batch with the
\* saved cursors, enqueue_google_tasks_change).
THEOREM NothingIsStranded == Spec => []NothingStranded
<1>1. WaitInv => NothingStranded
  BY DEF WaitInv, IdleInv, Waiting, Handled, NothingStranded
<1> QED BY <1>1, WaitInvariance, PTL
============================================================================
