------------------------ MODULE TaskDeleteUndoProofs ------------------------
(***************************************************************************)
(* Safety of reversible deletion for any number of tasks, requests, edits  *)
(* and interrupted jobs.  TypeOK and UndoInv of TaskDeleteUndo together    *)
(* are inductive; there is one lemma per operation.                        *)
(***************************************************************************)
EXTENDS TaskDeleteUndo, TLAPS

-----------------------------------------------------------------------------
(* The records: what each operator writes, field by field.                 *)

\* What the absent mapping holds.
LEMMA NoMappingFields ==
  /\ NoMapping \in Mappings
  /\ ~NoMapping.exists /\ ~NoMapping.event /\ NoMapping.etag = 0 /\ ~NoMapping.dirty
  /\ ~NoMapping.deleted /\ ~NoMapping.conflict /\ ~NoMapping.tombstone
  /\ NoMapping.hold = 0 /\ ~NoMapping.resolving /\ ~NoMapping.legacy
BY DEF NoMapping, Mappings

\* What the absent receipt holds.
LEMMA NoReceiptFields ==
  /\ NoReceipt \in Receipts
  /\ NoReceipt.version = 0 /\ NoReceipt.expiry = 0 /\ NoReceipt.mapping = NoMapping
BY NoMappingFields DEF NoReceipt, Receipts

\* The mapping that a pull or a push writes for an event is an ordinary one.
LEMMA CleanFields ==
  ASSUME NEW etag \in Nat
  PROVE  LET m == CleanMapping(etag) IN
         /\ m \in Mappings
         /\ m.exists /\ m.event /\ m.etag = etag /\ ~m.dirty /\ ~m.deleted /\ ~m.conflict
         /\ ~m.tombstone /\ m.hold = 0 /\ ~m.resolving /\ ~m.legacy
BY DEF CleanMapping, NoMapping, Mappings

\* A deletion keeps what the mapping knows of the event and holds it until the deadline.
LEMMA TombstoneFields ==
  ASSUME NEW m \in Mappings, NEW expiry \in Nat
  PROVE  LET n == Tombstone([m EXCEPT !.legacy = FALSE], expiry) IN
         /\ n \in Mappings
         /\ n.exists = m.exists /\ ~n.event /\ n.etag = m.etag /\ ~n.dirty /\ n.deleted
         /\ n.conflict = m.conflict /\ n.tombstone /\ n.hold = expiry
         /\ n.resolving = m.resolving /\ ~n.legacy
BY DEF Tombstone, Mappings

\* A mapping is the receipt's tombstone when it agrees with it field by field.
LEMMA SameTombstone ==
  ASSUME NEW m \in Mappings, NEW r \in Mappings, NEW expiry \in Nat,
         r.exists, ~r.conflict, ~r.resolving,
         m.exists, ~m.event, m.etag = r.etag, ~m.dirty, m.deleted, ~m.conflict,
         m.tombstone, m.hold = expiry, ~m.resolving, m.legacy = r.legacy
  PROVE  m = Tombstone(r, expiry)
BY DEF Tombstone, Mappings

\* Undo turns the tombstone into an ordinary mapping again.
LEMMA RestoredFields ==
  ASSUME NEW m \in Mappings
  PROVE  LET n == [m EXCEPT !.event = TRUE, !.deleted = FALSE, !.dirty = FALSE,
                            !.tombstone = FALSE, !.hold = 0] IN
         /\ n \in Mappings
         /\ n.exists = m.exists /\ n.event /\ n.etag = m.etag /\ ~n.dirty /\ ~n.deleted
         /\ n.conflict = m.conflict /\ ~n.tombstone /\ n.hold = 0
         /\ n.resolving = m.resolving /\ n.legacy = m.legacy
BY DEF Mappings

\* Keep Google leaves a mapping that waits for its event to be looked up.
LEMMA KeptFields ==
  ASSUME NEW m \in Mappings
  PROVE  LET n == [m EXCEPT !.tombstone = FALSE, !.hold = 0, !.resolving = TRUE, !.conflict = FALSE,
                            !.dirty = FALSE, !.deleted = FALSE, !.etag = 0] IN
         /\ n \in Mappings
         /\ n.exists = m.exists /\ n.event = m.event /\ n.etag = 0 /\ ~n.dirty /\ ~n.deleted
         /\ ~n.conflict /\ ~n.tombstone /\ n.hold = 0 /\ n.resolving
BY DEF Mappings

\* A task's edit touches nothing of its mapping but `dirty`.
LEMMA DirtyFields ==
  ASSUME NEW m \in Mappings
  PROVE  LET n == [m EXCEPT !.dirty = m.event] IN
         /\ n \in Mappings
         /\ n.exists = m.exists /\ n.event = m.event /\ n.etag = m.etag /\ n.dirty = m.event
         /\ n.deleted = m.deleted /\ n.conflict = m.conflict /\ n.tombstone = m.tombstone
         /\ n.hold = m.hold /\ n.resolving = m.resolving /\ n.legacy = m.legacy
         /\ m = NoMapping => n = NoMapping
<1>1. NoMapping.dirty = NoMapping.event
  BY DEF NoMapping
<1>2. [m EXCEPT !.dirty = m.dirty] = m
  BY DEF Mappings
<1> QED
  BY <1>1, <1>2 DEF Mappings

\* A job that has found a conflict touches nothing of the mapping but `conflict`.
LEMMA ConflictFields ==
  ASSUME NEW m \in Mappings
  PROVE  LET n == [m EXCEPT !.conflict = TRUE] IN
         /\ n \in Mappings
         /\ n.exists = m.exists /\ n.event = m.event /\ n.etag = m.etag /\ n.dirty = m.dirty
         /\ n.deleted = m.deleted /\ n.conflict /\ n.tombstone = m.tombstone
         /\ n.hold = m.hold /\ n.resolving = m.resolving /\ n.legacy = m.legacy
BY DEF Mappings

\* The fields of a mapping and of a receipt have their types.
LEMMA FieldTypes ==
  /\ \A m \in Mappings :
        /\ m.exists \in BOOLEAN /\ m.event \in BOOLEAN /\ m.etag \in Nat /\ m.dirty \in BOOLEAN
        /\ m.deleted \in BOOLEAN /\ m.conflict \in BOOLEAN /\ m.tombstone \in BOOLEAN
        /\ m.hold \in Nat /\ m.resolving \in BOOLEAN /\ m.legacy \in BOOLEAN
  /\ \A r \in Receipts :
        r.version \in Nat /\ r.expiry \in Nat /\ r.deps \in Nat /\ r.focus \in Nat
        /\ r.mapping \in Mappings
BY DEF Mappings, Receipts

\* The receipt of a deletion: the task's version, the deadline, the revisions as they are
\* afterwards, and the mapping with the current fingerprint.
LEMMA RemovedReceipt ==
  ASSUME TypeOK, NEW t \in Tasks, NEW f \in Nat
  PROVE  LET r == [Snapshot(t) EXCEPT !.expiry = now + Window, !.mapping.legacy = FALSE,
                                       !.focus = IF t \in Focused THEN f ELSE 0] IN
         /\ r \in Receipts
         /\ r.version = version[t] /\ r.expiry = now + Window /\ r.deps = deps
         /\ r.focus = IF t \in Focused THEN f ELSE 0
         /\ r.mapping.exists = mapping[t].exists /\ r.mapping.etag = mapping[t].etag
         /\ r.mapping.conflict = mapping[t].conflict /\ r.mapping.resolving = mapping[t].resolving
         /\ ~r.mapping.legacy
<1>1. mapping[t] \in Mappings /\ version[t] \in Nat /\ now + Window \in Nat /\ deps \in Nat
  BY UndoAssumption DEF TypeOK, RowTypes, WorldTypes
<1> DEFINE old == Snapshot(t)
           n == [mapping[t] EXCEPT !.legacy = FALSE]
           mid == [old EXCEPT !.mapping = [old.mapping EXCEPT !.legacy = FALSE]]
           h == IF t \in Focused THEN f ELSE 0
<1>2. /\ n \in Mappings
      /\ n.exists = mapping[t].exists /\ n.etag = mapping[t].etag
      /\ n.conflict = mapping[t].conflict /\ n.resolving = mapping[t].resolving /\ ~n.legacy
  BY <1>1 DEF Mappings
<1>3. h \in Nat /\ (IF t \in Focused THEN focus ELSE 0) \in Nat
  BY DEF TypeOK, WorldTypes
<1>4. old \in Receipts /\ old.version = version[t] /\ old.deps = deps /\ old.mapping = mapping[t]
  BY <1>1, <1>3 DEF Snapshot, Receipts
<1>5. mid \in Receipts /\ mid.version = version[t] /\ mid.deps = deps /\ mid.mapping = n
  <2> HIDE DEF old
  <2> QED
    BY <1>2, <1>4 DEF Receipts
<1>6. [old EXCEPT !.expiry = now + Window, !.mapping.legacy = FALSE, !.focus = h]
      = [mid EXCEPT !.expiry = now + Window, !.focus = h]
  <2> HIDE DEF old, h
  <2> QED
    OBVIOUS
<1> DEFINE e == now + Window
<1>7. e \in Nat
  BY <1>1
<1> HIDE DEF mid, n, h, e
<1>8. /\ [mid EXCEPT !.expiry = e, !.focus = h] \in Receipts
      /\ LET q == [mid EXCEPT !.expiry = e, !.focus = h] IN
         /\ q.version = version[t] /\ q.expiry = e /\ q.deps = deps /\ q.focus = h
         /\ q.mapping = n
  BY <1>3, <1>5, <1>7 DEF Receipts
<1> QED
  BY <1>2, <1>6, <1>8 DEF h, e

-----------------------------------------------------------------------------
(* Frames: what a step leaves alone keeps its part of the invariant.       *)

Rows(t) == RowOK(t) /\ ReceiptOK(t) /\ EventOK(t)

SameRow(s) ==
    /\ version'[s] = version[s] /\ event'[s] = event[s] /\ mapping'[s] = mapping[s]
    /\ receipt'[s] = receipt[s] /\ (s \in open' <=> s \in open) /\ (s \in erased' <=> s \in erased)

SameEvent(s) == gver'[s] = gver[s] /\ glive'[s] = glive[s]

Forward == now <= now' /\ seq <= seq' /\ token' = token

\* The types of one task's rows.
LEMMA TaskTypes ==
  ASSUME TypeOK, NEW t \in Tasks
  PROVE  /\ version[t] \in Nat /\ event[t] \in {"none", "block", "plain"}
         /\ mapping[t] \in Mappings /\ receipt[t] \in Receipts /\ receipt[t].mapping \in Mappings
         /\ gver[t] \in Nat /\ glive[t] \in BOOLEAN
         /\ receipt[t].version \in Nat /\ receipt[t].expiry \in Nat
         /\ mapping[t].etag \in Nat /\ mapping[t].hold \in Nat
         /\ now \in Nat /\ seq \in Nat /\ token \in Nat /\ mark \in Nat
BY FieldTypes DEF TypeOK, RowTypes, WorldTypes, JobTypes

\* The rows of a task that a step does not touch, while time and Google's counter go on.
LEMMA RowFrame ==
  ASSUME TypeOK, TypeOK', NEW s \in Tasks, Rows(s), SameRow(s), SameEvent(s), Forward
  PROVE  Rows(s)'
<1>1. now \in Nat /\ now' \in Nat /\ seq \in Nat /\ seq' \in Nat
      /\ gver[s] \in Nat /\ mapping[s].etag \in Nat /\ receipt[s].expiry \in Nat
  BY TaskTypes DEF TypeOK, WorldTypes
<1> USE DEF Rows, SameRow, SameEvent, Forward
<1>2. RowOK(s)'
  BY DEF RowOK, Ordinary, Buried, Resolving
<1>3. ReceiptOK(s)'
  BY <1>1 DEF ReceiptOK
<1>4. EventOK(s)'
  BY <1>1 DEF EventOK
<1> QED
  BY <1>2, <1>3, <1>4

\* What a job has in its list, when the step changes nothing that the list is about.
LEMMA PullFrame ==
  ASSUME TypeOK, TypeOK', PullInv, UNCHANGED jobVars, Forward,
         \A s \in Tasks : /\ SameEvent(s)
                          /\ mapping'[s].exists = mapping[s].exists
                          /\ mapping'[s].etag = mapping[s].etag
                          /\ mapping'[s].conflict = mapping[s].conflict
  PROVE  PullInv'
<1> USE UndoAssumption DEF SameEvent, jobVars
<1>1. token' <= seq'
  BY DEF Forward, PullInv, TypeOK, WorldTypes
<1>2. SUFFICES ASSUME Pulling'
               PROVE  /\ token' <= mark' /\ mark' <= seq'
                      /\ \A item \in inbox' : ItemOK(item)'
                      /\ \A item, other \in inbox' : item.task = other.task => item = other
                      /\ \A t \in Linked : Listed(t)'
  BY <1>1 DEF PullInv
<1>3. Pulling
  BY <1>2 DEF Pulling
<1>4. token' <= mark' /\ mark' <= seq'
  BY <1>3 DEF Forward, PullInv, TypeOK, WorldTypes, JobTypes
<1>5. ASSUME NEW item \in inbox' PROVE ItemOK(item)'
  <2>1. item \in inbox /\ ItemOK(item) /\ item.task \in Tasks
    BY <1>3 DEF PullInv, TypeOK, JobTypes
  <2> QED
    BY <2>1 DEF ItemOK
<1>6. ASSUME NEW t \in Linked PROVE Listed(t)'
  <2>1. t \in Tasks /\ Listed(t)
    BY <1>3 DEF PullInv
  <2> QED
    BY <2>1 DEF Listed
<1> QED
  BY <1>3, <1>4, <1>5, <1>6 DEF PullInv

\* What a job has in its hands, when the step changes nothing that a push looks at.
LEMMA HandFrame ==
  ASSUME TypeOK, TypeOK', HandInv, UNCHANGED jobVars, now <= now', open \subseteq open',
         \A s \in Tasks : /\ mapping'[s].exists = mapping[s].exists
                          /\ mapping[s].dirty \/ mapping[s].deleted
                             => mapping'[s].dirty \/ mapping'[s].deleted
                          /\ mapping'[s].conflict = mapping[s].conflict
                          /\ mapping'[s].resolving = mapping[s].resolving
                          /\ mapping'[s].tombstone = mapping[s].tombstone
                          /\ mapping'[s].hold = mapping[s].hold
                          /\ glive'[s] => glive[s]
  PROVE  HandInv'
<1> USE UndoAssumption DEF jobVars
<1>1. now \in Nat /\ now' \in Nat /\ \A s \in Tasks : mapping[s].hold \in Nat
  BY FieldTypes DEF TypeOK, RowTypes, WorldTypes
<1>2. jpc' \in {"mark", "drop"} => cur' \in Linked /\ cur' \in open'
  BY DEF HandInv
<1>3. ASSUME jpc' = "forget"
      PROVE  cur' \in Linked \ work' /\ mapping'[cur'].tombstone /\ mapping'[cur'].hold <= now'
             /\ ~glive'[cur']
  BY <1>1, <1>3 DEF HandInv
<1>4. ASSUME jpc' \in {"push", "forget"}, NEW t \in work'
      PROVE  LET m == mapping'[t] IN
             m.exists /\ (m.dirty \/ m.deleted) /\ ~m.conflict /\ ~m.resolving /\ m.hold <= now'
  <2>1. t \in Tasks /\ t \in work
    BY DEF TypeOK, JobTypes
  <2> QED
    BY <1>1, <1>4, <2>1 DEF HandInv
<1> QED
  BY <1>2, <1>3, <1>4 DEF HandInv

\* What may happen to a task while a request waits: its version grows, a receipt is dropped
\* or is the one of a later version, and the event of a task that can be restored changes
\* in Google only on record.
Moves(t) ==
    /\ version'[t] # 0 => \/ version[t] # 0 /\ version'[t] >= version[t]
                          \/ receipt[t].version # 0 /\ version'[t] > receipt[t].version
    /\ receipt'[t].version # 0 => \/ receipt'[t] = receipt[t]
                                  \/ version[t] # 0 /\ receipt'[t].version = version[t]
    /\ receipt[t].version # 0 /\ receipt'[t] = receipt[t] /\ receipt[t].mapping.exists
       /\ receipt[t].expiry > now' /\ t \notin touched' =>
          t \notin touched /\ (glive[t] => glive'[t] /\ gver'[t] = gver[t])

AllMove == \A t \in Tasks : Moves(t)

\* A task that the step leaves alone.
LEMMA MovesFrame ==
  ASSUME TypeOK, NEW t \in Tasks, version'[t] = version[t], receipt'[t] = receipt[t],
         SameEvent(t), t \in touched => t \in touched'
  PROVE  Moves(t)
BY TaskTypes DEF Moves, SameEvent

\* A request that waits for its turn keeps its part of the invariant.
LEMMA PlanStep ==
  ASSUME TypeOK, TypeOK', NEW c \in Clients, PlanOK(c), now <= now',
         pc'[c] = pc[c], plan'[c] = plan[c], AllMove
  PROVE  PlanOK(c)'
<1>1. plan[c].read \in Receipts /\ now \in Nat /\ now' \in Nat
      /\ (pc[c] # "idle" => plan[c].task \in Tasks)
  BY DEF TypeOK, RequestTypes, WorldTypes
<1>2. SUFFICES ASSUME pc[c] \in {"check undo", "undo"}
               PROVE  PlanOK(c)'
  BY DEF PlanOK
<1>3. PICK t \in Tasks : t = plan[c].task
  BY <1>1, <1>2
<1>4. PICK read \in Receipts : read = plan[c].read
  BY <1>1
<1>5. Moves(t)
  BY DEF AllMove
<1>6. /\ read.version # 0
      /\ version[t] # 0 => version[t] > read.version
      /\ receipt[t].version # 0 => receipt[t].version >= read.version
      /\ pc[c] = "undo" /\ receipt[t] = read /\ read.mapping.exists /\ read.expiry > now
         /\ t \notin touched => glive[t] /\ gver[t] = read.mapping.etag
  BY <1>2, <1>3, <1>4 DEF PlanOK
<1>7. plan'[c].task = t /\ plan'[c].read = read
  BY <1>3, <1>4
<1>8. /\ version[t] \in Nat /\ version'[t] \in Nat /\ receipt[t].version \in Nat
      /\ receipt'[t].version \in Nat /\ read.version \in Nat /\ read.expiry \in Nat
  BY <1>4, FieldTypes DEF TypeOK, RowTypes
<1>9. version'[t] # 0 => version'[t] > read.version
  <2>1. version'[t] # 0 => \/ version[t] # 0 /\ version'[t] >= version[t]
                           \/ receipt[t].version # 0 /\ version'[t] > receipt[t].version
    BY <1>5 DEF Moves
  <2>2. CASE version[t] # 0 /\ version'[t] >= version[t]
    BY <1>6, <1>8, <2>2
  <2>3. CASE receipt[t].version # 0 /\ version'[t] > receipt[t].version
    BY <1>6, <1>8, <2>3
  <2> QED
    BY <2>1, <2>2, <2>3
<1>10. receipt'[t].version # 0 => receipt'[t].version >= read.version
  <2>1. receipt'[t].version # 0 => \/ receipt'[t] = receipt[t]
                                   \/ version[t] # 0 /\ receipt'[t].version = version[t]
    BY <1>5 DEF Moves
  <2>2. CASE receipt'[t] = receipt[t]
    BY <1>6, <2>2
  <2>3. CASE version[t] # 0 /\ receipt'[t].version = version[t]
    BY <1>6, <1>8, <2>3
  <2> QED
    BY <2>1, <2>2, <2>3
<1>11. ASSUME pc'[c] = "undo", receipt'[t] = read, read.mapping.exists, read.expiry > now',
              t \notin touched'
       PROVE  glive'[t] /\ gver'[t] = read.mapping.etag
  <2>1. receipt'[t] = receipt[t]
    BY <1>5, <1>6, <1>8, <1>11 DEF Moves
  <2>2. read.expiry > now
    BY <1>1, <1>8, <1>11
  <2>3. t \notin touched /\ (glive[t] => glive'[t] /\ gver'[t] = gver[t])
    BY <1>5, <1>6, <1>11, <2>1 DEF Moves
  <2> QED
    BY <1>6, <1>11, <2>1, <2>2, <2>3
<1> QED
  BY <1>6, <1>7, <1>9, <1>10, <1>11 DEF PlanOK

\* All requests wait.
LEMMA PlansWait ==
  ASSUME TypeOK, TypeOK', UndoInv, now <= now', UNCHANGED requests, AllMove
  PROVE  PlanInv'
BY PlanStep DEF UndoInv, PlanInv, requests

\* The types of the parts that a step does not write.
LEMMA TypeFrame ==
  ASSUME TypeOK
  PROVE  /\ UNCHANGED requests => RequestTypes'
         /\ UNCHANGED jobVars => JobTypes'
         /\ UNCHANGED <<version, event, mapping, receipt, gver, glive>> => RowTypes'
BY DEF TypeOK, requests, jobVars, RequestTypes, JobTypes, RowTypes

\* A step that changes no row and no event.
LEMMA Quiet ==
  ASSUME TypeOK, TypeOK', UndoInv, Forward, \A s \in Tasks : SameRow(s) /\ SameEvent(s),
         open \subseteq open', UNCHANGED jobVars, touched \subseteq touched'
  PROVE  RowInv' /\ PullInv' /\ HandInv' /\ AllMove
<1>1. RowInv'
  BY RowFrame DEF UndoInv, RowInv, Rows
<1>2. PullInv' /\ HandInv'
  BY PullFrame, HandFrame DEF UndoInv, SameEvent, SameRow, Forward
<1>3. AllMove
  BY MovesFrame DEF AllMove, SameRow
<1> QED
  BY <1>1, <1>2, <1>3

-----------------------------------------------------------------------------
(* Changes that race a deletion or an Undo.                                *)

LEMMA ElsewhereStep ==
  ASSUME TypeOK, UndoInv, BeginElsewhere \/ EndElsewhere
  PROVE  TypeOK' /\ UndoInv'
<1> USE DEF BeginElsewhere, EndElsewhere, local, sync, google
<1>1. TypeOK'
  BY TypeFrame DEF TypeOK, WorldTypes
<1>2. /\ Forward /\ \A s \in Tasks : SameRow(s) /\ SameEvent(s)
      /\ UNCHANGED jobVars /\ UNCHANGED requests /\ touched \subseteq touched'
      /\ open \subseteq open'
  BY DEF TypeOK, WorldTypes, Forward, SameRow, SameEvent
<1>3. RowInv' /\ PullInv' /\ HandInv' /\ AllMove
  BY <1>1, <1>2, Quiet
<1>4. TouchInv'
  BY DEF UndoInv, TouchInv
<1> QED
  BY <1>1, <1>2, <1>3, <1>4, PlansWait DEF UndoInv, Forward

LEMMA ChangeDependencyStep ==
  ASSUME TypeOK, UndoInv, ChangeDependency
  PROVE  TypeOK' /\ UndoInv'
<1> USE DEF ChangeDependency, Edit, sync, google
<1>1. TypeOK'
  BY TypeFrame DEF TypeOK, WorldTypes
<1>2. /\ Forward /\ \A s \in Tasks : SameRow(s) /\ SameEvent(s)
      /\ UNCHANGED jobVars /\ UNCHANGED requests
  BY DEF TypeOK, WorldTypes, Forward, SameRow, SameEvent
<1>3. TouchInv'
  BY DEF TouchInv
<1>4. RowInv' /\ PullInv' /\ HandInv'
  BY <1>1, <1>2, RowFrame, PullFrame, HandFrame
     DEF UndoInv, RowInv, Rows, SameEvent, SameRow, Forward
<1>5. AllMove
  BY <1>2, TaskTypes DEF AllMove, Moves, SameRow
<1> QED
  BY <1>1, <1>2, <1>3, <1>4, <1>5, PlansWait DEF UndoInv, Forward

LEMMA ChangeFocusStep ==
  ASSUME TypeOK, UndoInv, ChangeFocus
  PROVE  TypeOK' /\ UndoInv'
<1> USE DEF ChangeFocus, Edit, sync, google
<1>1. TypeOK'
  BY TypeFrame DEF TypeOK, WorldTypes
<1>2. /\ Forward /\ \A s \in Tasks : SameRow(s) /\ SameEvent(s)
      /\ UNCHANGED jobVars /\ UNCHANGED requests /\ touched \subseteq touched'
      /\ open \subseteq open'
  BY DEF TypeOK, WorldTypes, Forward, SameRow, SameEvent
<1>3. RowInv' /\ PullInv' /\ HandInv' /\ AllMove
  BY <1>1, <1>2, Quiet
<1>4. TouchInv'
  BY DEF UndoInv, TouchInv
<1> QED
  BY <1>1, <1>2, <1>3, <1>4, PlansWait DEF UndoInv, Forward

LEMMA TickStep ==
  ASSUME TypeOK, UndoInv, Tick
  PROVE  TypeOK' /\ UndoInv'
<1> USE DEF Tick, local, sync, google
<1>1. TypeOK'
  BY TypeFrame DEF TypeOK, WorldTypes
<1>2. /\ Forward /\ \A s \in Tasks : SameRow(s) /\ SameEvent(s)
      /\ UNCHANGED jobVars /\ UNCHANGED requests /\ touched \subseteq touched'
      /\ open \subseteq open'
  BY DEF TypeOK, WorldTypes, Forward, SameRow, SameEvent
<1>3. RowInv' /\ PullInv' /\ HandInv' /\ AllMove
  BY <1>1, <1>2, Quiet
<1>4. TouchInv'
  BY DEF UndoInv, TouchInv
<1> QED
  BY <1>1, <1>2, <1>3, <1>4, PlansWait DEF UndoInv, Forward

\* An edit makes the mapping of a time block dirty, even while a job pushes it.
LEMMA EditTaskStep ==
  ASSUME TypeOK, UndoInv, NEW t \in Tasks, EditTask(t)
  PROVE  TypeOK' /\ UndoInv'
<1> DEFINE m == mapping[t]
           n == [m EXCEPT !.dirty = m.event]
<1>1. m \in Mappings /\ version[t] \in Nat /\ version[t] # 0
  BY TaskTypes DEF EditTask
<1>2. /\ n \in Mappings
      /\ n.exists = m.exists /\ n.event = m.event /\ n.etag = m.etag /\ n.dirty = m.event
      /\ n.deleted = m.deleted /\ n.conflict = m.conflict /\ n.tombstone = m.tombstone
      /\ n.hold = m.hold /\ n.resolving = m.resolving /\ n.legacy = m.legacy
      /\ m = NoMapping => n = NoMapping
  BY <1>1, DirtyFields
<1>3. mapping' = [mapping EXCEPT ![t] = n]
  BY DEF EditTask
<1> HIDE DEF n
<1>4. /\ mapping' \in [Tasks -> Mappings] /\ mapping'[t] = n
      /\ \A s \in Tasks : s # t => mapping'[s] = mapping[s]
  BY <1>2, <1>3 DEF TypeOK, RowTypes
<1>5. /\ version' \in [Tasks -> Nat] /\ version'[t] = version[t] + 1
      /\ \A s \in Tasks : s # t => version'[s] = version[s]
  BY <1>1 DEF EditTask, TypeOK, RowTypes
<1>6. /\ UNCHANGED <<event, deps, focus, open, receipt, google, token, requests, jobVars, erased, touched>>
      /\ UNCHANGED <<now, busy>>
  BY DEF EditTask, Edit
<1> USE <1>6 DEF google
<1>7. TypeOK'
  BY <1>4, <1>5, TypeFrame DEF TypeOK, RowTypes, WorldTypes
<1>8. Forward /\ \A s \in Tasks : SameEvent(s) /\ (s # t => SameRow(s))
  BY <1>4, <1>5 DEF Forward, SameEvent, SameRow, TypeOK, WorldTypes
<1>9. RowOK(t) /\ ReceiptOK(t) /\ EventOK(t)
  BY DEF UndoInv, RowInv
<1>10. (m = NoMapping /\ event[t] = "none") \/ Ordinary(t)
  BY <1>1, <1>9 DEF RowOK, Buried, Resolving
<1>11. RowOK(t)'
  <2>1. CASE m = NoMapping /\ event[t] = "none"
    BY <1>1, <1>2, <1>4, <1>5, <1>9, <2>1, NoMappingFields DEF RowOK
  <2>2. CASE Ordinary(t)
    <3>1. Ordinary(t)'
      BY <1>2, <1>4, <2>2 DEF Ordinary
    <3> QED
      BY <1>1, <1>2, <1>4, <1>5, <1>9, <3>1 DEF RowOK
  <2> QED
    BY <1>10, <2>1, <2>2
<1>12. receipt[t].version = 0 /\ receipt'[t].version = 0
  BY <1>1, <1>9 DEF ReceiptOK
<1>13. EventOK(t)'
  BY <1>2, <1>4, <1>9 DEF EventOK
<1>14. RowInv'
  BY <1>7, <1>8, <1>11, <1>12, <1>13, RowFrame DEF RowInv, Rows, UndoInv, ReceiptOK
<1>15. m.dirty \/ m.deleted => n.dirty \/ n.deleted
  BY <1>2, <1>10, NoMappingFields DEF Ordinary
<1>16. PullInv' /\ HandInv'
  BY <1>2, <1>4, <1>7, <1>8, <1>15, PullFrame, HandFrame DEF UndoInv, SameEvent, Forward
<1>17. TouchInv'
  BY DEF UndoInv, TouchInv
<1>18. AllMove
  <2>1. Moves(t)
    BY <1>1, <1>5, <1>12 DEF Moves
  <2> QED
    BY <1>5, <1>8, <2>1, MovesFrame DEF AllMove
<1> QED
  BY <1>7, <1>8, <1>14, <1>16, <1>17, <1>18, PlansWait DEF UndoInv, Forward

\* Every write in Google has a version that no list and no mapping has seen.
LEMMA GoogleWritesTypes ==
  ASSUME TypeOK, NEW t \in Tasks, NEW live \in BOOLEAN, GoogleWrites(t, live)
  PROVE  /\ seq' = seq + 1 /\ seq' \in Nat
         /\ gver' \in [Tasks -> Nat] /\ glive' \in [Tasks -> BOOLEAN]
         /\ gver'[t] = seq' /\ glive'[t] = live
         /\ \A s \in Tasks : s # t => SameEvent(s)
BY DEF TypeOK, RowTypes, WorldTypes, GoogleWrites, SameEvent

\* The user edits or cancels an event in Google, at any moment of a job or an Undo.
LEMMA GoogleStep ==
  ASSUME TypeOK, UndoInv, NEW t \in Linked, NEW live \in BOOLEAN,
         Edit, glive[t], GoogleWrites(t, live), touched' = touched \cup {t},
         UNCHANGED <<local, sync, receipt, token, requests, jobVars, erased>>
  PROVE  TypeOK' /\ UndoInv'
<1> USE UndoAssumption DEF Edit, local, sync
<1>1. /\ seq' = seq + 1 /\ seq' \in Nat
      /\ gver' \in [Tasks -> Nat] /\ glive' \in [Tasks -> BOOLEAN]
      /\ gver'[t] = seq' /\ glive'[t] = live
      /\ \A s \in Tasks : s # t => SameEvent(s)
  BY GoogleWritesTypes
<1>2. TypeOK'
  BY <1>1, TypeFrame DEF TypeOK, RowTypes, WorldTypes
<1>3. Forward /\ \A s \in Tasks : SameRow(s)
  BY <1>1 DEF TypeOK, WorldTypes, Forward, SameRow
<1>4. RowInv'
  <2>1. ASSUME NEW s \in Tasks PROVE RowOK(s)' /\ ReceiptOK(s)'
    BY <1>3 DEF UndoInv, RowInv, RowOK, Ordinary, Buried, Resolving, ReceiptOK, SameRow
  <2>2. EventOK(t)'
    <3>1. EventOK(t) /\ token <= seq
      BY DEF UndoInv, RowInv, PullInv
    <3>2. /\ gver[t] \in Nat /\ seq \in Nat /\ token \in Nat /\ mapping[t].etag \in Nat
      BY TaskTypes
    <3> QED
      BY <1>1, <3>1, <3>2 DEF EventOK
  <2>3. ASSUME NEW s \in Tasks, s # t PROVE Rows(s)'
    BY <1>1, <1>2, <1>3, <2>3, RowFrame DEF UndoInv, RowInv, Rows
  <2> QED
    BY <2>1, <2>2, <2>3 DEF RowInv, Rows
<1>5. PullInv'
  <2>1. token' <= seq'
    BY <1>1 DEF UndoInv, PullInv, TypeOK, WorldTypes
  <2>2. SUFFICES ASSUME Pulling
                 PROVE  /\ token <= mark /\ mark <= seq'
                        /\ \A item \in inbox : ItemOK(item)'
                        /\ \A item, other \in inbox : item.task = other.task => item = other
                        /\ \A s \in Linked : Listed(s)'
    BY <2>1 DEF PullInv, Pulling, jobVars
  <2>3. mark <= seq /\ token <= mark /\ mark \in Nat /\ seq \in Nat
    BY <2>2 DEF UndoInv, PullInv, TypeOK, JobTypes, WorldTypes
  <2>4. ASSUME NEW item \in inbox PROVE ItemOK(item)'
    <3>1. ItemOK(item) /\ item.task \in Tasks /\ item.ver \in Nat
      BY <2>2 DEF UndoInv, PullInv, TypeOK, JobTypes
    <3> QED
      BY <1>1, <2>3, <3>1 DEF ItemOK, SameEvent, jobVars
  <2>5. ASSUME NEW s \in Linked PROVE Listed(s)'
    <3>1. Listed(s)
      BY <2>2 DEF UndoInv, PullInv
    <3> QED
      BY <1>1, <2>3, <3>1 DEF Listed, SameEvent, jobVars
  <2> QED
    BY <1>1, <2>2, <2>3, <2>4, <2>5 DEF UndoInv, PullInv
<1>6. HandInv'
  <2>1. \A s \in Tasks : glive'[s] => glive[s]
    BY <1>1 DEF SameEvent
  <2> QED
    BY <1>2, <1>3, <2>1, HandFrame DEF UndoInv, SameRow, Forward
<1>7. TouchInv'
  BY DEF UndoInv, TouchInv
<1>8. AllMove
  <2>1. Moves(t)
    BY TaskTypes DEF Moves
  <2> QED
    BY <1>1, <2>1, MovesFrame DEF AllMove
<1> QED
  BY <1>2, <1>3, <1>4, <1>5, <1>6, <1>7, <1>8, PlansWait DEF UndoInv, Forward

\* Expired receipts are removed.
LEMMA CleanupStep ==
  ASSUME TypeOK, UndoInv, CleanupReceipts
  PROVE  TypeOK' /\ UndoInv'
<1> USE DEF CleanupReceipts, clock, local, sync, google
<1>1. ASSUME NEW s \in Tasks
      PROVE  receipt'[s] = receipt[s] \/ receipt'[s] = NoReceipt
  OBVIOUS
<1>2. receipt' \in [Tasks -> Receipts]
  BY NoReceiptFields DEF TypeOK, RowTypes
<1>3. TypeOK'
  BY <1>2, TypeFrame DEF TypeOK, RowTypes, WorldTypes
<1>4. Forward /\ \A s \in Tasks : SameEvent(s)
  BY DEF TypeOK, WorldTypes, Forward, SameEvent
<1>5. RowInv'
  <2> SUFFICES ASSUME NEW s \in Tasks PROVE Rows(s)'
    BY DEF RowInv, Rows
  <2>1. Rows(s)
    BY DEF UndoInv, RowInv, Rows
  <2>2. CASE receipt'[s] = receipt[s]
    BY <1>3, <1>4, <2>1, <2>2, RowFrame DEF SameRow
  <2>3. CASE receipt'[s] = NoReceipt
    BY <2>1, <2>3, NoReceiptFields
       DEF Rows, RowOK, Ordinary, Buried, Resolving, ReceiptOK, EventOK
  <2> QED
    BY <1>1, <2>2, <2>3
<1>6. PullInv' /\ HandInv'
  BY <1>3, <1>4, PullFrame, HandFrame DEF UndoInv, Forward, SameEvent
<1>7. TouchInv'
  BY <1>1, NoReceiptFields DEF UndoInv, TouchInv
<1>8. AllMove
  BY <1>1, <1>4, NoReceiptFields, TaskTypes DEF AllMove, Moves, SameEvent
<1> QED
  BY <1>3, <1>4, <1>5, <1>6, <1>7, <1>8, PlansWait DEF UndoInv, Forward

-----------------------------------------------------------------------------
(* Requests.                                                               *)

\* A request that ends, and the ones that go on.
LEMMA DoneTypes ==
  ASSUME TypeOK, NEW c \in Clients, Done(c)
  PROVE  /\ RequestTypes' /\ pc'[c] = "idle"
         /\ \A d \in Clients : d # c => pc'[d] = pc[d] /\ plan'[d] = plan[d]
<1>1. NoPlan \in [task : Tasks \cup {NoTask}, read : Receipts]
  BY NoReceiptFields DEF NoPlan
<1> QED
  BY <1>1 DEF TypeOK, RequestTypes, Done

LEMMA DonePlans ==
  ASSUME TypeOK, TypeOK', UndoInv, now <= now', NEW c \in Clients, Done(c), AllMove
  PROVE  PlanInv'
<1>1. PlanOK(c)'
  BY DoneTypes DEF PlanOK
<1>2. ASSUME NEW d \in Clients, d # c PROVE PlanOK(d)'
  BY <1>2, DoneTypes, PlanStep DEF UndoInv, PlanInv
<1> QED
  BY <1>1, <1>2 DEF PlanInv

\* A request that writes nothing but its own state.
LEMMA RequestFrame ==
  ASSUME TypeOK, UndoInv, RequestTypes', UNCHANGED clock, UNCHANGED Others
  PROVE  TypeOK' /\ RowInv' /\ PullInv' /\ HandInv' /\ TouchInv' /\ AllMove
<1> USE DEF clock, Others, local, sync, google
<1>1. TypeOK'
  BY TypeFrame DEF TypeOK, WorldTypes
<1>2. /\ Forward /\ \A s \in Tasks : SameRow(s) /\ SameEvent(s)
      /\ UNCHANGED jobVars /\ touched \subseteq touched' /\ open \subseteq open'
  BY DEF TypeOK, WorldTypes, Forward, SameRow, SameEvent
<1>3. TouchInv'
  BY DEF UndoInv, TouchInv
<1> QED
  BY <1>1, <1>2, <1>3, Quiet

LEMMA InvalidStep ==
  ASSUME TypeOK, UndoInv, NEW c \in Clients, Done(c), UNCHANGED clock, UNCHANGED Others
  PROVE  TypeOK' /\ UndoInv'
<1>1. TypeOK' /\ RowInv' /\ PullInv' /\ HandInv' /\ TouchInv' /\ AllMove
  BY DoneTypes, RequestFrame
<1>2. now <= now'
  BY DEF TypeOK, WorldTypes, clock
<1> QED
  BY <1>1, <1>2, DonePlans DEF UndoInv

\* The first half of a deletion that has to ask Google.
LEMMA PrepareDeleteStep ==
  ASSUME TypeOK, UndoInv, NEW c \in Clients, NEW t \in Tasks, PrepareDelete(c, t)
  PROVE  TypeOK' /\ UndoInv'
<1>0. /\ UNCHANGED <<local, sync, receipt, google, token, jobVars, erased, touched>>
      /\ UNCHANGED <<now, busy>>
  BY DEF PrepareDelete, Edit
<1> USE <1>0 DEF local, sync, google
<1>1. Snapshot(t) \in Receipts
  <2>1. (IF t \in Focused THEN focus ELSE 0) \in Nat
    BY DEF TypeOK, WorldTypes
  <2> QED
    BY <2>1, TaskTypes DEF Snapshot, Receipts, TypeOK, WorldTypes
<1>2. RequestTypes' /\ pc'[c] = "check delete"
      /\ \A d \in Clients : d # c => pc'[d] = pc[d] /\ plan'[d] = plan[d]
  <2>1. [task |-> t, read |-> Snapshot(t)] \in [task : Tasks \cup {NoTask}, read : Receipts]
    BY <1>1
  <2>2. plan' \in [Clients -> [task : Tasks \cup {NoTask}, read : Receipts]]
        /\ plan'[c] = [task |-> t, read |-> Snapshot(t)]
    BY <2>1 DEF PrepareDelete, TypeOK, RequestTypes
  <2> QED
    BY <2>2 DEF PrepareDelete, TypeOK, RequestTypes
<1>3. TypeOK'
  BY <1>2, TypeFrame DEF TypeOK, WorldTypes
<1>4. /\ Forward /\ \A s \in Tasks : SameRow(s) /\ SameEvent(s)
      /\ UNCHANGED jobVars /\ touched \subseteq touched' /\ open \subseteq open'
  BY DEF TypeOK, WorldTypes, Forward, SameRow, SameEvent
<1>5. RowInv' /\ PullInv' /\ HandInv' /\ AllMove
  BY <1>3, <1>4, Quiet
<1>6. TouchInv'
  BY DEF UndoInv, TouchInv
<1>7. ASSUME NEW d \in Clients PROVE PlanOK(d)'
  <2>1. CASE d = c
    BY <1>2, <2>1 DEF PlanOK
  <2>2. CASE d # c
    BY <1>2, <1>3, <1>4, <1>5, <2>2, PlanStep DEF UndoInv, PlanInv, Forward
  <2> QED
    BY <2>1, <2>2
<1> QED
  BY <1>3, <1>5, <1>6, <1>7 DEF UndoInv, PlanInv

\* The answer of Google is as good as the version it shows.
LEMMA ValidateStep ==
  ASSUME TypeOK, UndoInv, NEW c \in Clients, Validate(c)
  PROVE  TypeOK' /\ UndoInv'
<1>1. /\ pc' \in [Clients -> {"idle", "check delete", "delete", "check undo", "undo"}]
      /\ pc'[c] # "idle" /\ pc[c] # "idle"
      /\ pc'[c] = "undo" => pc[c] = "check undo"
      /\ pc'[c] # "check undo"
      /\ \A d \in Clients : d # c => pc'[d] = pc[d]
      /\ plan' = plan
  BY DEF Validate, TypeOK, RequestTypes
<1>2. RequestTypes'
  BY <1>1 DEF TypeOK, RequestTypes
<1>3. UNCHANGED clock /\ UNCHANGED Others
  BY DEF Validate
<1>4. TypeOK' /\ RowInv' /\ PullInv' /\ HandInv' /\ TouchInv' /\ AllMove
  BY <1>2, <1>3, RequestFrame
<1>5. now <= now'
  BY <1>3 DEF TypeOK, WorldTypes, clock
<1>6. PlanOK(c)'
  <2> SUFFICES ASSUME pc'[c] = "undo" PROVE PlanOK(c)'
    BY <1>1 DEF PlanOK
  <2>1. PICK t \in Tasks : t = plan[c].task
    BY <1>1 DEF TypeOK, RequestTypes
  <2>2. PICK read \in Receipts : read = plan[c].read
    BY DEF TypeOK, RequestTypes
  <2>3. /\ version' = version /\ receipt' = receipt /\ glive' = glive /\ gver' = gver
    BY <1>3 DEF Others, local, google
  <2>4. /\ read.version # 0
        /\ version[t] # 0 => version[t] > read.version
        /\ receipt[t].version # 0 => receipt[t].version >= read.version
    BY <1>1, <2>1, <2>2 DEF UndoInv, PlanInv, PlanOK
  <2>5. glive[t] /\ gver[t] = read.mapping.etag
    BY <2>1, <2>2 DEF Validate
  <2>6. plan'[c].task = t /\ plan'[c].read = read
    BY <1>1, <2>1, <2>2
  <2> QED
    BY <2>3, <2>4, <2>5, <2>6 DEF PlanOK
<1>7. ASSUME NEW d \in Clients, d # c PROVE PlanOK(d)'
  BY <1>1, <1>4, <1>5, <1>7, PlanStep DEF UndoInv, PlanInv
<1> QED
  BY <1>4, <1>6, <1>7 DEF UndoInv, PlanInv

\* A request reads the receipt of a task that is gone.
LEMMA ReadReceiptStep ==
  ASSUME TypeOK, UndoInv, NEW c \in Clients, NEW t \in Tasks, ReadReceipt(c, t)
  PROVE  TypeOK' /\ UndoInv'
<1>1. receipt[t] \in Receipts
  BY TaskTypes
<1>2. /\ pc' \in [Clients -> {"idle", "check delete", "delete", "check undo", "undo"}]
      /\ pc'[c] = (IF receipt[t].mapping.exists THEN "check undo" ELSE "undo")
      /\ \A d \in Clients : d # c => pc'[d] = pc[d]
  BY DEF ReadReceipt, TypeOK, RequestTypes
<1>3. /\ plan' \in [Clients -> [task : Tasks \cup {NoTask}, read : Receipts]]
      /\ plan'[c].task = t /\ plan'[c].read = receipt[t]
      /\ \A d \in Clients : d # c => plan'[d] = plan[d]
  <2>1. [task |-> t, read |-> receipt[t]] \in [task : Tasks \cup {NoTask}, read : Receipts]
    BY <1>1
  <2>2. /\ plan' \in [Clients -> [task : Tasks \cup {NoTask}, read : Receipts]]
        /\ plan'[c] = [task |-> t, read |-> receipt[t]]
        /\ \A d \in Clients : d # c => plan'[d] = plan[d]
    BY <2>1 DEF ReadReceipt, TypeOK, RequestTypes
  <2> QED
    BY <2>2
<1>4. RequestTypes'
  BY <1>2, <1>3 DEF TypeOK, RequestTypes
<1>5. UNCHANGED clock /\ UNCHANGED Others
  BY DEF ReadReceipt
<1>6. TypeOK' /\ RowInv' /\ PullInv' /\ HandInv' /\ TouchInv' /\ AllMove
  BY <1>4, <1>5, RequestFrame
<1>7. now <= now'
  BY <1>5 DEF TypeOK, WorldTypes, clock
<1>8. PlanOK(c)'
  <2>1. PICK read \in Receipts : read = receipt[t]
    BY <1>1
  <2>2. version' = version /\ receipt' = receipt
    BY <1>5 DEF Others, local
  <2>3. read.version # 0
    BY <2>1 DEF ReadReceipt, Active
  <2>4. version[t] = 0
    BY <2>1, <2>3 DEF UndoInv, RowInv, ReceiptOK
  <2>5. plan'[c].task = t /\ plan'[c].read = read
    BY <1>3, <2>1
  <2>6. receipt'[t].version >= read.version
    BY <2>1, <2>2, TaskTypes
  <2>7. pc'[c] = "undo" => ~read.mapping.exists
    BY <1>2, <2>1
  <2> QED
    BY <2>2, <2>3, <2>4, <2>5, <2>6, <2>7 DEF PlanOK
<1>9. ASSUME NEW d \in Clients, d # c PROVE PlanOK(d)'
  BY <1>2, <1>3, <1>6, <1>7, <1>9, PlanStep DEF UndoInv, PlanInv
<1> QED
  BY <1>6, <1>8, <1>9 DEF UndoInv, PlanInv

-----------------------------------------------------------------------------
(* Deletion, Undo and Keep Google.                                         *)

\* While no job runs there is nothing in a job's hands.
LEMMA IdleFrame ==
  ASSUME UndoInv, jpc' = "idle", UNCHANGED <<seq, token>>
  PROVE  PullInv' /\ HandInv'
BY DEF UndoInv, PullInv, HandInv, Pulling

\* A step writes the mapping of one task.
LEMMA MappingUpdate ==
  ASSUME TypeOK, NEW t \in Tasks, NEW n \in Mappings, mapping' = [mapping EXCEPT ![t] = n]
  PROVE  /\ mapping' \in [Tasks -> Mappings] /\ mapping'[t] = n
         /\ \A s \in Tasks : s # t => mapping'[s] = mapping[s]
BY DEF TypeOK, RowTypes

\* A step writes the receipt of one task.
LEMMA ReceiptUpdate ==
  ASSUME TypeOK, NEW t \in Tasks, NEW r \in Receipts, receipt' = [receipt EXCEPT ![t] = r]
  PROVE  /\ receipt' \in [Tasks -> Receipts] /\ receipt'[t] = r
         /\ \A s \in Tasks : s # t => receipt'[s] = receipt[s]
BY DEF TypeOK, RowTypes

\* The deletion of a task that is not scheduled, or whose event is clean.
LEMMA RemoveRows ==
  ASSUME TypeOK, UndoInv, NEW t \in Tasks, Deletable(t), Remove(t), UNCHANGED <<now, busy>>,
         RequestTypes'
  PROVE  TypeOK' /\ RowInv' /\ PullInv' /\ HandInv' /\ TouchInv' /\ AllMove
<1> DEFINE m == mapping[t]
           f == FocusAfter(t)
           r == [Snapshot(t) EXCEPT !.expiry = now + Window, !.mapping.legacy = FALSE,
                                    !.focus = IF t \in Focused THEN f ELSE 0]
           n == IF m.event THEN Tombstone([m EXCEPT !.legacy = FALSE], now + Window) ELSE m
<1>1. /\ m \in Mappings /\ version[t] \in Nat /\ version[t] # 0 /\ now \in Nat
      /\ now + Window \in Nat /\ now + Window > now /\ f \in Nat
  BY TaskTypes, UndoAssumption DEF Deletable, FocusAfter, TypeOK, WorldTypes
<1>2. /\ r \in Receipts
      /\ r.version = version[t] /\ r.expiry = now + Window /\ r.deps = deps
      /\ r.focus = IF t \in Focused THEN f ELSE 0
      /\ r.mapping.exists = m.exists /\ r.mapping.etag = m.etag
      /\ r.mapping.conflict = m.conflict /\ r.mapping.resolving = m.resolving
      /\ ~r.mapping.legacy
  BY <1>1, RemovedReceipt
<1>3. focus' = f /\ receipt' = [receipt EXCEPT ![t] = r]
  BY DEF Remove
<1>4. mapping' = [mapping EXCEPT ![t] = n]
  BY DEF Remove
<1>5. n \in Mappings
  BY <1>1, TombstoneFields
<1>6. m.event => /\ n.exists = m.exists /\ ~n.event /\ n.etag = m.etag /\ ~n.dirty /\ n.deleted
                 /\ n.conflict = m.conflict /\ n.tombstone /\ n.hold = now + Window
                 /\ n.resolving = m.resolving /\ ~n.legacy
  BY <1>1, TombstoneFields
<1>7. ~m.event => n = m
  OBVIOUS
<1> HIDE DEF n, r, f
<1>8. /\ mapping' \in [Tasks -> Mappings] /\ mapping'[t] = n
      /\ \A s \in Tasks : s # t => mapping'[s] = mapping[s]
  BY <1>4, <1>5, MappingUpdate
<1>9. /\ receipt' \in [Tasks -> Receipts] /\ receipt'[t] = r
      /\ \A s \in Tasks : s # t => receipt'[s] = receipt[s]
  BY <1>2, <1>3, ReceiptUpdate
<1>10. /\ version' \in [Tasks -> Nat] /\ version'[t] = 0
       /\ event' \in [Tasks -> {"none", "block", "plain"}] /\ event'[t] = "none"
       /\ \A s \in Tasks : s # t => version'[s] = version[s] /\ event'[s] = event[s]
  BY DEF Remove, TypeOK, RowTypes
<1>11. /\ UNCHANGED <<deps, open, google, token, jobVars, erased>>
       /\ touched' = (touched \ {t}) \cup (IF t \in Focused THEN Focused \ {t} ELSE {})
       /\ jpc = "idle"
  BY DEF Remove, Deletable, LockFree, SyncLockFree
<1> USE <1>11 DEF google
<1>12. TypeOK'
  BY <1>1, <1>3, <1>8, <1>9, <1>10, TypeFrame DEF TypeOK, RowTypes, WorldTypes
<1>13. Forward /\ \A s \in Tasks : SameEvent(s) /\ (s # t => SameRow(s))
  BY <1>8, <1>9, <1>10 DEF Forward, SameEvent, SameRow, TypeOK, WorldTypes
<1>14. RowOK(t) /\ ReceiptOK(t) /\ EventOK(t)
  BY DEF UndoInv, RowInv
<1>15. \/ m = NoMapping /\ event[t] = "none"
       \/ Ordinary(t) /\ event[t] = "block" /\ ~m.dirty /\ t \notin open
  BY <1>1, <1>14 DEF RowOK, Ordinary, Buried, Resolving, Deletable, CleanlyMapped
<1>16. RowOK(t)'
  <2>1. CASE m = NoMapping
    BY <1>7, <1>8, <1>10, <2>1, NoMappingFields DEF RowOK
  <2>2. CASE Ordinary(t)
    <3>1. Buried(t)'
      BY <1>6, <1>8, <1>10, <2>2 DEF Ordinary, Buried
    <3> QED
      BY <1>6, <1>8, <1>10, <1>14, <2>2, <3>1 DEF RowOK, Ordinary
  <2> QED
    BY <1>15, <2>1, <2>2
<1>17. ReceiptOK(t)'
  <2>1. CASE m = NoMapping
    BY <1>2, <1>7, <1>8, <1>9, <1>10, <2>1, NoMappingFields DEF ReceiptOK
  <2>2. CASE Ordinary(t)
    <3>1. n.legacy = r.mapping.legacy
      BY <1>2, <1>5, <1>6, <2>2, FieldTypes DEF Ordinary
    <3> QED
      BY <1>2, <1>6, <1>8, <1>9, <1>10, <2>2, <3>1 DEF ReceiptOK, Ordinary
  <2> QED
    BY <1>15, <2>1, <2>2
<1>18. EventOK(t)'
  <2>1. CASE m = NoMapping
    BY <1>2, <1>7, <1>8, <1>9, <1>10, <1>14, <2>1, NoMappingFields DEF EventOK
  <2>2. CASE Ordinary(t) /\ event[t] = "block" /\ t \notin open
    BY <1>6, <1>8, <1>9, <1>10, <1>14, <2>2 DEF EventOK, Ordinary
  <2> QED
    BY <1>15, <2>1, <2>2
<1>19. RowInv'
  BY <1>12, <1>13, <1>16, <1>17, <1>18, RowFrame DEF RowInv, Rows, UndoInv
<1>20. PullInv' /\ HandInv'
  BY IdleFrame DEF jobVars
<1>21. TouchInv'
  <2>1. receipt'[t].deps = deps' /\ (t \in Focused => receipt'[t].focus = focus')
    BY <1>2, <1>3, <1>9
  <2>2. ASSUME NEW s \in Tasks, s # t, receipt'[s].version # 0, s \notin touched'
        PROVE  receipt'[s].deps = deps' /\ (s \in Focused => receipt'[s].focus = focus')
    <3>1. receipt'[s] = receipt[s] /\ s \notin touched
      BY <1>9, <2>2
    <3>2. receipt[s].deps = deps /\ (s \in Focused => receipt[s].focus = focus)
      BY <2>2, <3>1 DEF UndoInv, TouchInv
    <3>3. s \in Focused => focus' = focus
      BY <1>3, <2>2 DEF FocusAfter, f
    <3> QED
      BY <3>1, <3>2, <3>3
  <2> QED
    BY <2>1, <2>2 DEF TouchInv
<1>22. AllMove
  <2>1. receipt[t].version = 0
    BY <1>1, <1>14 DEF ReceiptOK
  <2>2. Moves(t)
    BY <1>1, <1>2, <1>9, <1>10, <2>1 DEF Moves
  <2>3. ASSUME NEW s \in Tasks, s # t PROVE Moves(s)
    BY <1>9, <1>10, <1>13, <2>3, MovesFrame
  <2> QED
    BY <2>2, <2>3 DEF AllMove
<1> QED
  BY <1>12, <1>19, <1>20, <1>21, <1>22

LEMMA DeleteTaskStep ==
  ASSUME TypeOK, UndoInv, NEW t \in Tasks, DeleteTask(t)
  PROVE  TypeOK' /\ UndoInv'
<1>1. Deletable(t) /\ Remove(t) /\ UNCHANGED <<now, busy>> /\ UNCHANGED requests
  BY DEF DeleteTask, Edit
<1>2. TypeOK' /\ RowInv' /\ PullInv' /\ HandInv' /\ TouchInv' /\ AllMove
  BY <1>1, RemoveRows, TypeFrame
<1> QED
  BY <1>1, <1>2, PlansWait DEF UndoInv, TypeOK, WorldTypes

LEMMA CommitDeleteStep ==
  ASSUME TypeOK, UndoInv, NEW c \in Clients, CommitDelete(c)
  PROVE  TypeOK' /\ UndoInv'
<1>1. PICK t \in Tasks : t = plan[c].task
  BY DEF CommitDelete, TypeOK, RequestTypes
<1>2. Done(c) /\ UNCHANGED clock
  BY DEF CommitDelete
<1>3. CASE Deletable(t) /\ Remove(t)
  <2>1. UNCHANGED <<now, busy>> /\ RequestTypes'
    BY <1>2, DoneTypes DEF clock
  <2>2. TypeOK' /\ RowInv' /\ PullInv' /\ HandInv' /\ TouchInv' /\ AllMove
    BY <1>3, <2>1, RemoveRows
  <2> QED
    BY <1>2, <2>1, <2>2, DonePlans DEF UndoInv, TypeOK, WorldTypes
<1>4. CASE UNCHANGED Others
  BY <1>2, <1>4, InvalidStep
<1> QED
  BY <1>1, <1>3, <1>4 DEF CommitDelete

\* Undo gives the task back its mapping, which is that of an event Google still has.
LEMMA RestoreRows ==
  ASSUME TypeOK, UndoInv, NEW t \in Tasks, NEW read \in Receipts, Undoable(t, read),
         Restore(t, read), UNCHANGED <<now, busy>>, RequestTypes'
  PROVE  TypeOK' /\ RowInv' /\ PullInv' /\ HandInv' /\ TouchInv' /\ AllMove
<1> DEFINE m == mapping[t]
           k == [m EXCEPT !.event = TRUE, !.deleted = FALSE, !.dirty = FALSE,
                          !.tombstone = FALSE, !.hold = 0]
           n == IF read.mapping.exists THEN k ELSE m
<1>1. /\ m \in Mappings /\ version[t] \in Nat /\ now \in Nat /\ focus \in Nat
      /\ read.version \in Nat /\ read.expiry \in Nat
  BY TaskTypes, FieldTypes DEF TypeOK, WorldTypes
<1>2. /\ receipt[t] = read /\ read.version # 0 /\ read.expiry > now
      /\ read.mapping.exists => t \notin open
      /\ jpc = "idle"
  BY DEF Undoable, Active, LockFree, SyncLockFree
<1>3. RowOK(t) /\ ReceiptOK(t) /\ EventOK(t)
  BY DEF UndoInv, RowInv
<1>4. /\ version[t] = 0 /\ event[t] = "none"
      /\ ~read.mapping.exists => ~m.exists
      /\ read.mapping.exists => m.tombstone
  BY <1>2, <1>3 DEF ReceiptOK
<1>5. read.mapping.exists =>
         /\ m.exists /\ m.etag # 0 /\ ~m.conflict /\ ~m.resolving /\ t \in Linked
         /\ t \notin erased
  BY <1>1, <1>2, <1>3, <1>4, NoMappingFields DEF RowOK, Ordinary, Buried, Resolving, EventOK
<1>6. ~read.mapping.exists => m = NoMapping
  BY <1>3, <1>4 DEF RowOK, Ordinary, Buried, Resolving
<1>7. /\ k \in Mappings
      /\ k.exists = m.exists /\ k.event /\ k.etag = m.etag /\ ~k.dirty /\ ~k.deleted
      /\ k.conflict = m.conflict /\ ~k.tombstone /\ k.hold = 0 /\ k.resolving = m.resolving
  BY <1>1, RestoredFields
<1>8. mapping' = [mapping EXCEPT ![t] = n]
  BY DEF Restore
<1> HIDE DEF k
<1>9. /\ mapping' \in [Tasks -> Mappings] /\ mapping'[t] = n
      /\ \A s \in Tasks : s # t => mapping'[s] = mapping[s]
  <2>1. n \in Mappings
    BY <1>1, <1>7
  <2> HIDE DEF n
  <2> QED
    BY <1>8, <2>1, MappingUpdate
<1>10. /\ receipt' \in [Tasks -> Receipts] /\ receipt'[t] = NoReceipt
       /\ \A s \in Tasks : s # t => receipt'[s] = receipt[s]
  BY NoReceiptFields, ReceiptUpdate DEF Restore
<1>11. /\ version' \in [Tasks -> Nat] /\ version'[t] = read.version + 1
       /\ event' \in [Tasks -> {"none", "block", "plain"}]
       /\ event'[t] = IF read.mapping.exists THEN "block" ELSE "none"
       /\ \A s \in Tasks : s # t => version'[s] = version[s] /\ event'[s] = event[s]
  BY <1>1 DEF Restore, TypeOK, RowTypes
<1>12. /\ UNCHANGED <<deps, open, google, token, jobVars, erased>>
       /\ focus' = FocusAfter(t)
       /\ touched' = touched \cup (IF t \in Focused THEN Focused ELSE {})
  BY DEF Restore
<1> USE <1>12 DEF google
<1>13. TypeOK'
  <2>1. focus' \in Nat
    BY <1>1 DEF FocusAfter
  <2> QED
    BY <1>9, <1>10, <1>11, <2>1, TypeFrame DEF TypeOK, RowTypes, WorldTypes
<1>14. Forward /\ \A s \in Tasks : SameEvent(s) /\ (s # t => SameRow(s))
  BY <1>9, <1>10, <1>11 DEF Forward, SameEvent, SameRow, TypeOK, WorldTypes
<1>15. Rows(t)'
  <2>1. CASE ~read.mapping.exists
    BY <1>3, <1>6, <1>9, <1>10, <1>11, <2>1, NoMappingFields, NoReceiptFields
       DEF Rows, RowOK, ReceiptOK, EventOK
  <2>2. CASE read.mapping.exists
    <3>1. Ordinary(t)'
      BY <1>5, <1>7, <1>9, <1>11, <2>2 DEF Ordinary
    <3>2. RowOK(t)'
      BY <1>1, <1>5, <1>11, <2>2, <3>1 DEF RowOK
    <3>3. ReceiptOK(t)'
      BY <1>10, NoReceiptFields DEF ReceiptOK
    <3>4. EventOK(t)'
      BY <1>2, <1>3, <1>5, <1>7, <1>9, <1>11, <2>2 DEF EventOK
    <3> QED
      BY <3>2, <3>3, <3>4 DEF Rows
  <2> QED
    BY <2>1, <2>2
<1>16. RowInv'
  BY <1>13, <1>14, <1>15, RowFrame DEF RowInv, Rows, UndoInv
<1>17. PullInv' /\ HandInv'
  BY <1>2, IdleFrame DEF jobVars
<1>18. TouchInv'
  <2> SUFFICES ASSUME NEW s \in Tasks, receipt'[s].version # 0, s \notin touched'
               PROVE  receipt'[s].deps = deps' /\ (s \in Focused => receipt'[s].focus = focus')
    BY DEF TouchInv
  <2>1. s # t /\ receipt'[s] = receipt[s] /\ s \notin touched
    BY <1>10, NoReceiptFields
  <2>2. receipt[s].deps = deps /\ (s \in Focused => receipt[s].focus = focus)
    BY <2>1 DEF UndoInv, TouchInv
  <2>3. s \in Focused => focus' = focus
    BY DEF FocusAfter
  <2> QED
    BY <2>1, <2>2, <2>3
<1>19. AllMove
  <2>1. Moves(t)
    BY <1>1, <1>2, <1>10, <1>11, NoReceiptFields DEF Moves
  <2>2. ASSUME NEW s \in Tasks, s # t PROVE Moves(s)
    BY <1>10, <1>11, <1>14, <2>2, MovesFrame
  <2> QED
    BY <2>1, <2>2 DEF AllMove
<1> QED
  BY <1>13, <1>16, <1>17, <1>18, <1>19

LEMMA CommitUndoStep ==
  ASSUME TypeOK, UndoInv, NEW c \in Clients, CommitUndo(c)
  PROVE  TypeOK' /\ UndoInv'
<1>1. PICK t \in Tasks : t = plan[c].task
  BY DEF CommitUndo, TypeOK, RequestTypes
<1>2. PICK read \in Receipts : read = plan[c].read
  BY DEF TypeOK, RequestTypes
<1>3. Done(c) /\ UNCHANGED clock
  BY DEF CommitUndo
<1>4. CASE Undoable(t, read) /\ Restore(t, read)
  <2>1. UNCHANGED <<now, busy>> /\ RequestTypes'
    BY <1>3, DoneTypes DEF clock
  <2>2. TypeOK' /\ RowInv' /\ PullInv' /\ HandInv' /\ TouchInv' /\ AllMove
    BY <1>4, <2>1, RestoreRows
  <2> QED
    BY <1>3, <2>1, <2>2, DonePlans DEF UndoInv, TypeOK, WorldTypes
<1>5. CASE UNCHANGED Others
  BY <1>3, <1>5, InvalidStep
<1> QED
  BY <1>1, <1>2, <1>4, <1>5 DEF CommitUndo

\* The user keeps Google's version of the event: Undo is over and a job looks it up.
LEMMA KeepGoogleStep ==
  ASSUME TypeOK, UndoInv, NEW t \in Tasks, KeepGoogle(t)
  PROVE  TypeOK' /\ UndoInv'
<1> DEFINE m == mapping[t]
           n == [m EXCEPT !.tombstone = FALSE, !.hold = 0, !.resolving = TRUE, !.conflict = FALSE,
                          !.dirty = FALSE, !.deleted = FALSE, !.etag = 0]
<1>1. m \in Mappings /\ gver[t] \in Nat /\ seq \in Nat /\ token \in Nat /\ version[t] \in Nat
  BY TaskTypes
<1>2. /\ t \in open /\ jpc = "idle" /\ m.tombstone
      /\ open' = open \ {t}
      /\ UNCHANGED <<clock, local, google, token, requests, jobVars, erased, touched>>
  BY DEF KeepGoogle, SyncLockFree
<1>3. /\ n \in Mappings
      /\ n.exists = m.exists /\ n.event = m.event /\ n.etag = 0 /\ ~n.dirty /\ ~n.deleted
      /\ ~n.conflict /\ ~n.tombstone /\ n.hold = 0 /\ n.resolving
  BY <1>1, KeptFields
<1>4. mapping' = [mapping EXCEPT ![t] = n]
  BY DEF KeepGoogle
<1> HIDE DEF n
<1>5. /\ mapping' \in [Tasks -> Mappings] /\ mapping'[t] = n
      /\ \A s \in Tasks : s # t => mapping'[s] = mapping[s]
  BY <1>3, <1>4, MappingUpdate
<1>6. /\ receipt' \in [Tasks -> Receipts] /\ receipt'[t] = NoReceipt
      /\ \A s \in Tasks : s # t => receipt'[s] = receipt[s]
  BY NoReceiptFields, ReceiptUpdate DEF KeepGoogle
<1> USE <1>2 DEF google, clock, local
<1>7. TypeOK'
  BY <1>5, <1>6, TypeFrame DEF TypeOK, RowTypes, WorldTypes
<1>8. Forward /\ \A s \in Tasks : SameEvent(s) /\ (s # t => SameRow(s))
  BY <1>5, <1>6 DEF Forward, SameEvent, SameRow, TypeOK, WorldTypes
<1>9. RowOK(t) /\ EventOK(t) /\ token <= seq
  BY DEF UndoInv, RowInv, PullInv
<1>10. Buried(t)
  BY <1>9, NoMappingFields DEF RowOK, Ordinary, Resolving
<1>11. Resolving(t)'
  BY <1>3, <1>5, <1>6, <1>10, NoReceiptFields DEF Buried, Resolving
<1>12. RowOK(t)'
  BY <1>3, <1>5, <1>9, <1>10, <1>11 DEF RowOK, Buried
<1>13. ReceiptOK(t)'
  BY <1>6, NoReceiptFields DEF ReceiptOK
<1>14. EventOK(t)'
  <2>1. glive[t] => ~(gver[t] <= token)
    BY <1>9 DEF EventOK
  <2>2. gver[t] <= seq /\ (glive[t] => t \in Linked /\ m.exists /\ gver[t] # 0)
        /\ (t \in erased => ~glive[t] /\ event[t] # "block")
    BY <1>9 DEF EventOK
  <2>3. n.etag <= seq /\ n.etag <= gver[t]
    BY <1>1, <1>3
  <2> QED
    BY <1>3, <1>5, <1>6, <2>1, <2>2, <2>3, NoReceiptFields DEF EventOK
<1>15. RowInv'
  BY <1>7, <1>8, <1>12, <1>13, <1>14, RowFrame DEF RowInv, Rows, UndoInv
<1>16. PullInv' /\ HandInv'
  BY IdleFrame DEF jobVars
<1>17. TouchInv'
  BY <1>6, NoReceiptFields DEF UndoInv, TouchInv
<1>18. AllMove
  <2>1. Moves(t)
    BY <1>1, <1>6, <1>8, NoReceiptFields DEF Moves, SameEvent
  <2>2. ASSUME NEW s \in Tasks, s # t PROVE Moves(s)
    BY <1>6, <1>8, <2>2, MovesFrame
  <2> QED
    BY <2>1, <2>2 DEF AllMove
<1> QED
  BY <1>7, <1>8, <1>15, <1>16, <1>17, <1>18, PlansWait DEF UndoInv, Forward

-----------------------------------------------------------------------------
(* The pull: one change after the other.                                   *)

\* A job changes nothing that a receipt compares, and drops receipts at most.
LEMMA JobFrame ==
  ASSUME TypeOK, TypeOK', UndoInv, RowInv', PullInv', HandInv', AllMove, UNCHANGED Job0,
         \A s \in Tasks : receipt'[s] = receipt[s] \/ receipt'[s] = NoReceipt
  PROVE  UndoInv'
<1> USE DEF Job0
<1>1. TouchInv'
  BY NoReceiptFields DEF UndoInv, TouchInv
<1>2. now <= now' /\ UNCHANGED requests
  BY DEF TypeOK, WorldTypes, requests
<1> QED
  BY <1>1, <1>2, PlansWait DEF UndoInv

\* What is known of the change that a job takes from its list.
LEMMA TakeFacts ==
  ASSUME TypeOK, UndoInv, NEW item \in inbox, Take(item)
  PROVE  /\ item.task \in Linked /\ item.task \in Tasks /\ item.ver \in Nat /\ item.live \in BOOLEAN
         /\ ItemOK(item) /\ Listed(item.task) /\ Rows(item.task)
         /\ token <= mark /\ mark <= seq /\ token \in Nat /\ mark \in Nat /\ seq \in Nat
         /\ jpc = "pull" /\ inbox' = inbox \ {item}
         /\ UNCHANGED <<Job0, google, token, mark, work, erased>>
<1>1. /\ jpc = "pull" /\ inbox' = inbox \ {item}
      /\ UNCHANGED <<Job0, google, token, mark, work, erased>>
  BY DEF Take
<1>2. item.task \in Linked /\ item.ver \in Nat /\ item.live \in BOOLEAN
  BY DEF TypeOK, JobTypes
<1>3. item.task \in Tasks
  BY <1>2, UndoAssumption
<1>4. Rows(item.task)
  BY <1>3 DEF UndoInv, RowInv, Rows
<1>5. Pulling
  BY <1>1 DEF Pulling
<1>6. ItemOK(item) /\ Listed(item.task) /\ token <= mark /\ mark <= seq
  BY <1>2, <1>5 DEF UndoInv, PullInv
<1> QED
  BY <1>1, <1>2, <1>3, <1>4, <1>6 DEF TypeOK, WorldTypes, JobTypes

\* The list without the change that was taken.
LEMMA ApplyPull ==
  ASSUME TypeOK, UndoInv, NEW item \in inbox, Take(item), jpc' \in {"pull", "mark"},
         \A s \in Tasks : s # item.task => mapping'[s] = mapping[s],
         Listed(item.task)'
  PROVE  PullInv'
<1> USE UndoAssumption
<1>1. /\ jpc = "pull" /\ inbox' = inbox \ {item} /\ token <= mark /\ mark <= seq
      /\ UNCHANGED <<google, token, mark>>
  BY TakeFacts
<1>2. /\ token <= seq
      /\ \A other \in inbox : ItemOK(other)
      /\ \A one, other \in inbox : one.task = other.task => one = other
      /\ \A t \in Linked : Listed(t)
  BY <1>1 DEF UndoInv, PullInv, Pulling
<1>3. ASSUME NEW other \in inbox' PROVE ItemOK(other)'
  <2>1. ItemOK(other) /\ other.task \in Tasks /\ other.task # item.task
    BY <1>1, <1>2 DEF TypeOK, JobTypes
  <2> QED
    BY <1>1, <2>1 DEF ItemOK, google
<1>4. ASSUME NEW t \in Linked, t # item.task PROVE Listed(t)'
  <2>1. Listed(t) /\ mapping'[t] = mapping[t]
    BY <1>2, <1>4
  <2> QED
    BY <1>1, <1>4, <2>1 DEF Listed, google
<1> QED
  BY <1>1, <1>2, <1>3, <1>4 DEF PullInv, google

\* The types of the job's own state when it takes a change.
LEMMA ApplyTypes ==
  ASSUME TypeOK, NEW item \in inbox, Take(item),
         jpc' \in {"pull", "mark"}, open' \subseteq Linked,
         version' \in [Tasks -> Nat], event' \in [Tasks -> {"none", "block", "plain"}],
         mapping' \in [Tasks -> Mappings], receipt' \in [Tasks -> Receipts]
  PROVE  TypeOK'
<1>1. RequestTypes'
  BY TypeFrame DEF Take, Job0, requests
<1>2. JobTypes'
  BY DEF TypeOK, JobTypes, Take
<1>3. RowTypes' /\ WorldTypes'
  BY DEF TypeOK, RowTypes, WorldTypes, Take, Job0, google
<1> QED
  BY <1>1, <1>2, <1>3 DEF TypeOK

\* Nothing is known here of what an unchanged or an unknown cancelled event could change.
LEMMA SkipChangeStep ==
  ASSUME TypeOK, UndoInv, NEW item \in inbox, SkipChange(item)
  PROVE  TypeOK' /\ UndoInv'
<1>1. /\ Take(item) /\ UNCHANGED <<version, event, mapping, open, receipt, jpc>>
      /\ item.live => mapping[item.task].etag = item.ver
  BY DEF SkipChange, sync
<1>2. /\ item.task \in Linked /\ item.task \in Tasks /\ ItemOK(item)
      /\ jpc = "pull" /\ UNCHANGED <<Job0, google, token, mark, work, erased>>
  BY <1>1, TakeFacts
<1>3. TypeOK'
  BY <1>1, <1>2, ApplyTypes DEF TypeOK, RowTypes, WorldTypes
<1>4. Forward /\ \A s \in Tasks : SameRow(s) /\ SameEvent(s)
  BY <1>1, <1>2 DEF Forward, SameRow, SameEvent, TypeOK, WorldTypes, google, Job0
<1>5. Listed(item.task)'
  <2>1. glive[item.task] /\ gver[item.task] <= mark => mapping[item.task].etag = gver[item.task]
    <3>1. gver[item.task] \in Nat /\ mark \in Nat
      BY <1>2, TaskTypes
    <3> QED
      BY <1>1, <1>2, <3>1 DEF ItemOK
  <2> QED
    BY <1>1, <1>2, <2>1 DEF Listed, google
<1>6. PullInv'
  BY <1>1, <1>2, <1>5, ApplyPull
<1>7. RowInv'
  BY <1>3, <1>4, RowFrame DEF UndoInv, RowInv, Rows
<1>8. HandInv'
  BY <1>1, <1>2 DEF HandInv
<1>9. AllMove
  BY <1>4, <1>2, MovesFrame DEF AllMove, SameRow, Job0
<1> QED
  BY <1>1, <1>2, <1>3, <1>6, <1>7, <1>8, <1>9, JobFrame

\* A deleted task's event that was cancelled in Google: nothing is left of either.
LEMMA DropCancelledStep ==
  ASSUME TypeOK, UndoInv, NEW item \in inbox, DropCancelled(item)
  PROVE  TypeOK' /\ UndoInv'
<1> DEFINE t == item.task
<1>1. /\ Take(item) /\ UNCHANGED <<version, event, jpc>> /\ open' = open \ {t}
      /\ ~item.live /\ mapping[t].tombstone
      /\ receipt' = [receipt EXCEPT ![t] = NoReceipt]
      /\ mapping' = [mapping EXCEPT ![t] = NoMapping]
  BY DEF DropCancelled, Held
<1>2. /\ t \in Linked /\ t \in Tasks /\ ItemOK(item) /\ Rows(t)
      /\ jpc = "pull" /\ UNCHANGED <<Job0, google, token, mark, work, erased>>
  BY <1>1, TakeFacts
<1> HIDE DEF t
<1>3. /\ mapping' \in [Tasks -> Mappings] /\ mapping'[t] = NoMapping
      /\ \A s \in Tasks : s # t => mapping'[s] = mapping[s]
  BY <1>1, <1>2, NoMappingFields, MappingUpdate
<1>4. /\ receipt' \in [Tasks -> Receipts] /\ receipt'[t] = NoReceipt
      /\ \A s \in Tasks : s # t => receipt'[s] = receipt[s]
  BY <1>1, <1>2, NoReceiptFields, ReceiptUpdate
<1>5. TypeOK'
  BY <1>1, <1>2, <1>3, <1>4, ApplyTypes DEF TypeOK, RowTypes, WorldTypes
<1>6. Forward /\ \A s \in Tasks : SameEvent(s) /\ (s # t => SameRow(s))
  BY <1>1, <1>2, <1>3, <1>4 DEF Forward, SameRow, SameEvent, TypeOK, WorldTypes, google, Job0
<1>7. ~glive[t]
  BY <1>1, <1>2 DEF ItemOK, t
<1>8. Rows(t)'
  <2>1. Buried(t)
    BY <1>1, <1>2, NoMappingFields DEF Rows, RowOK, Ordinary, Resolving
  <2>2. RowOK(t)' /\ ReceiptOK(t)'
    BY <1>1, <1>3, <1>4, <2>1, NoMappingFields, NoReceiptFields DEF RowOK, ReceiptOK, Buried
  <2>3. gver[t] <= seq /\ 0 <= seq
    BY <1>2, TaskTypes DEF Rows, EventOK
  <2>4. EventOK(t)'
    BY <1>1, <1>2, <1>3, <1>4, <1>7, <2>1, <2>3, NoMappingFields, NoReceiptFields
       DEF EventOK, google, Buried
  <2> QED
    BY <2>2, <2>4 DEF Rows
<1>9. RowInv'
  BY <1>5, <1>6, <1>8, RowFrame DEF UndoInv, RowInv, Rows
<1>10. Listed(t)'
  BY <1>2, <1>7 DEF Listed, google
<1>11. PullInv'
  BY <1>1, <1>2, <1>3, <1>10, ApplyPull DEF t
<1>12. HandInv'
  BY <1>1, <1>2 DEF HandInv
<1>13. AllMove
  <2>1. Moves(t)
    BY <1>1, <1>2, <1>4, <1>6, NoReceiptFields, TaskTypes DEF Moves, SameEvent, Job0
  <2>2. ASSUME NEW s \in Tasks, s # t PROVE Moves(s)
    BY <1>1, <1>2, <1>4, <1>6, <2>2, MovesFrame DEF Job0
  <2> QED
    BY <2>1, <2>2 DEF AllMove
<1> QED
  BY <1>2, <1>4, <1>5, <1>9, <1>11, <1>12, <1>13, JobFrame

\* A conflict about a tombstone: Google has a later version than the one deleted here.
LEMMA OpenConflictStep ==
  ASSUME TypeOK, UndoInv, NEW item \in inbox, OpenConflict(item)
  PROVE  TypeOK' /\ UndoInv'
<1> DEFINE t == item.task
<1>1. /\ Take(item) /\ UNCHANGED <<version, event, mapping, receipt>>
      /\ open' = open \cup {t} /\ cur' = t /\ jpc' = "mark"
      /\ item.live /\ mapping[t].tombstone /\ mapping[t].etag # item.ver
  BY DEF OpenConflict, Held
<1>2. /\ t \in Linked /\ t \in Tasks /\ ItemOK(item) /\ Rows(t) /\ item.ver \in Nat
      /\ mark \in Nat /\ UNCHANGED <<Job0, google, token, mark, work, erased>>
  BY <1>1, TakeFacts
<1>3. glive[t] => mapping[t].etag # gver[t]
  <2>1. /\ mapping[t].etag <= item.ver /\ item.ver <= mark
        /\ gver[t] # item.ver => gver[t] > mark
    BY <1>1, <1>2 DEF ItemOK
  <2>2. mapping[t].etag \in Nat /\ gver[t] \in Nat
    BY <1>2, TaskTypes
  <2> HIDE DEF t
  <2> QED
    BY <1>1, <1>2, <2>1, <2>2
<1> HIDE DEF t
<1>4. TypeOK'
  BY <1>1, <1>2, ApplyTypes DEF TypeOK, RowTypes, WorldTypes
<1>5. Forward /\ \A s \in Tasks : SameEvent(s) /\ (s # t => SameRow(s))
  BY <1>1, <1>2 DEF Forward, SameRow, SameEvent, TypeOK, WorldTypes, google, Job0
<1>6. Rows(t)'
  BY <1>1, <1>2, <1>3
     DEF Rows, RowOK, Ordinary, Buried, Resolving, ReceiptOK, EventOK, google, Job0
<1>7. RowInv'
  BY <1>4, <1>5, <1>6, RowFrame DEF UndoInv, RowInv, Rows
<1>8. PullInv'
  <2>1. Listed(t)'
    BY <1>1 DEF Listed
  <2> QED
    BY <1>1, <2>1, ApplyPull DEF t
<1>9. HandInv'
  BY <1>1, <1>2 DEF HandInv
<1>10. AllMove
  BY <1>1, <1>2, <1>5, MovesFrame DEF AllMove, Job0
<1> QED
  BY <1>1, <1>2, <1>4, <1>7, <1>8, <1>9, <1>10, JobFrame

\* The mapping shows the conflict in a statement of its own.
LEMMA MarkConflictStep ==
  ASSUME TypeOK, UndoInv, MarkConflict
  PROVE  TypeOK' /\ UndoInv'
<1> USE UndoAssumption
<1>1. PICK t \in Tasks : t = cur /\ t \in Linked /\ t \in open
  BY DEF MarkConflict, UndoInv, HandInv
<1> DEFINE m == mapping[t]
           n == [m EXCEPT !.conflict = TRUE]
<1>2. m \in Mappings
  BY TaskTypes
<1>3. /\ n \in Mappings
      /\ n.exists = m.exists /\ n.event = m.event /\ n.etag = m.etag /\ n.dirty = m.dirty
      /\ n.deleted = m.deleted /\ n.conflict /\ n.tombstone = m.tombstone
      /\ n.hold = m.hold /\ n.resolving = m.resolving /\ n.legacy = m.legacy
  BY <1>2, ConflictFields
<1>4. /\ mapping' = [mapping EXCEPT ![t] = n]
      /\ jpc = "mark" /\ jpc' = "drop"
      /\ UNCHANGED <<Job0, version, event, open, receipt, google, token, inbox, cur, mark, work, erased>>
  BY <1>1 DEF MarkConflict
<1> HIDE DEF n
<1>5. /\ mapping' \in [Tasks -> Mappings] /\ mapping'[t] = n
      /\ \A s \in Tasks : s # t => mapping'[s] = mapping[s]
  BY <1>3, <1>4, MappingUpdate
<1>6. TypeOK'
  <2>1. JobTypes'
    BY <1>4 DEF TypeOK, JobTypes
  <2>2. RequestTypes'
    BY <1>4, TypeFrame DEF Job0, requests
  <2>3. RowTypes' /\ WorldTypes'
    BY <1>4, <1>5 DEF TypeOK, RowTypes, WorldTypes, Job0, google
  <2> QED
    BY <2>1, <2>2, <2>3 DEF TypeOK
<1>7. Forward /\ \A s \in Tasks : SameEvent(s) /\ (s # t => SameRow(s))
  BY <1>4, <1>5 DEF Forward, SameRow, SameEvent, TypeOK, WorldTypes, google, Job0
<1>8. Rows(t) /\ m.tombstone
  BY <1>1 DEF UndoInv, RowInv, Rows, EventOK
<1>9. Buried(t)
  BY <1>8, NoMappingFields DEF Rows, RowOK, Ordinary, Resolving
<1>10. Rows(t)'
  <2>1. Buried(t)'
    BY <1>3, <1>4, <1>5, <1>9 DEF Buried
  <2>2. RowOK(t)'
    BY <1>1, <1>4, <1>8, <1>9, <2>1 DEF Rows, RowOK, Buried
  <2>3. ReceiptOK(t)'
    BY <1>3, <1>4, <1>5, <1>8 DEF Rows, ReceiptOK, Job0
  <2>4. EventOK(t)'
    BY <1>1, <1>3, <1>4, <1>5, <1>8 DEF Rows, EventOK, Job0, google
  <2> QED
    BY <2>2, <2>3, <2>4 DEF Rows
<1>11. RowInv'
  BY <1>6, <1>7, <1>10, RowFrame DEF UndoInv, RowInv, Rows
<1>12. /\ token <= seq /\ token <= mark /\ mark <= seq
       /\ \A item \in inbox : ItemOK(item)
       /\ \A one, other \in inbox : one.task = other.task => one = other
       /\ \A s \in Linked : Listed(s)
  BY <1>4 DEF UndoInv, PullInv, Pulling
<1>13. \A item \in inbox' : ItemOK(item)'
  <2> SUFFICES ASSUME NEW item \in inbox PROVE ItemOK(item)'
    BY <1>4
  <2>1. item.task \in Tasks /\ ItemOK(item)
    BY <1>12 DEF TypeOK, JobTypes
  <2>2. mapping'[item.task].exists = mapping[item.task].exists
        /\ mapping'[item.task].etag = mapping[item.task].etag
    BY <1>3, <1>5, <2>1
  <2> QED
    BY <1>4, <2>1, <2>2 DEF ItemOK, google
<1>14. \A s \in Linked : Listed(s)'
  <2> SUFFICES ASSUME NEW s \in Linked PROVE Listed(s)'
    OBVIOUS
  <2>1. CASE s = t
    BY <1>3, <1>5, <2>1 DEF Listed
  <2>2. CASE s # t
    <3>1. Listed(s) /\ mapping'[s] = mapping[s]
      BY <1>5, <1>12, <2>2
    <3> QED
      BY <1>1, <1>4, <2>2, <3>1 DEF Listed, google
  <2> QED
    BY <2>1, <2>2
<1>15. PullInv'
  BY <1>4, <1>12, <1>13, <1>14 DEF PullInv, google
<1>16. HandInv'
  BY <1>1, <1>4 DEF HandInv
<1>17. AllMove
  BY <1>4, <1>7, MovesFrame DEF AllMove, Job0
<1> QED
  BY <1>4, <1>6, <1>11, <1>15, <1>16, <1>17, JobFrame

\* The receipt goes when the conflict is on record: Undo is over.
LEMMA DropReceiptStep ==
  ASSUME TypeOK, UndoInv, DropReceipt
  PROVE  TypeOK' /\ UndoInv'
<1> USE UndoAssumption
<1>1. PICK t \in Tasks : t = cur
  BY DEF DropReceipt, UndoInv, HandInv
<1>2. /\ receipt' = [receipt EXCEPT ![t] = NoReceipt]
      /\ jpc = "drop" /\ jpc' = "pull"
      /\ UNCHANGED <<Job0, version, event, sync, google, token, inbox, mark, work, erased>>
  BY <1>1 DEF DropReceipt
<1>3. /\ receipt' \in [Tasks -> Receipts] /\ receipt'[t] = NoReceipt
      /\ \A s \in Tasks : s # t => receipt'[s] = receipt[s]
  BY <1>2, NoReceiptFields, ReceiptUpdate
<1>4. TypeOK'
  <2>1. JobTypes'
    BY <1>2 DEF TypeOK, JobTypes
  <2>2. RequestTypes'
    BY <1>2, TypeFrame DEF Job0, requests
  <2>3. RowTypes' /\ WorldTypes'
    BY <1>2, <1>3 DEF TypeOK, RowTypes, WorldTypes, Job0, google, sync
  <2> QED
    BY <2>1, <2>2, <2>3 DEF TypeOK
<1>5. Forward /\ \A s \in Tasks : SameEvent(s) /\ (s # t => SameRow(s))
  BY <1>2, <1>3 DEF Forward, SameRow, SameEvent, TypeOK, WorldTypes, google, Job0, sync
<1>6. Rows(t)'
  <2>1. Rows(t)
    BY DEF UndoInv, RowInv, Rows
  <2> QED
    BY <1>2, <1>3, <2>1, NoReceiptFields
       DEF Rows, RowOK, Ordinary, Buried, Resolving, ReceiptOK, EventOK, Job0, google, sync
<1>7. RowInv'
  BY <1>4, <1>5, <1>6, RowFrame DEF UndoInv, RowInv, Rows
<1>8. PullInv'
  <2>1. /\ token <= seq /\ token <= mark /\ mark <= seq
        /\ \A item \in inbox : ItemOK(item)
        /\ \A one, other \in inbox : one.task = other.task => one = other
        /\ \A s \in Linked : Listed(s)
    BY <1>2 DEF UndoInv, PullInv, Pulling
  <2>2. \A item \in inbox' : ItemOK(item)'
    BY <1>2, <2>1 DEF ItemOK, google, sync
  <2>3. \A s \in Linked : Listed(s)'
    BY <1>2, <2>1 DEF Listed, google, sync
  <2> QED
    BY <1>2, <2>1, <2>2, <2>3 DEF PullInv, google
<1>9. HandInv'
  BY <1>2 DEF HandInv
<1>10. AllMove
  <2>1. Moves(t)
    BY <1>2, <1>3, NoReceiptFields, TaskTypes DEF Moves
  <2>2. ASSUME NEW s \in Tasks, s # t PROVE Moves(s)
    BY <1>2, <1>3, <1>5, <2>2, MovesFrame DEF Job0
  <2> QED
    BY <2>1, <2>2 DEF AllMove
<1> QED
  BY <1>2, <1>3, <1>4, <1>7, <1>8, <1>9, <1>10, JobFrame

\* Taking over an event: the mapping is ordinary again, and the task is there if it was.
LEMMA ImportRow ==
  ASSUME TypeOK, NEW t \in Linked, NEW ver \in Nat, Import(t, ver),
         Rows(t), mapping[t].exists, ~mapping[t].tombstone, ver # 0, ver <= seq,
         glive[t] => ver <= gver[t], glive[t] /\ gver[t] <= token' => ver = gver[t],
         UNCHANGED <<now, google, erased>>
  PROVE  /\ version' \in [Tasks -> Nat] /\ event' \in [Tasks -> {"none", "block", "plain"}]
         /\ mapping' \in [Tasks -> Mappings] /\ receipt' \in [Tasks -> Receipts]
         /\ open' = open /\ receipt' = receipt
         /\ mapping'[t].exists /\ mapping'[t].etag = ver
         /\ \A s \in Tasks : s # t => SameRow(s)
         /\ version'[t] # version[t] => version[t] # 0 /\ version'[t] >= version[t]
         /\ Rows(t)'
<1> USE UndoAssumption
<1>1. /\ t \in Tasks /\ version[t] \in Nat /\ event[t] \in {"none", "block", "plain"}
      /\ gver[t] \in Nat
  BY TaskTypes
<1> DEFINE n == CleanMapping(ver)
<1>2. /\ n \in Mappings
      /\ n.exists /\ n.event /\ n.etag = ver /\ ~n.dirty /\ ~n.deleted /\ ~n.conflict
      /\ ~n.tombstone /\ n.hold = 0 /\ ~n.resolving /\ ~n.legacy
  BY CleanFields
<1>3. mapping' = [mapping EXCEPT ![t] = n] /\ open' = open /\ receipt' = receipt
  BY DEF Import
<1> HIDE DEF n
<1>4. /\ mapping' \in [Tasks -> Mappings] /\ mapping'[t] = n
      /\ \A s \in Tasks : s # t => mapping'[s] = mapping[s]
  BY <1>1, <1>2, <1>3, MappingUpdate
<1>5. /\ version' \in [Tasks -> Nat]
      /\ version'[t] = IF event[t] = "block" THEN version[t] + 1 ELSE version[t]
      /\ \A s \in Tasks : s # t => version'[s] = version[s]
  BY <1>1 DEF Import, TypeOK, RowTypes
<1>6. /\ event' \in [Tasks -> {"none", "block", "plain"}]
      /\ event'[t] = IF event[t] = "none" THEN "plain" ELSE event[t]
      /\ \A s \in Tasks : s # t => event'[s] = event[s]
  BY <1>1 DEF Import, TypeOK, RowTypes
<1>7. Ordinary(t) \/ Resolving(t)
  BY NoMappingFields DEF Rows, RowOK, Buried
<1>8. receipt[t].version = 0 /\ (event[t] = "none" => version[t] = 0)
  BY <1>1, <1>7 DEF Rows, ReceiptOK, Ordinary, Resolving
<1>9. Ordinary(t)'
  BY <1>1, <1>2, <1>4, <1>6 DEF Ordinary
<1>10. RowOK(t)'
  BY <1>1, <1>5, <1>6, <1>8, <1>9 DEF Rows, RowOK
<1>11. ReceiptOK(t)'
  BY <1>3, <1>8 DEF ReceiptOK
<1>12. EventOK(t)'
  BY <1>1, <1>2, <1>3, <1>4, <1>6, <1>8 DEF Rows, EventOK, google
<1>13. version'[t] # version[t] => version[t] # 0 /\ version'[t] >= version[t]
  BY <1>1, <1>5 DEF Rows, RowOK
<1> QED
  BY <1>2, <1>3, <1>4, <1>5, <1>6, <1>10, <1>11, <1>12, <1>13 DEF Rows, SameRow, TypeOK, RowTypes

\* Taking over a deletion: neither mapping nor conflict is left, the task loses its block.
LEMMA CancelRow ==
  ASSUME TypeOK, NEW t \in Linked, Cancel(t),
         Rows(t), mapping[t].exists, ~mapping[t].tombstone, ~glive[t],
         UNCHANGED <<now, google, erased>>
  PROVE  /\ version' \in [Tasks -> Nat] /\ event' \in [Tasks -> {"none", "block", "plain"}]
         /\ mapping' \in [Tasks -> Mappings] /\ receipt' \in [Tasks -> Receipts]
         /\ open' \subseteq open /\ receipt' = receipt
         /\ \A s \in Tasks : s # t => SameRow(s)
         /\ version'[t] # version[t] => version[t] # 0 /\ version'[t] >= version[t]
         /\ Rows(t)'
<1> USE UndoAssumption
<1>1. /\ t \in Tasks /\ version[t] \in Nat /\ event[t] \in {"none", "block", "plain"}
      /\ gver[t] \in Nat /\ seq \in Nat
  BY TaskTypes
<1>2. /\ mapping' = [mapping EXCEPT ![t] = NoMapping] /\ receipt' = receipt
      /\ open' = open \ {t}
  BY DEF Cancel
<1>3. /\ mapping' \in [Tasks -> Mappings] /\ mapping'[t] = NoMapping
      /\ \A s \in Tasks : s # t => mapping'[s] = mapping[s]
  BY <1>1, <1>2, NoMappingFields, MappingUpdate
<1>4. /\ version' \in [Tasks -> Nat]
      /\ version'[t] = IF event[t] = "block" THEN version[t] + 1 ELSE version[t]
      /\ \A s \in Tasks : s # t => version'[s] = version[s]
  BY <1>1 DEF Cancel, TypeOK, RowTypes
<1>5. /\ event' \in [Tasks -> {"none", "block", "plain"}] /\ event'[t] = "none"
      /\ \A s \in Tasks : s # t => event'[s] = event[s]
  BY <1>1 DEF Cancel, TypeOK, RowTypes
<1>6. Ordinary(t) \/ Resolving(t)
  BY NoMappingFields DEF Rows, RowOK, Buried
<1>7. receipt[t].version = 0
  BY <1>1, <1>6 DEF Rows, ReceiptOK, Ordinary, Resolving
<1>8. RowOK(t)'
  BY <1>3, <1>5, NoMappingFields DEF RowOK
<1>9. ReceiptOK(t)'
  BY <1>2, <1>7 DEF ReceiptOK
<1>10. EventOK(t)'
  BY <1>1, <1>2, <1>3, <1>5, <1>7, NoMappingFields DEF Rows, EventOK, google
<1>11. version'[t] # version[t] => version[t] # 0 /\ version'[t] >= version[t]
  BY <1>1, <1>4 DEF Rows, RowOK
<1> QED
  BY <1>2, <1>3, <1>4, <1>5, <1>8, <1>9, <1>10, <1>11 DEF Rows, SameRow, TypeOK, RowTypes

\* A request waits while a job takes over a change: a version grows, no receipt changes.
LEMMA TakenMoves ==
  ASSUME TypeOK, NEW t \in Tasks, receipt' = receipt, \A s \in Tasks : s # t => SameRow(s),
         version'[t] # version[t] => version[t] # 0 /\ version'[t] >= version[t],
         UNCHANGED <<google, touched>>
  PROVE  AllMove
<1>1. \A s \in Tasks : SameEvent(s)
  BY DEF SameEvent, google
<1>2. Moves(t)
  BY <1>1, TaskTypes DEF Moves, SameEvent
<1>3. ASSUME NEW s \in Tasks, s # t PROVE Moves(s)
  BY <1>1, <1>3, MovesFrame DEF SameRow
<1> QED
  BY <1>2, <1>3 DEF AllMove

\* Google's version of an ordinary event, or of one the user chose to keep, is taken over.
LEMMA TakeChangeStep ==
  ASSUME TypeOK, UndoInv, NEW item \in inbox, TakeChange(item)
  PROVE  TypeOK' /\ UndoInv'
<1> DEFINE t == item.task
           ver == item.ver
<1>1. /\ Take(item) /\ jpc' = jpc /\ cur' = cur /\ Import(t, ver)
      /\ item.live /\ ~mapping[t].tombstone
  BY DEF TakeChange, Held
<1>2. /\ t \in Linked /\ t \in Tasks /\ ItemOK(item) /\ Rows(t) /\ ver \in Nat
      /\ mark \in Nat /\ token \in Nat /\ seq \in Nat /\ jpc = "pull" /\ token <= mark /\ mark <= seq
      /\ UNCHANGED <<Job0, google, token, mark, work, erased>>
  BY <1>1, TakeFacts
<1>3. /\ mapping[t].exists /\ ver # 0 /\ ver <= mark
      /\ gver[t] # ver => gver[t] > mark
  BY <1>1, <1>2 DEF ItemOK
<1> HIDE DEF t, ver
<1>4. gver[t] \in Nat
  BY <1>2, TaskTypes
<1>5. /\ ver <= seq /\ ver <= gver[t] /\ (gver[t] <= token => ver = gver[t])
      /\ (gver[t] <= mark => ver = gver[t])
  BY <1>2, <1>3, <1>4
<1>6. /\ version' \in [Tasks -> Nat] /\ event' \in [Tasks -> {"none", "block", "plain"}]
      /\ mapping' \in [Tasks -> Mappings] /\ receipt' \in [Tasks -> Receipts]
      /\ open' = open /\ receipt' = receipt
      /\ mapping'[t].etag = ver
      /\ \A s \in Tasks : s # t => SameRow(s)
      /\ version'[t] # version[t] => version[t] # 0 /\ version'[t] >= version[t]
      /\ Rows(t)'
  BY <1>1, <1>2, <1>3, <1>5, ImportRow DEF Job0
<1>7. TypeOK'
  BY <1>1, <1>2, <1>6, ApplyTypes DEF TypeOK, WorldTypes
<1>8. Forward /\ \A s \in Tasks : SameEvent(s)
  BY <1>2 DEF Forward, SameEvent, TypeOK, WorldTypes, google, Job0
<1>9. RowInv'
  BY <1>6, <1>7, <1>8, RowFrame DEF UndoInv, RowInv, Rows
<1>10. PullInv'
  <2>1. Listed(t)'
    BY <1>2, <1>5, <1>6 DEF Listed, google
  <2> QED
    BY <1>1, <1>2, <1>6, <2>1, ApplyPull DEF t, SameRow
<1>11. HandInv'
  BY <1>1, <1>2 DEF HandInv
<1>12. AllMove
  BY <1>2, <1>6, TakenMoves DEF Job0
<1> QED
  BY <1>2, <1>6, <1>7, <1>9, <1>10, <1>11, <1>12, JobFrame

LEMMA TakeDeletionStep ==
  ASSUME TypeOK, UndoInv, NEW item \in inbox, TakeDeletion(item)
  PROVE  TypeOK' /\ UndoInv'
<1> DEFINE t == item.task
<1>1. /\ Take(item) /\ jpc' = jpc /\ cur' = cur /\ Cancel(t)
      /\ ~item.live /\ mapping[t].exists /\ ~mapping[t].tombstone
  BY DEF TakeDeletion, Held
<1>2. /\ t \in Linked /\ t \in Tasks /\ ItemOK(item) /\ Rows(t) /\ jpc = "pull"
      /\ UNCHANGED <<Job0, google, token, mark, work, erased>>
  BY <1>1, TakeFacts
<1>3. ~glive[t]
  BY <1>1, <1>2 DEF ItemOK
<1> HIDE DEF t
<1>4. /\ version' \in [Tasks -> Nat] /\ event' \in [Tasks -> {"none", "block", "plain"}]
      /\ mapping' \in [Tasks -> Mappings] /\ receipt' \in [Tasks -> Receipts]
      /\ open' \subseteq open /\ receipt' = receipt
      /\ \A s \in Tasks : s # t => SameRow(s)
      /\ version'[t] # version[t] => version[t] # 0 /\ version'[t] >= version[t]
      /\ Rows(t)'
  BY <1>1, <1>2, <1>3, CancelRow DEF Job0
<1>5. TypeOK'
  BY <1>1, <1>2, <1>4, ApplyTypes DEF TypeOK, WorldTypes
<1>6. Forward /\ \A s \in Tasks : SameEvent(s)
  BY <1>2 DEF Forward, SameEvent, TypeOK, WorldTypes, google, Job0
<1>7. RowInv'
  BY <1>4, <1>5, <1>6, RowFrame DEF UndoInv, RowInv, Rows
<1>8. PullInv'
  <2>1. Listed(t)'
    BY <1>2, <1>3 DEF Listed, google
  <2> QED
    BY <1>1, <1>2, <1>4, <2>1, ApplyPull DEF t, SameRow
<1>9. HandInv'
  BY <1>1, <1>2 DEF HandInv
<1>10. AllMove
  BY <1>2, <1>4, TakenMoves DEF Job0
<1> QED
  BY <1>2, <1>4, <1>5, <1>7, <1>8, <1>9, <1>10, JobFrame

-----------------------------------------------------------------------------
(* The job before and after the changes of its list.                       *)

\* A step of a job that changes no row and no event's state.
LEMMA JobTypesFrame ==
  ASSUME TypeOK, JobTypes', UNCHANGED Job0, open' \subseteq Linked, seq' \in Nat, token' \in Nat,
         RowTypes'
  PROVE  TypeOK'
<1>1. RequestTypes'
  BY TypeFrame DEF Job0, requests
<1>2. WorldTypes'
  BY DEF TypeOK, WorldTypes, Job0
<1> QED
  BY <1>1, <1>2 DEF TypeOK

\* The list shows every change since the token, or everything Google remembers.
LEMMA StartJobStep ==
  ASSUME TypeOK, UndoInv, StartJob
  PROVE  TypeOK' /\ UndoInv'
<1> USE UndoAssumption
<1>1. /\ jpc = "idle" /\ jpc' = "pull" /\ mark' = seq
      /\ UNCHANGED <<Job0, version, event, sync, receipt, seq, glive, token, cur, work, erased>>
  BY DEF StartJob
<1>2. PICK listed \in SUBSET Linked :
         /\ inbox' = {Item(t) : t \in listed}
         /\ gver' \in [Tasks -> Nat]
         /\ \A s \in Tasks : gver'[s] \in {0, gver[s]} /\ (glive[s] => gver'[s] = gver[s])
         /\ \A s \in listed : gver'[s] = gver[s]
         /\ \A s \in Linked : glive[s] /\ (gver[s] > token \/ gver'[s] # gver[s]) => s \in listed
         /\ \A s \in Linked \ listed : glive[s] => gver[s] <= token \/ gver[s] = 0
  <2>1. CASE inbox' = {Item(t) : t \in {s \in Linked : gver[s] > token}} /\ UNCHANGED gver
    <3> DEFINE listed == {s \in Linked : gver[s] > token}
    <3>1. \A s \in Linked : gver[s] \in Nat /\ token \in Nat
      BY TaskTypes
    <3>2. inbox' = {Item(t) : t \in listed}
      BY <2>1
    <3>3. /\ gver' \in [Tasks -> Nat]
          /\ \A s \in Tasks : gver'[s] \in {0, gver[s]} /\ (glive[s] => gver'[s] = gver[s])
          /\ \A s \in listed : gver'[s] = gver[s]
          /\ \A s \in Linked : glive[s] /\ (gver[s] > token \/ gver'[s] # gver[s]) => s \in listed
      BY <2>1 DEF TypeOK, RowTypes
    <3>4. \A s \in Linked \ listed : glive[s] => gver[s] <= token \/ gver[s] = 0
      BY <3>1
    <3>5. listed \in SUBSET Linked
      OBVIOUS
    <3> HIDE DEF listed
    <3> QED
      BY <3>2, <3>3, <3>4, <3>5
  <2>2. ASSUME NEW forgotten \in SUBSET Forgettable,
               gver' = [t \in Tasks |-> IF t \in forgotten THEN 0 ELSE gver[t]],
               inbox' = {Item(t) : t \in {s \in Linked \ forgotten : gver[s] # 0}}
        PROVE  \E listed \in SUBSET Linked :
                  /\ inbox' = {Item(t) : t \in listed}
                  /\ gver' \in [Tasks -> Nat]
                  /\ \A s \in Tasks : gver'[s] \in {0, gver[s]} /\ (glive[s] => gver'[s] = gver[s])
                  /\ \A s \in listed : gver'[s] = gver[s]
                  /\ \A s \in Linked : glive[s] /\ (gver[s] > token \/ gver'[s] # gver[s]) => s \in listed
                  /\ \A s \in Linked \ listed : glive[s] => gver[s] <= token \/ gver[s] = 0
    <3> DEFINE listed == {s \in Linked \ forgotten : gver[s] # 0}
    <3>1. \A s \in forgotten : s \in Linked /\ ~glive[s]
      BY DEF Forgettable
    <3>2. gver \in [Tasks -> Nat] /\ token \in Nat
      BY DEF TypeOK, RowTypes, WorldTypes
    <3>3. inbox' = {Item(t) : t \in listed}
      BY <2>2
    <3>4. \A s \in Tasks : gver'[s] = IF s \in forgotten THEN 0 ELSE gver[s]
      BY <2>2
    <3>5. gver' \in [Tasks -> Nat]
      BY <2>2, <3>2
    <3>6. \A s \in Tasks : gver'[s] \in {0, gver[s]} /\ (glive[s] => gver'[s] = gver[s])
      BY <3>1, <3>4
    <3>7. \A s \in listed : gver'[s] = gver[s]
      BY <3>4
    <3>8. \A s \in Linked : glive[s] /\ (gver[s] > token \/ gver'[s] # gver[s]) => s \in listed
      BY <3>1, <3>2, <3>4
    <3>9. \A s \in Linked \ listed : glive[s] => gver[s] <= token \/ gver[s] = 0
      BY <3>1
    <3>10. listed \in SUBSET Linked
      OBVIOUS
    <3> HIDE DEF listed
    <3> QED
      BY <3>3, <3>5, <3>6, <3>7, <3>8, <3>9, <3>10
  <2> QED
    BY <2>1, <2>2 DEF StartJob
<1> USE <1>1
<1>3. \A s \in Tasks : /\ Rows(s) /\ gver[s] \in Nat /\ gver'[s] \in Nat
                       /\ glive[s] => gver'[s] = gver[s]
                       /\ gver'[s] <= seq
  <2>1. \A s \in Tasks : Rows(s) /\ gver[s] \in Nat /\ gver[s] <= seq /\ seq \in Nat
    BY TaskTypes DEF UndoInv, RowInv, Rows, EventOK
  <2> QED
    BY <1>2, <2>1
<1>4. \A t \in listed : /\ Item(t) \in [task : Linked, ver : Nat, live : BOOLEAN]
                        /\ Item(t).task = t /\ Item(t).ver = gver[t] /\ Item(t).live = glive[t]
  BY <1>3 DEF Item, TypeOK, RowTypes
<1>5. TypeOK'
  <2>1. JobTypes'
    BY <1>2, <1>4 DEF TypeOK, JobTypes, WorldTypes
  <2>2. RowTypes'
    BY <1>2 DEF TypeOK, RowTypes, sync
  <2> QED
    BY <2>1, <2>2, JobTypesFrame DEF TypeOK, WorldTypes, sync
<1>6. RowInv'
  <2> SUFFICES ASSUME NEW s \in Tasks PROVE Rows(s)'
    BY DEF RowInv, Rows
  <2>1. RowOK(s)' /\ ReceiptOK(s)'
    BY <1>3 DEF Rows, RowOK, Ordinary, Buried, Resolving, ReceiptOK, sync, Job0
  <2>2. EventOK(s)'
    BY <1>3 DEF Rows, EventOK, sync, Job0
  <2> QED
    BY <2>1, <2>2 DEF Rows
<1>7. PullInv'
  <2>1. token <= seq /\ token \in Nat /\ seq \in Nat
    BY DEF UndoInv, PullInv, TypeOK, WorldTypes
  <2>3. \A item \in inbox' : ItemOK(item)'
    <3> SUFFICES ASSUME NEW item \in inbox' PROVE ItemOK(item)'
      OBVIOUS
    <3>1. PICK t \in listed : item = Item(t)
      BY <1>2
    <3>2. item.task = t /\ item.ver = gver[t] /\ item.live = glive[t]
      BY <1>4, <3>1
    <3>3. gver'[t] = gver[t] /\ gver[t] <= seq /\ mapping[t].etag \in Nat
      BY <1>2, <1>3, TaskTypes
    <3>4. EventOK(t)
      BY <1>3 DEF Rows
    <3> QED
      BY <3>2, <3>3, <3>4 DEF ItemOK, EventOK, sync
  <2>4. \A item, other \in inbox' : item.task = other.task => item = other
    BY <1>2, <1>4
  <2>5. \A t \in Linked : Listed(t)'
    <3> SUFFICES ASSUME NEW t \in Linked, glive[t], mapping[t].etag # gver'[t]
                 PROVE  \E item \in inbox' : item.task = t
      BY DEF Listed, sync
    <3>1. gver'[t] = gver[t] /\ EventOK(t) /\ gver[t] \in Nat /\ token \in Nat
      BY <1>3, <2>1 DEF Rows
    <3>2. ~(gver[t] <= token) /\ gver[t] # 0
      BY <3>1 DEF EventOK
    <3>3. t \in listed
      BY <1>2, <3>1, <3>2
    <3> QED
      BY <1>2, <1>4, <3>3
  <2> QED
    BY <2>1, <2>3, <2>4, <2>5 DEF PullInv
<1>8. HandInv'
  BY DEF HandInv
<1>9. AllMove
  <2> SUFFICES ASSUME NEW s \in Tasks PROVE Moves(s)
    BY DEF AllMove
  <2> QED
    BY <1>3, TaskTypes DEF Moves, Job0
<1> QED
  BY <1>5, <1>6, <1>7, <1>8, <1>9, JobFrame

\* The token moves on only when every change it covers is taken over.
LEMMA FinishPullStep ==
  ASSUME TypeOK, UndoInv, FinishPull
  PROVE  TypeOK' /\ UndoInv'
<1> USE UndoAssumption
<1>1. /\ jpc = "pull" /\ inbox = {} /\ jpc' = "reconcile"
      /\ token' = IF \E t \in Linked : mapping[t].conflict THEN token ELSE mark
      /\ UNCHANGED <<Job0, version, event, sync, receipt, google, inbox, cur, mark, work, erased>>
  BY DEF FinishPull
<1> USE <1>1 DEF google, sync
<1>2. token <= seq /\ mark <= seq /\ token \in Nat /\ mark \in Nat /\ \A t \in Linked : Listed(t)
  BY DEF UndoInv, PullInv, Pulling, TypeOK, WorldTypes, JobTypes
<1>3. TypeOK'
  <2>1. JobTypes'
    BY DEF TypeOK, JobTypes
  <2> QED
    BY <1>2, <2>1, TypeFrame, JobTypesFrame DEF TypeOK, WorldTypes
<1>4. RowInv'
  <2> SUFFICES ASSUME NEW s \in Tasks PROVE Rows(s)'
    BY DEF RowInv, Rows
  <2>1. Rows(s)
    BY DEF UndoInv, RowInv, Rows
  <2>2. RowOK(s)' /\ ReceiptOK(s)'
    BY <2>1 DEF Rows, RowOK, Ordinary, Buried, Resolving, ReceiptOK, Job0
  <2>3. ASSUME glive[s], gver[s] <= token' PROVE mapping[s].etag = gver[s]
    <3>1. CASE token' = token
      BY <2>1, <2>3, <3>1 DEF Rows, EventOK
    <3>2. CASE token' = mark /\ ~(\E t \in Linked : mapping[t].conflict)
      <4>1. s \in Linked /\ Listed(s)
        BY <1>2, <2>1, <2>3 DEF Rows, EventOK
      <4> QED
        BY <2>3, <3>2, <4>1 DEF Listed
    <3> QED
      BY <3>1, <3>2
  <2>4. EventOK(s)'
    BY <2>1, <2>3 DEF Rows, EventOK, Job0
  <2> QED
    BY <2>2, <2>4 DEF Rows
<1>5. PullInv' /\ HandInv'
  BY <1>2 DEF PullInv, Pulling, HandInv
<1>6. AllMove
  BY MovesFrame DEF AllMove, SameEvent, Job0
<1> QED
  BY <1>3, <1>4, <1>5, <1>6, JobFrame

\* The event of a deletion that the user took back is looked up.
LEMMA ReconcileStep ==
  ASSUME TypeOK, UndoInv, NEW t \in Linked, Reconcile(t)
  PROVE  TypeOK' /\ UndoInv'
<1> USE UndoAssumption
<1>1. /\ jpc = "reconcile" /\ mapping[t].resolving
      /\ UNCHANGED <<Job0, google, token, jobVars, erased>>
  BY DEF Reconcile, ToReconcile
<1>2. Rows(t) /\ gver[t] \in Nat /\ seq \in Nat /\ token <= seq
  BY TaskTypes DEF UndoInv, RowInv, Rows, PullInv
<1>3. Resolving(t) /\ mapping[t].exists /\ ~mapping[t].tombstone
  BY <1>1, <1>2, NoMappingFields DEF Rows, RowOK, Ordinary, Buried, Resolving
<1>4. /\ version' \in [Tasks -> Nat] /\ event' \in [Tasks -> {"none", "block", "plain"}]
      /\ mapping' \in [Tasks -> Mappings] /\ receipt' \in [Tasks -> Receipts]
      /\ open' \subseteq open /\ receipt' = receipt
      /\ \A s \in Tasks : s # t => SameRow(s)
      /\ version'[t] # version[t] => version[t] # 0 /\ version'[t] >= version[t]
      /\ Rows(t)'
  <2>1. CASE glive[t] /\ Import(t, gver[t])
    <3>1. gver[t] # 0 /\ gver[t] <= seq /\ gver[t] <= gver[t]
      BY <1>2, <2>1 DEF Rows, EventOK
    <3> QED
      BY <1>1, <1>2, <1>3, <2>1, <3>1, ImportRow DEF Job0
  <2>2. CASE ~glive[t] /\ Cancel(t)
    BY <1>1, <1>2, <1>3, <2>2, CancelRow DEF Job0
  <2> QED
    BY <2>1, <2>2 DEF Reconcile
<1>5. TypeOK'
  <2>1. RowTypes'
    BY <1>1, <1>4 DEF TypeOK, RowTypes, google
  <2> QED
    BY <1>1, <1>4, <2>1, TypeFrame, JobTypesFrame DEF TypeOK, WorldTypes, google
<1>6. Forward /\ \A s \in Tasks : SameEvent(s)
  BY <1>1 DEF Forward, SameEvent, TypeOK, WorldTypes, google, Job0
<1>7. RowInv'
  BY <1>4, <1>5, <1>6, RowFrame DEF UndoInv, RowInv, Rows
<1>8. PullInv' /\ HandInv'
  BY <1>1, <1>2 DEF PullInv, Pulling, HandInv, jobVars, google
<1>9. AllMove
  BY <1>1, <1>4, TakenMoves DEF Job0
<1> QED
  BY <1>1, <1>4, <1>5, <1>7, <1>8, <1>9, JobFrame

LEMMA SelectDirtyStep ==
  ASSUME TypeOK, UndoInv, SelectDirty
  PROVE  TypeOK' /\ UndoInv'
<1> USE UndoAssumption
<1>1. /\ jpc = "reconcile" /\ jpc' = "push" /\ work' = {t \in Linked : Pushable(t)}
      /\ UNCHANGED <<Job0, version, event, sync, receipt, google, token, inbox, cur, mark, erased>>
  BY DEF SelectDirty
<1> USE <1>1 DEF google, sync
<1>2. TypeOK'
  <2>1. JobTypes'
    BY DEF TypeOK, JobTypes
  <2> QED
    BY <2>1, TypeFrame, JobTypesFrame DEF TypeOK, WorldTypes
<1>3. Forward /\ \A s \in Tasks : SameRow(s) /\ SameEvent(s)
  BY DEF Forward, SameRow, SameEvent, TypeOK, WorldTypes, Job0
<1>4. RowInv'
  BY <1>2, <1>3, RowFrame DEF UndoInv, RowInv, Rows
<1>5. PullInv'
  BY DEF UndoInv, PullInv, Pulling
<1>6. HandInv'
  BY DEF HandInv, Pushable, Job0
<1>7. AllMove
  BY <1>3, MovesFrame DEF AllMove, Job0
<1> QED
  BY <1>2, <1>4, <1>5, <1>6, <1>7, JobFrame

\* A job ends, or is cut short anywhere: what it has already written stays.
LEMMA QuitStep ==
  ASSUME TypeOK, UndoInv, Quit
  PROVE  TypeOK' /\ UndoInv'
<1> USE DEF Quit, local, sync, google
<1>1. TypeOK'
  <2>1. JobTypes'
    BY DEF TypeOK, JobTypes
  <2> QED
    BY <2>1, TypeFrame DEF TypeOK, WorldTypes
<1>2. Forward /\ UNCHANGED requests /\ \A s \in Tasks : SameRow(s) /\ SameEvent(s)
  BY DEF Forward, SameRow, SameEvent, TypeOK, WorldTypes
<1>3. RowInv'
  BY <1>1, <1>2, RowFrame DEF UndoInv, RowInv, Rows
<1>4. PullInv' /\ HandInv' /\ TouchInv'
  BY DEF UndoInv, PullInv, Pulling, HandInv, TouchInv
<1>5. AllMove
  BY <1>2, MovesFrame DEF AllMove, SameRow
<1> QED
  BY <1>1, <1>2, <1>3, <1>4, <1>5, PlansWait DEF UndoInv, Forward

-----------------------------------------------------------------------------
(* The push.                                                               *)

\* A job deletes from Google what is no longer held.
LEMMA PushDeleteStep ==
  ASSUME TypeOK, UndoInv, NEW t \in Linked, PushDelete(t)
  PROVE  TypeOK' /\ UndoInv'
<1> USE UndoAssumption
<1>1. /\ jpc = "push" /\ jpc' = "forget" /\ t \in work /\ work' = work \ {t} /\ cur' = t
      /\ mapping[t].deleted
      /\ UNCHANGED <<Job0, version, event, sync, receipt, token, inbox, mark>>
  BY DEF PushDelete
<1>2. /\ t \in Tasks /\ gver[t] \in Nat /\ seq \in Nat /\ token \in Nat /\ now \in Nat
      /\ mapping[t].hold \in Nat /\ receipt[t].expiry \in Nat
      /\ Rows(t) /\ token <= seq
  BY TaskTypes DEF UndoInv, RowInv, Rows, PullInv
<1>3. mapping[t].exists /\ ~mapping[t].conflict /\ ~mapping[t].resolving /\ mapping[t].hold <= now
  BY <1>1 DEF UndoInv, HandInv
<1>4. Buried(t)
  BY <1>1, <1>2, <1>3, NoMappingFields DEF Rows, RowOK, Ordinary, Resolving
<1>5. receipt[t].version # 0 /\ receipt[t].mapping.exists => receipt[t].expiry <= now
  BY <1>2, <1>3 DEF Rows, ReceiptOK
<1>6. /\ seq' \in Nat /\ seq <= seq' /\ gver' \in [Tasks -> Nat] /\ glive' \in [Tasks -> BOOLEAN]
      /\ ~glive'[t] /\ gver'[t] <= seq'
      /\ \A s \in Tasks : s # t => SameEvent(s)
      /\ erased' = erased \/ erased' = erased \cup {t}
  <2>1. CASE GoogleWrites(t, FALSE) /\ erased' = erased \cup {t}
    <3>1. /\ seq' = seq + 1 /\ seq' \in Nat
          /\ gver' \in [Tasks -> Nat] /\ glive' \in [Tasks -> BOOLEAN]
          /\ gver'[t] = seq' /\ glive'[t] = FALSE
          /\ \A s \in Tasks : s # t => SameEvent(s)
      BY <1>2, <2>1, GoogleWritesTypes
    <3> QED
      BY <1>2, <2>1, <3>1
  <2>2. CASE gver[t] = 0 /\ UNCHANGED <<google, erased>>
    BY <1>2, <2>2 DEF Rows, EventOK, google, SameEvent, TypeOK, RowTypes
  <2> QED
    BY <1>1, <2>1, <2>2 DEF PushDelete
<1> USE <1>1 DEF sync
<1>7. TypeOK'
  <2>1. JobTypes'
    BY DEF TypeOK, JobTypes
  <2>2. RowTypes'
    BY <1>6 DEF TypeOK, RowTypes
  <2> QED
    BY <1>2, <1>6, <2>1, <2>2, JobTypesFrame DEF TypeOK, WorldTypes
<1>8. Forward /\ \A s \in Tasks : s # t => SameRow(s)
  BY <1>6 DEF Forward, SameRow, TypeOK, WorldTypes, Job0
<1>9. Rows(t)'
  <2>1. RowOK(t)' /\ ReceiptOK(t)'
    BY <1>2 DEF Rows, RowOK, Ordinary, Buried, Resolving, ReceiptOK, Job0
  <2>2. mapping[t].etag <= seq'
    BY <1>2, <1>6, TaskTypes DEF Rows, EventOK
  <2>3. EventOK(t)'
    BY <1>2, <1>4, <1>5, <1>6, <2>2 DEF Rows, EventOK, Buried, Job0
  <2> QED
    BY <2>1, <2>3 DEF Rows
<1>10. RowInv'
  BY <1>6, <1>7, <1>8, <1>9, RowFrame DEF UndoInv, RowInv, Rows
<1>11. PullInv'
  BY <1>2, <1>6 DEF PullInv, Pulling
<1>12. HandInv'
  BY <1>3, <1>4, <1>6 DEF UndoInv, HandInv, Job0, Buried
<1>13. AllMove
  <2>1. Moves(t)
    BY <1>2, <1>5, TaskTypes DEF Moves, Job0
  <2>2. ASSUME NEW s \in Tasks, s # t PROVE Moves(s)
    BY <1>6, <2>2, MovesFrame DEF Job0
  <2> QED
    BY <2>1, <2>2 DEF AllMove
<1> QED
  BY <1>7, <1>10, <1>11, <1>12, <1>13, JobFrame

\* The mapping of a deletion goes once Google has it.
LEMMA ForgetMappingStep ==
  ASSUME TypeOK, UndoInv, ForgetMapping
  PROVE  TypeOK' /\ UndoInv'
<1> USE UndoAssumption
<1>1. PICK t \in Tasks : t = cur /\ t \in Linked \ work /\ mapping[t].tombstone
                         /\ mapping[t].hold <= now /\ ~glive[t]
  BY DEF ForgetMapping, UndoInv, HandInv
<1>2. /\ mapping' = [mapping EXCEPT ![t] = NoMapping] /\ open' = open \ {t}
      /\ jpc = "forget" /\ jpc' = "push"
      /\ UNCHANGED <<Job0, version, event, receipt, google, token, inbox, mark, work, erased>>
  BY <1>1 DEF ForgetMapping
<1>3. /\ mapping' \in [Tasks -> Mappings] /\ mapping'[t] = NoMapping
      /\ \A s \in Tasks : s # t => mapping'[s] = mapping[s]
  BY <1>2, NoMappingFields, MappingUpdate
<1>4. /\ gver[t] \in Nat /\ seq \in Nat /\ token <= seq /\ Rows(t) /\ now \in Nat
      /\ mapping[t].hold \in Nat /\ receipt[t].expiry \in Nat
  BY TaskTypes DEF UndoInv, RowInv, Rows, PullInv
<1>5. TypeOK'
  <2>1. JobTypes'
    BY <1>2 DEF TypeOK, JobTypes
  <2>2. RowTypes'
    BY <1>2, <1>3 DEF TypeOK, RowTypes, google
  <2> QED
    BY <1>2, <2>1, <2>2, JobTypesFrame DEF TypeOK, WorldTypes, google
<1>6. Forward /\ \A s \in Tasks : SameEvent(s) /\ (s # t => SameRow(s))
  BY <1>2, <1>3 DEF Forward, SameRow, SameEvent, TypeOK, WorldTypes, google, Job0
<1>7. Rows(t)'
  <2>1. Buried(t)
    BY <1>1, <1>4, NoMappingFields DEF Rows, RowOK, Ordinary, Resolving
  <2>2. RowOK(t)'
    BY <1>2, <1>3, <2>1, NoMappingFields DEF RowOK, Buried
  <2>3. ReceiptOK(t)'
    BY <1>1, <1>2, <1>3, <1>4, NoMappingFields DEF Rows, ReceiptOK, Job0
  <2>4. EventOK(t)'
    BY <1>1, <1>2, <1>3, <1>4, NoMappingFields DEF Rows, EventOK, google, Job0
  <2> QED
    BY <2>2, <2>3, <2>4 DEF Rows
<1>8. RowInv'
  BY <1>5, <1>6, <1>7, RowFrame DEF UndoInv, RowInv, Rows
<1>9. PullInv'
  BY <1>2, <1>4 DEF PullInv, Pulling, google
<1>10. HandInv'
  <2> SUFFICES ASSUME NEW s \in work
               PROVE  LET m == mapping'[s] IN
                      m.exists /\ (m.dirty \/ m.deleted) /\ ~m.conflict /\ ~m.resolving /\ m.hold <= now
    BY <1>2 DEF HandInv, Job0
  <2>1. s \in Tasks /\ s # t
    BY <1>1 DEF TypeOK, JobTypes
  <2> QED
    BY <1>2, <1>3, <2>1 DEF UndoInv, HandInv
<1>11. AllMove
  BY <1>2, <1>6, MovesFrame DEF AllMove, Job0
<1> QED
  BY <1>2, <1>5, <1>8, <1>9, <1>10, <1>11, JobFrame

\* A local change is sent to Google and recorded.
LEMMA PushUpdateStep ==
  ASSUME TypeOK, UndoInv, NEW t \in Linked, PushUpdate(t)
  PROVE  TypeOK' /\ UndoInv'
<1> USE UndoAssumption
<1>1. /\ jpc = "push" /\ t \in work /\ work' = work \ {t} /\ ~mapping[t].deleted
      /\ glive[t] /\ GoogleWrites(t, TRUE)
      /\ mapping' = [mapping EXCEPT ![t] = CleanMapping(seq')]
      /\ UNCHANGED <<Job0, version, event, open, receipt, token, jpc, inbox, cur, mark, erased>>
  BY DEF PushUpdate, Accepts
<1>2. /\ t \in Tasks /\ seq \in Nat /\ token \in Nat /\ token <= seq /\ Rows(t)
  BY TaskTypes DEF UndoInv, RowInv, Rows, PullInv
<1>3. /\ seq' = seq + 1 /\ seq' \in Nat
      /\ gver' \in [Tasks -> Nat] /\ glive' \in [Tasks -> BOOLEAN]
      /\ gver'[t] = seq' /\ glive'[t] = TRUE
      /\ \A s \in Tasks : s # t => SameEvent(s)
  BY <1>1, <1>2, GoogleWritesTypes
<1> DEFINE n == CleanMapping(seq')
<1>4. /\ n \in Mappings
      /\ n.exists /\ n.event /\ n.etag = seq' /\ ~n.dirty /\ ~n.deleted /\ ~n.conflict
      /\ ~n.tombstone /\ n.hold = 0 /\ ~n.resolving /\ ~n.legacy
  BY <1>3, CleanFields
<1>5. /\ mapping' \in [Tasks -> Mappings] /\ mapping'[t] = n
      /\ \A s \in Tasks : s # t => mapping'[s] = mapping[s]
  <2> HIDE DEF n
  <2> QED
    BY <1>1, <1>2, <1>4, MappingUpdate DEF n
<1> HIDE DEF n
<1>6. mapping[t].exists /\ ~mapping[t].resolving
  BY <1>1 DEF UndoInv, HandInv
<1>7. Ordinary(t)
  BY <1>1, <1>2, <1>6, NoMappingFields DEF Rows, RowOK, Buried, Resolving
<1>8. receipt[t].version = 0
  BY <1>2, <1>7 DEF Rows, ReceiptOK, Ordinary
<1>9. TypeOK'
  <2>1. JobTypes'
    BY <1>1 DEF TypeOK, JobTypes
  <2>2. RowTypes'
    BY <1>1, <1>3, <1>5 DEF TypeOK, RowTypes
  <2> QED
    BY <1>1, <1>3, <2>1, <2>2, JobTypesFrame DEF TypeOK, WorldTypes
<1>10. Forward /\ \A s \in Tasks : s # t => SameRow(s)
  BY <1>1, <1>2, <1>3, <1>5 DEF Forward, SameRow, TypeOK, WorldTypes, Job0
<1>11. Rows(t)'
  <2>1. Ordinary(t)'
    BY <1>1, <1>2, <1>3, <1>4, <1>5, <1>7 DEF Ordinary
  <2>2. RowOK(t)'
    BY <1>1, <1>2, <2>1 DEF Rows, RowOK
  <2>3. ReceiptOK(t)'
    BY <1>1, <1>8 DEF ReceiptOK
  <2>4. EventOK(t)'
    BY <1>1, <1>2, <1>3, <1>4, <1>5, <1>7, <1>8 DEF Rows, EventOK, Ordinary
  <2> QED
    BY <2>2, <2>3, <2>4 DEF Rows
<1>12. RowInv'
  BY <1>3, <1>9, <1>10, <1>11, RowFrame DEF UndoInv, RowInv, Rows
<1>13. PullInv'
  BY <1>1, <1>2, <1>3 DEF PullInv, Pulling
<1>14. HandInv'
  <2> SUFFICES ASSUME NEW s \in work'
               PROVE  LET m == mapping'[s] IN
                      m.exists /\ (m.dirty \/ m.deleted) /\ ~m.conflict /\ ~m.resolving /\ m.hold <= now
    BY <1>1 DEF HandInv, Job0
  <2>1. s \in Tasks /\ s # t /\ s \in work
    BY <1>1 DEF TypeOK, JobTypes
  <2> QED
    BY <1>1, <1>5, <2>1 DEF UndoInv, HandInv
<1>15. AllMove
  <2>1. Moves(t)
    BY <1>1, <1>2, <1>8, TaskTypes DEF Moves
  <2>2. ASSUME NEW s \in Tasks, s # t PROVE Moves(s)
    BY <1>1, <1>3, <2>2, MovesFrame DEF Job0
  <2> QED
    BY <2>1, <2>2 DEF AllMove
<1> QED
  BY <1>1, <1>9, <1>12, <1>13, <1>14, <1>15, JobFrame

-----------------------------------------------------------------------------
(* The invariant holds in every state.                                     *)

LEMMA InitSafe ==
  ASSUME Init
  PROVE  TypeOK /\ UndoInv
<1> USE UndoAssumption DEF Init
<1>1. PICK old \in SUBSET Legacy :
         mapping = [t \in Tasks |-> IF t \in Linked
                                    THEN [CleanMapping(1) EXCEPT !.legacy = t \in old]
                                    ELSE NoMapping]
  OBVIOUS
<1>2. ASSUME NEW t \in Linked
      PROVE  LET m == mapping[t] IN
             /\ m \in Mappings
             /\ m.exists /\ m.event /\ m.etag = 1 /\ ~m.dirty /\ ~m.deleted /\ ~m.conflict
             /\ ~m.tombstone /\ m.hold = 0 /\ ~m.resolving
  <2> DEFINE k == CleanMapping(1)
  <2>1. /\ k \in Mappings
        /\ k.exists /\ k.event /\ k.etag = 1 /\ ~k.dirty /\ ~k.deleted /\ ~k.conflict
        /\ ~k.tombstone /\ k.hold = 0 /\ ~k.resolving
    BY CleanFields
  <2>2. mapping[t] = [k EXCEPT !.legacy = t \in old]
    BY <1>1
  <2>3. (t \in old) \in BOOLEAN
    OBVIOUS
  <2> HIDE DEF k
  <2>4. \A b \in BOOLEAN : LET m == [k EXCEPT !.legacy = b] IN
             /\ m \in Mappings
             /\ m.exists /\ m.event /\ m.etag = 1 /\ ~m.dirty /\ ~m.deleted /\ ~m.conflict
             /\ ~m.tombstone /\ m.hold = 0 /\ ~m.resolving
    BY <2>1 DEF Mappings
  <2> QED
    BY <2>2, <2>3, <2>4
<1>3. \A t \in Tasks \ Linked : mapping[t] = NoMapping
  BY <1>1
<1>4. mapping \in [Tasks -> Mappings]
  BY <1>1, <1>2, <1>3, NoMappingFields
<1>5. TypeOK
  <2>1. RowTypes /\ JobTypes
    BY <1>4, NoReceiptFields DEF RowTypes, JobTypes
  <2>2. WorldTypes
    BY DEF WorldTypes
  <2>3. RequestTypes
    BY NoReceiptFields DEF RequestTypes, NoPlan
  <2> QED
    BY <2>1, <2>2, <2>3 DEF TypeOK
<1>6. RowInv
  <2> SUFFICES ASSUME NEW t \in Tasks PROVE RowOK(t) /\ ReceiptOK(t) /\ EventOK(t)
    BY DEF RowInv
  <2>1. /\ version[t] = 1 /\ event[t] = (IF t \in Linked THEN "block" ELSE "none")
        /\ receipt[t].version = 0 /\ gver[t] = 1 /\ (glive[t] <=> t \in Linked)
        /\ open = {} /\ erased = {} /\ seq = 1 /\ token = 1
    BY NoReceiptFields
  <2>2. CASE t \in Linked
    <3>1. mapping[t].exists /\ mapping[t].event /\ mapping[t].etag = 1 /\ ~mapping[t].dirty
          /\ ~mapping[t].deleted /\ ~mapping[t].conflict
          /\ ~mapping[t].tombstone /\ mapping[t].hold = 0 /\ ~mapping[t].resolving
      BY <1>2, <2>2
    <3> HIDE DEF Init
    <3>2. Ordinary(t)
      BY <2>1, <2>2, <3>1 DEF Ordinary
    <3> QED
      BY <2>1, <2>2, <3>1, <3>2 DEF RowOK, ReceiptOK, EventOK
  <2>3. CASE t \notin Linked
    <3>1. mapping[t] = NoMapping
      BY <1>3, <2>3
    <3> HIDE DEF Init
    <3> QED
      BY <2>1, <2>3, <3>1, NoMappingFields DEF RowOK, ReceiptOK, EventOK
  <2> QED
    BY <2>2, <2>3
<1>7. PullInv /\ HandInv /\ TouchInv /\ PlanInv
  BY NoReceiptFields DEF PullInv, Pulling, HandInv, TouchInv, PlanInv, PlanOK
<1> QED
  BY <1>5, <1>6, <1>7 DEF UndoInv

LEMMA StutterStep ==
  ASSUME TypeOK, UndoInv, UNCHANGED vars
  PROVE  TypeOK' /\ UndoInv'
<1> USE DEF vars, clock, local, sync, google, requests, jobVars
<1>1. TypeOK'
  BY TypeFrame DEF TypeOK, WorldTypes
<1>2. Forward /\ UNCHANGED requests /\ \A s \in Tasks : SameRow(s) /\ SameEvent(s)
  BY DEF Forward, SameRow, SameEvent, TypeOK, WorldTypes
<1>3. RowInv' /\ PullInv' /\ HandInv' /\ AllMove
  BY <1>1, <1>2, Quiet
<1>4. TouchInv'
  BY DEF UndoInv, TouchInv
<1> QED
  BY <1>1, <1>2, <1>3, <1>4, PlansWait DEF UndoInv, Forward

LEMMA NextSafe ==
  ASSUME TypeOK, UndoInv, [Next]_vars
  PROVE  TypeOK' /\ UndoInv'
<1> USE UndoAssumption
<1>1. CASE UNCHANGED vars
  BY <1>1, StutterStep
<1>2. CASE Job
  <2>1. ASSUME NEW item \in inbox, Apply(item) PROVE TypeOK' /\ UndoInv'
    BY <2>1, SkipChangeStep, DropCancelledStep, OpenConflictStep, TakeChangeStep, TakeDeletionStep
       DEF Apply
  <2>2. ASSUME NEW t \in Linked, Reconcile(t) \/ PushDelete(t) \/ PushUpdate(t)
        PROVE  TypeOK' /\ UndoInv'
    BY <2>2, ReconcileStep, PushDeleteStep, PushUpdateStep
  <2>3. CASE StartJob \/ MarkConflict \/ DropReceipt \/ FinishPull \/ SelectDirty \/ ForgetMapping
    BY <2>3, StartJobStep, MarkConflictStep, DropReceiptStep, FinishPullStep, SelectDirtyStep,
       ForgetMappingStep
  <2>4. CASE EndJob \/ FailJob
    BY <2>4, QuitStep DEF EndJob, FailJob
  <2> QED
    BY <1>2, <2>1, <2>2, <2>3, <2>4 DEF Job
<1>3. CASE Fault
  BY <1>3, QuitStep DEF Fault
<1>4. CASE User
  <2>1. ASSUME NEW t \in Tasks, EditTask(t) \/ DeleteTask(t) \/ KeepGoogle(t)
        PROVE  TypeOK' /\ UndoInv'
    BY <2>1, EditTaskStep, DeleteTaskStep, KeepGoogleStep
  <2>2. ASSUME NEW c \in Clients, Validate(c) \/ Invalid(c) \/ CommitDelete(c) \/ CommitUndo(c)
        PROVE  TypeOK' /\ UndoInv'
    BY <2>2, ValidateStep, InvalidStep, CommitDeleteStep, CommitUndoStep DEF Invalid
  <2>3. ASSUME NEW c \in Clients, NEW t \in Tasks, PrepareDelete(c, t) \/ ReadReceipt(c, t)
        PROVE  TypeOK' /\ UndoInv'
    BY <2>3, PrepareDeleteStep, ReadReceiptStep
  <2> QED
    BY <1>4, <2>1, <2>2, <2>3, ElsewhereStep, ChangeDependencyStep, ChangeFocusStep DEF User
<1>5. CASE Elsewhere
  BY <1>5, GoogleStep DEF Elsewhere, GoogleEdit, GoogleDelete
<1>6. CASE CleanupReceipts \/ Tick
  BY <1>6, CleanupStep, TickStep
<1> QED
  BY <1>1, <1>2, <1>3, <1>4, <1>5, <1>6 DEF Next

\* Types, rows, the job's list and the waiting requests are as the invariant says, whatever
\* the interleaving of requests, jobs, faults and Google's user.
THEOREM UndoInvariant == Spec => [](TypeOK /\ UndoInv)
<1>1. TypeOK /\ UndoInv /\ [Next]_vars => (TypeOK /\ UndoInv)'
  BY NextSafe
<1> QED
  BY <1>1, InitSafe, PTL DEF Spec

-----------------------------------------------------------------------------
(* What the invariant gives.                                               *)

\* While Undo is offered no job deletes the event, and the tombstone is this receipt's:
\* Pushable looks at the hold, and every way to another tombstone drops the receipt.
THEOREM DeletionsAreHeld == Spec => []HeldWhileUndoable
<1>1. TypeOK /\ UndoInv => HeldWhileUndoable
  <2> SUFFICES ASSUME TypeOK, UndoInv, NEW t \in Tasks, Active(t), receipt[t].mapping.exists
               PROVE  t \notin erased /\ mapping[t].tombstone /\ mapping[t].hold = receipt[t].expiry
    BY DEF HeldWhileUndoable
  <2>1. ReceiptOK(t) /\ EventOK(t) /\ now \in Nat /\ receipt[t].expiry \in Nat
    BY TaskTypes DEF UndoInv, RowInv
  <2> QED
    BY <2>1 DEF Active, ReceiptOK, EventOK
<1> QED
  BY <1>1, UndoInvariant, PTL

\* A time block that Undo has brought back still has its event, whatever an interrupted job
\* had already sent.
THEOREM RestoredEventsSurvive == Spec => []RestoredEventSurvives
<1>1. TypeOK /\ UndoInv => RestoredEventSurvives
  BY DEF UndoInv, RowInv, EventOK, RestoredEventSurvives
<1> QED
  BY <1>1, UndoInvariant, PTL

\* The sync token never runs ahead of what was taken over, conflicts about deleted tasks
\* and their resolution included.
THEOREM NothingIsMissed == Spec => []NothingMissed
<1>1. TypeOK /\ UndoInv => NothingMissed
  BY UndoAssumption DEF UndoInv, RowInv, EventOK, NothingMissed
<1> QED
  BY <1>1, UndoInvariant, PTL

\* The only steps that bring a version back from 0 are Undo's.
LEMMA ReturnsByUndo ==
  ASSUME TypeOK, UndoInv, [Next]_vars, NEW t \in Tasks, version[t] = 0, version'[t] # 0
  PROVE  Active(t) /\ version'[t] = receipt[t].version + 1
<1> USE UndoAssumption
<1>1. version \in [Tasks -> Nat] /\ event[t] # "block"
  BY DEF TypeOK, RowTypes, UndoInv, RowInv, RowOK
<1>2. CASE version' = version
  BY <1>2
<1>3. ASSUME NEW s \in Tasks, EditTask(s) PROVE FALSE
  BY <1>1, <1>3 DEF EditTask
<1>4. ASSUME NEW s \in Tasks, Remove(s) PROVE FALSE
  BY <1>1, <1>4 DEF Remove
<1>5. ASSUME NEW s \in Tasks, NEW ver, Import(s, ver) \/ Cancel(s) PROVE FALSE
  BY <1>1, <1>5 DEF Import, Cancel
<1>6. ASSUME NEW s \in Tasks, NEW read, Undoable(s, read), Restore(s, read)
      PROVE  Active(t) /\ version'[t] = receipt[t].version + 1
  <2>1. s = t
    BY <1>1, <1>6 DEF Restore
  <2> QED
    BY <1>1, <1>6, <2>1 DEF Restore, Undoable
<1>7. CASE Job
  <2>1. ASSUME NEW item \in inbox, Apply(item) PROVE FALSE
    <3>1. item.task \in Tasks
      BY DEF TypeOK, JobTypes
    <3> QED
      BY <1>5, <2>1, <3>1
         DEF Apply, SkipChange, DropCancelled, OpenConflict, TakeChange, TakeDeletion
  <2>2. ASSUME NEW s \in Linked, Reconcile(s) \/ PushDelete(s) \/ PushUpdate(s) PROVE FALSE
    BY <1>5, <2>2 DEF Reconcile, PushDelete, PushUpdate
  <2> QED
    BY <1>2, <1>7, <2>1, <2>2
       DEF Job, StartJob, MarkConflict, DropReceipt, FinishPull, SelectDirty, ForgetMapping, EndJob,
           FailJob, Quit, local
<1>8. CASE User
  <2>1. ASSUME NEW s \in Tasks, EditTask(s) \/ DeleteTask(s) \/ KeepGoogle(s) PROVE FALSE
    BY <1>3, <1>4, <2>1 DEF DeleteTask, KeepGoogle, local
  <2>2. ASSUME NEW c \in Clients, NEW s \in Tasks, PrepareDelete(c, s) \/ ReadReceipt(c, s)
        PROVE  FALSE
    BY <2>2 DEF PrepareDelete, ReadReceipt, Others, local
  <2>3. ASSUME NEW c \in Clients, Validate(c) \/ Invalid(c) PROVE FALSE
    BY <2>3 DEF Validate, Invalid, Others, local
  <2>4. ASSUME NEW c \in Clients, CommitDelete(c) PROVE FALSE
    <3>1. plan[c].task \in Tasks
      BY <2>4 DEF CommitDelete, TypeOK, RequestTypes
    <3> QED
      BY <1>4, <2>4, <3>1 DEF CommitDelete, Others, local
  <2>5. ASSUME NEW c \in Clients, CommitUndo(c)
        PROVE  Active(t) /\ version'[t] = receipt[t].version + 1
    <3>1. plan[c].task \in Tasks
      BY <2>5 DEF CommitUndo, TypeOK, RequestTypes
    <3> QED
      BY <1>6, <2>5, <3>1 DEF CommitUndo, Others, local
  <2> QED
    BY <1>2, <1>8, <2>1, <2>2, <2>3, <2>4, <2>5
       DEF User, BeginElsewhere, EndElsewhere, ChangeDependency, ChangeFocus, local
<1> QED
  BY <1>2, <1>7, <1>8
     DEF Next, Fault, Quit, Elsewhere, GoogleEdit, GoogleDelete, CleanupReceipts, Tick, vars, local

\* An Undo restores the latest deletion and nothing else, before its deadline and once.
THEOREM UndoRestoresLatest == Spec => RestoresLatestDeletion
<1>1. TypeOK /\ UndoInv /\ [Next]_vars =>
         [\A t \in Tasks : version[t] = 0 /\ version'[t] # 0 =>
             Active(t) /\ version'[t] = receipt[t].version + 1]_vars
  BY ReturnsByUndo
<1> QED
  BY <1>1, UndoInvariant, PTL DEF Spec, RestoresLatestDeletion

\* A request that has validated its Undo goes on with CommitUndo and with nothing else.
LEMMA UndoneByCommit ==
  ASSUME TypeOK, [Next]_vars, NEW c \in Clients, pc[c] = "undo", pc'[c] = "idle"
  PROVE  CommitUndo(c)
<1>1. CASE UNCHANGED requests
  BY <1>1 DEF requests
<1>2. ASSUME NEW d \in Clients, Done(d), d # c PROVE FALSE
  BY <1>2, DoneTypes
<1>3. CASE Job \/ Fault
  BY <1>1, <1>3
     DEF Job, Fault, StartJob, Apply, SkipChange, DropCancelled, OpenConflict, TakeChange,
         TakeDeletion, Take, MarkConflict, DropReceipt, FinishPull, SelectDirty, ForgetMapping,
         EndJob, FailJob, Quit, Reconcile, PushDelete, PushUpdate, Job0, requests
<1>4. CASE \/ Elsewhere \/ CleanupReceipts \/ Tick
           \/ BeginElsewhere \/ EndElsewhere \/ ChangeDependency \/ ChangeFocus
  BY <1>1, <1>4
     DEF Elsewhere, GoogleEdit, GoogleDelete, CleanupReceipts, Tick, BeginElsewhere, EndElsewhere,
         ChangeDependency, ChangeFocus
<1>5. ASSUME NEW t \in Tasks, EditTask(t) \/ DeleteTask(t) \/ KeepGoogle(t) PROVE FALSE
  <2>1. UNCHANGED requests
    BY <1>5 DEF EditTask, DeleteTask, KeepGoogle
  <2> QED
    BY <2>1 DEF requests
<1>6. ASSUME NEW d \in Clients, NEW t \in Tasks, PrepareDelete(d, t) \/ ReadReceipt(d, t)
      PROVE  FALSE
  BY <1>6 DEF PrepareDelete, ReadReceipt, TypeOK, RequestTypes
<1>7. ASSUME NEW d \in Clients, Validate(d) PROVE FALSE
  BY <1>7 DEF Validate, TypeOK, RequestTypes
<1>8. ASSUME NEW d \in Clients, Invalid(d) \/ CommitDelete(d) PROVE FALSE
  BY <1>2, <1>8 DEF Invalid, CommitDelete
<1>9. ASSUME NEW d \in Clients, CommitUndo(d) PROVE CommitUndo(c)
  BY <1>2, <1>9 DEF CommitUndo
<1>10. CASE User
  BY <1>4, <1>5, <1>6, <1>7, <1>8, <1>9, <1>10 DEF User
<1> QED
  BY <1>1, <1>3, <1>4, <1>10 DEF Next, vars

\* What an Undo finds at its commit when nothing it depends on has changed.
LEMMA UndoableUntouched ==
  ASSUME TypeOK, UndoInv, NEW c \in Clients, NEW t \in Tasks, NEW read \in Receipts,
         plan[c].task = t, plan[c].read = read, pc[c] = "undo",
         receipt[t] = read, Active(t), jpc = "idle", ~busy, t \notin touched
  PROVE  Undoable(t, read)
<1>1. read.version # 0 /\ read.expiry > now
  BY DEF Active
<1>2. read.deps = deps /\ (t \in Focused => read.focus = focus)
  BY <1>1 DEF UndoInv, TouchInv
<1>3. ASSUME read.mapping.exists
      PROVE  mapping[t] = Tombstone(read.mapping, read.expiry) /\ t \notin open
  <2>1. RowOK(t) /\ ReceiptOK(t) /\ EventOK(t)
    BY DEF UndoInv, RowInv
  <2>2. /\ ~read.mapping.conflict /\ ~read.mapping.resolving
        /\ mapping[t].tombstone /\ mapping[t].hold = read.expiry
        /\ mapping[t].etag = read.mapping.etag /\ mapping[t].legacy = read.mapping.legacy
    BY <1>1, <1>3, <2>1 DEF ReceiptOK
  <2>3. Buried(t)
    BY <2>1, <2>2, NoMappingFields DEF RowOK, Ordinary, Resolving
  <2>4. glive[t] /\ gver[t] = read.mapping.etag
    BY <1>1, <1>3 DEF UndoInv, PlanInv, PlanOK
  <2>5. t \notin open /\ ~mapping[t].conflict
    BY <2>1, <2>2, <2>4 DEF EventOK
  <2>6. mapping[t] \in Mappings /\ read.mapping \in Mappings /\ read.expiry \in Nat
    BY TaskTypes, FieldTypes
  <2> QED
    BY <1>3, <2>2, <2>3, <2>5, <2>6, SameTombstone DEF Buried
<1> QED
  BY <1>2, <1>3 DEF Undoable, LockFree, SyncLockFree

\* Undo is refused at its commit only for one of the reasons the user is told: what the
\* deletion recorded is compared with the state exactly as the deletion left it.
THEOREM RefusalsHaveReasons == Spec => NoFalseRefusal
<1>1. ASSUME TypeOK, UndoInv, [Next]_vars, NEW c \in Clients, pc[c] = "undo", pc'[c] = "idle",
             version'[plan[c].task] = 0
      PROVE  \/ receipt[plan[c].task] # plan[c].read \/ ~Active(plan[c].task)
             \/ jpc # "idle" \/ busy \/ plan[c].task \in touched
  <2>1. PICK t \in Tasks : t = plan[c].task
    BY <1>1 DEF TypeOK, RequestTypes
  <2>2. PICK read \in Receipts : read = plan[c].read
    BY <1>1 DEF TypeOK, RequestTypes
  <2>3. SUFFICES ASSUME receipt[t] = read, Active(t), jpc = "idle", ~busy, t \notin touched
                 PROVE  FALSE
    BY <2>1, <2>2
  <2>4. Undoable(t, read)
    BY <1>1, <2>1, <2>2, <2>3, UndoableUntouched
  <2>5. Restore(t, read)
    BY <1>1, <2>1, <2>2, <2>4, UndoneByCommit DEF CommitUndo
  <2>6. read.version \in Nat /\ version \in [Tasks -> Nat]
    BY <1>1, FieldTypes DEF TypeOK, RowTypes
  <2>7. version'[t] = read.version + 1
    BY <2>5, <2>6 DEF Restore
  <2> QED
    BY <1>1, <2>1, <2>6, <2>7
<1>2. TypeOK /\ UndoInv /\ [Next]_vars =>
         [\A c \in Clients : LET t == plan[c].task IN
             pc[c] = "undo" /\ pc'[c] = "idle" /\ version'[t] = 0 =>
                 \/ receipt[t] # plan[c].read \/ ~Active(t)
                 \/ jpc # "idle" \/ busy \/ t \in touched]_vars
  BY <1>1
<1> QED
  BY <1>2, UndoInvariant, PTL DEF Spec, NoFalseRefusal

\* Only a pull or a lookup inserts an event again, and only after the user kept Google's.
THEOREM NothingReturnsByItself == Spec => NoAutomaticReturn
<1> USE UndoAssumption
<1>1. ASSUME TypeOK, UndoInv, [Next]_vars, NEW t \in Tasks, event[t] = "none", event'[t] = "plain"
      PROVE  mapping[t].resolving
  <2>1. event \in [Tasks -> {"none", "block", "plain"}] /\ RowOK(t)
    BY <1>1 DEF TypeOK, RowTypes, UndoInv, RowInv
  <2>2. CASE event' = event
    BY <1>1, <2>2
  <2>3. ASSUME NEW s \in Tasks, Remove(s) PROVE FALSE
    BY <1>1, <2>1, <2>3 DEF Remove
  <2>4. ASSUME NEW s \in Tasks, NEW read, Restore(s, read) PROVE FALSE
    BY <1>1, <2>1, <2>4 DEF Restore
  <2>5. ASSUME NEW s \in Tasks, Cancel(s) PROVE FALSE
    BY <1>1, <2>1, <2>5 DEF Cancel
  <2>6. ASSUME NEW s \in Tasks, NEW ver, Import(s, ver) PROVE s = t
    BY <1>1, <2>1, <2>6 DEF Import
  <2>7. CASE Job
    <3>1. ASSUME NEW item \in inbox, TakeChange(item) PROVE mapping[t].resolving
      <4>1. Take(item) /\ item.live /\ ~mapping[item.task].tombstone /\ Import(item.task, item.ver)
        BY <3>1 DEF TakeChange, Held
      <4>2. item.task \in Tasks /\ ItemOK(item)
        BY <1>1, <4>1, TakeFacts
      <4>3. item.task = t
        BY <2>6, <4>1, <4>2
      <4>4. mapping[t].exists /\ ~mapping[t].tombstone
        BY <4>1, <4>2, <4>3 DEF ItemOK
      <4> QED
        BY <1>1, <2>1, <4>4, NoMappingFields DEF RowOK, Ordinary, Buried, Resolving
    <3>2. ASSUME NEW item \in inbox, Apply(item) PROVE mapping[t].resolving
      <4>1. item.task \in Tasks
        BY <1>1 DEF TypeOK, JobTypes
      <4> QED
        BY <2>2, <2>5, <3>1, <3>2, <4>1
           DEF Apply, SkipChange, DropCancelled, OpenConflict, TakeDeletion
    <3>3. ASSUME NEW s \in Linked, Reconcile(s) PROVE mapping[t].resolving
      BY <2>5, <2>6, <3>3 DEF Reconcile, ToReconcile
    <3>4. ASSUME NEW s \in Linked, PushDelete(s) \/ PushUpdate(s) PROVE FALSE
      BY <1>1, <3>4 DEF PushDelete, PushUpdate
    <3> QED
      BY <2>2, <2>7, <3>2, <3>3, <3>4
         DEF Job, StartJob, MarkConflict, DropReceipt, FinishPull, SelectDirty, ForgetMapping,
             EndJob, FailJob, Quit, local
  <2>8. CASE User
    <3>1. ASSUME NEW s \in Tasks, EditTask(s) \/ DeleteTask(s) \/ KeepGoogle(s) PROVE FALSE
      BY <1>1, <2>3, <3>1 DEF EditTask, DeleteTask, KeepGoogle, local
    <3>2. ASSUME NEW c \in Clients, NEW s \in Tasks, PrepareDelete(c, s) \/ ReadReceipt(c, s)
          PROVE  FALSE
      BY <1>1, <3>2 DEF PrepareDelete, ReadReceipt, Others, local
    <3>3. ASSUME NEW c \in Clients, Validate(c) \/ Invalid(c) PROVE FALSE
      BY <1>1, <3>3 DEF Validate, Invalid, Others, local
    <3>4. ASSUME NEW c \in Clients, CommitDelete(c) \/ CommitUndo(c) PROVE FALSE
      <4>1. plan[c].task \in Tasks
        BY <1>1, <3>4 DEF CommitDelete, CommitUndo, TypeOK, RequestTypes
      <4> QED
        BY <1>1, <2>3, <2>4, <3>4, <4>1 DEF CommitDelete, CommitUndo, Others, local
    <3> QED
      BY <2>2, <2>8, <3>1, <3>2, <3>3, <3>4
         DEF User, BeginElsewhere, EndElsewhere, ChangeDependency, ChangeFocus, local
  <2> QED
    BY <1>1, <2>2, <2>7, <2>8
       DEF Next, Fault, Quit, Elsewhere, GoogleEdit, GoogleDelete, CleanupReceipts, Tick, vars, local
<1>2. TypeOK /\ UndoInv /\ [Next]_vars =>
         [\A t \in Tasks : event[t] = "none" /\ event'[t] = "plain" => mapping[t].resolving]_vars
  BY <1>1
<1> QED
  BY <1>2, UndoInvariant, PTL DEF Spec, NoAutomaticReturn

\* If-Match and the selection of dirty rows: the version that goes is the one deleted here.
THEOREM OnlyOwnDeletions == Spec => OnlyOwnDeletionsReachGoogle
<1> USE UndoAssumption
<1>1. ASSUME TypeOK, UndoInv, [Next]_vars, NEW t \in Tasks, t \in erased' \ erased
      PROVE  t \notin open /\ mapping[t].tombstone /\ mapping[t].etag = gver[t]
  <2>1. erased' # erased
    BY <1>1
  <2>2. PICK s \in Linked : PushDelete(s)
    <3>1. ~(UNCHANGED vars) /\ ~User /\ ~Fault /\ ~Elsewhere /\ ~CleanupReceipts /\ ~Tick
      <4>1. ~User
        BY <2>1 DEF User, BeginElsewhere, EndElsewhere, ChangeDependency, ChangeFocus, EditTask,
           DeleteTask, Remove, KeepGoogle, Validate, Invalid, CommitDelete, CommitUndo, Restore, PrepareDelete, ReadReceipt, Others
      <4> QED
        BY <2>1, <4>1 DEF Fault, Quit, Elsewhere, GoogleEdit, GoogleDelete, CleanupReceipts, Tick, vars
    <3>2. Job
      BY <1>1, <3>1 DEF Next
    <3> QED
      BY <2>1, <3>2
         DEF Job, StartJob, Apply, SkipChange, DropCancelled, OpenConflict, TakeChange, TakeDeletion,
             Take, MarkConflict, DropReceipt, FinishPull, SelectDirty, ForgetMapping, EndJob, FailJob,
             Quit, Reconcile, PushUpdate
  <2>3. s = t /\ Accepts(t) /\ t \in Linked
    <3>1. Accepts(s) /\ erased' = erased \cup {s}
      BY <2>1, <2>2 DEF PushDelete
    <3>2. s = t
      BY <1>1, <3>1
    <3> QED
      BY <3>1, <3>2
  <2>4. mapping[t].deleted /\ mapping[t].exists /\ ~mapping[t].resolving
    BY <1>1, <2>2, <2>3 DEF PushDelete, UndoInv, HandInv
  <2>5. RowOK(t) /\ EventOK(t)
    BY <1>1 DEF UndoInv, RowInv
  <2>6. Buried(t)
    BY <2>4, <2>5, NoMappingFields DEF RowOK, Ordinary, Resolving
  <2>7. glive[t] /\ mapping[t].etag = gver[t]
    BY <2>3, <2>6 DEF Accepts, Buried
  <2> QED
    BY <2>5, <2>6, <2>7 DEF Buried, EventOK
<1>2. TypeOK /\ UndoInv /\ [Next]_vars =>
         [\A t \in Tasks : t \in erased' \ erased =>
             t \notin open /\ mapping[t].tombstone /\ mapping[t].etag = gver[t]]_vars
  BY <1>1
<1> QED
  BY <1>2, UndoInvariant, PTL DEF Spec, OnlyOwnDeletionsReachGoogle
=============================================================================
