----------------------------- MODULE GoogleTasks -----------------------------
(***************************************************************************)
(* Two-way synchronization of tasks with one Google Tasks list: durable    *)
(* creation intents found again by a reference in the notes, three-way     *)
(* merge of the shared fields against the last common baseline, conflicts  *)
(* the user decides, detachment instead of deletion, and scans in batches  *)
(* with saved cursors.  A job holds the owner's synchronization lock from  *)
(* StartJob to its end; the requests that take the same lock happen only   *)
(* between jobs, edits of tasks and everything done in Google at any time. *)
(* The job queue itself is SyncJobs' subject: here a job is queued,        *)
(* running, to be retried, given up, or lost with its worker.              *)
(***************************************************************************)
EXTENDS Naturals, FiniteSets, FiniteSetsExt

CONSTANTS
    MaxTasks, MaxGoogle,  \* bounds: rows of tasks, items of the Google list
    Fields,               \* the synchronized fields: title, date, completion
    BatchSize,            \* 10 in the code
    MaxEdits,             \* bound: changes made by the user in either app
    MaxMoves,             \* bound: of these, tasks created or deleted in either app, Tasks disabled
    MaxFaults             \* bound: requests to Google that fail, workers that die

ASSUME TasksAssumption ==
    /\ MaxTasks \in Nat \ {0} /\ MaxGoogle \in Nat \ {0} /\ BatchSize \in Nat \ {0}
    /\ MaxEdits \in Nat /\ MaxMoves \in Nat /\ MaxFaults \in Nat

VARIABLES
    edits, moves, faults,
    task, held,          \* tasks; those deleted with an active Undo receipt
    link,                \* google_task_links, by task
    conn,                \* google_task_connections
    queued, failed,      \* a job of this kind is pending; the connection's last_error
    google,              \* the items of the list
    jpc, snap, scan, cur, plan,          \* the running job
    mineHere, mineThere, interrupted, \* history: the user's uncarried changes; a job was lost;
    decided,             \* history: the conflict of a choice not yet applied, by task
    adopted,             \* history: links recovered from an uncertain creation, not visited since
    refused              \* history: tasks whose last visit ended with a refusal by update_task

tasks == <<task, held>>
jobVars == <<jpc, snap, scan, cur, plan>>
vars == <<edits, moves, faults, tasks, link, conn, queued, failed, google, jobVars, decided,
          mineHere, mineThere, interrupted, adopted, refused>>

Tasks == 1..MaxTasks
Items == 1..MaxGoogle

Unset == [x \in Fields |-> 0]
NoTask == [live |-> FALSE, version |-> 0, f |-> Unset]
NoItem == [st |-> "unused", etag |-> 0, f |-> Unset, ref |-> 0]
NoSnapshot == [g \in Items |-> NoItem]
NoConflict == [version |-> 0, etag |-> 0, local |-> Unset, google |-> Unset]
NoLink == [phase |-> "none", id |-> 0, ext |-> 0, etag |-> 0, base |-> Unset,
           conflict |-> NoConflict, choice |-> "none"]
NoScan == [todo |-> {}, imported |-> 0, more |-> FALSE, errs |-> FALSE, lc |-> 0, ic |-> 0]
NoPlan == [local |-> NoTask, etag |-> 0, merged |-> Unset, item |-> 0]

\* One task and one Google item that do not know of each other, or none; Tasks is
\* authorized and not yet configured.
Init ==
    /\ edits = 0 /\ moves = 0 /\ faults = 0
    /\ \E inUse \in BOOLEAN :
          /\ task = [t \in Tasks |->
                IF inUse /\ t = 1 THEN [NoTask EXCEPT !.live = TRUE, !.version = 1] ELSE NoTask]
          /\ google = [g \in Items |->
                IF inUse /\ g = MaxGoogle THEN [NoItem EXCEPT !.st = "live", !.etag = 1] ELSE NoItem]
    /\ held = {}
    /\ link = [t \in Tasks |-> NoLink]
    /\ conn = [enabled |-> FALSE, partial |-> FALSE, changed |-> FALSE,
               lc |-> 0, ic |-> 0, errs |-> FALSE]
    /\ queued = FALSE /\ failed = FALSE
    /\ decided = [t \in Tasks |-> NoConflict]
    /\ jpc = "idle" /\ snap = NoSnapshot /\ scan = NoScan /\ cur = 0 /\ plan = NoPlan
    /\ mineHere = [t \in Tasks |-> {}] /\ mineThere = [g \in Items |-> {}]
    /\ interrupted = FALSE /\ adopted = {} /\ refused = {}

-----------------------------------------------------------------------------
(* The shared fields.                                                      *)

\* merge of one field: the value, or nothing when both sides changed it.
Merge(base, local, remote) ==
    IF local = remote \/ remote = base THEN {local}
    ELSE IF local = base THEN {remote}
    ELSE {}

Reconcilable(base, local, remote) ==
    \A x \in Fields : Merge(base[x], local[x], remote[x]) # {}

\* reconcile, and resolve_conflicting_fields when a choice decides divergent fields.
Reconcile(base, local, remote, preferred) ==
    [x \in Fields |-> IF Merge(base[x], local[x], remote[x]) # {}
                      THEN CHOOSE v \in Merge(base[x], local[x], remote[x]) : TRUE
                      ELSE preferred[x]]

\* The row a task and an item are copies of each other by: the recorded identity, or
\* the reference that the creation put in the notes.
Paired(l, g, item) == l.ext = g \/ (l.id # 0 /\ item.ref = l.id)

\* The user's changes that the other app does not have.  A field is no longer the
\* user's own once both apps hold the same value.
Track(byUser) ==
    LET agree(t, g, x) == /\ task'[t].live /\ google'[g].st = "live"
                          /\ Paired(link'[t], g, google'[g])
                          /\ task'[t].f[x] = google'[g].f[x]
        changed(old, new, x, mine) == IF old.f[x] = new.f[x] THEN x \in mine ELSE byUser
        here(t, x) == task'[t].version # 0 /\ changed(task[t], task'[t], x, mineHere[t])
        there(g, x) == changed(google[g], google'[g], x, mineThere[g])
    IN  /\ mineHere' = [t \in Tasks |-> {x \in Fields :
              here(t, x) /\ \A g \in Items : ~agree(t, g, x)}]
        /\ mineThere' = [g \in Items |-> {x \in Fields :
              there(g, x) /\ \A t \in Tasks : ~agree(t, g, x)}]

-----------------------------------------------------------------------------
(* The user, here and in Google.                                           *)

Edit == edits + moves < MaxEdits /\ edits' = edits + 1 /\ UNCHANGED <<moves, faults>>

Move == moves < MaxMoves /\ edits + moves < MaxEdits /\ moves' = moves + 1 /\ UNCHANGED <<edits, faults>>

\* Bound: every task and every item can still get its copy.
Room ==
    LET used == {t \in Tasks : task[t] # NoTask \/ link[t] # NoLink}
        items == {g \in Items : google[g].st # "unused"}
        alone == {t \in used : \A g \in items : ~Paired(link[t], g, google[g])}
        foreign == {g \in items : \A t \in used : ~Paired(link[t], g, google[g])}
    IN  /\ Cardinality(used) + Cardinality(foreign) < MaxTasks
        /\ Cardinality(items) + Cardinality(alone) < MaxGoogle

\* A scan has taken its revision; conn.changed says that change_revision moved since.
Scanning == conn.partial \/ jpc # "idle"

\* enqueue_google_tasks_change, the trigger on tasks.
TaskChanged ==
    IF conn.enabled
    THEN conn' = [conn EXCEPT !.changed = Scanning] /\ queued' = TRUE
    ELSE UNCHANGED <<conn, queued>>

\* A new row's id: the first that no task and no link has used.
Fresh(t) ==
    /\ task[t] = NoTask /\ link[t] = NoLink
    /\ \A u \in Tasks : u < t => task[u] # NoTask \/ link[u] # NoLink

CreateTask(t) ==
    /\ Move /\ Room
    /\ Fresh(t)
    /\ task' = [task EXCEPT ![t] = [live |-> TRUE, version |-> 1, f |-> Unset]]
    /\ TaskChanged
    /\ UNCHANGED <<held, link, failed, google, decided, jobVars, interrupted, adopted, refused>>

\* Every edit writes a value of its own: an edit is never taken for the absence of one.
EditTask(t, x) ==
    /\ Edit
    /\ task[t].live
    /\ task' = [task EXCEPT ![t].version = @ + 1, ![t].f[x] = edits']
    /\ TaskChanged
    /\ UNCHANGED <<held, link, failed, google, decided, jobVars, interrupted, adopted, refused>>

\* delete_task, which has no Undo and does not take the synchronization lock.
DeleteTask(t) ==
    /\ Move
    /\ task[t].live
    /\ task' = [task EXCEPT ![t] = NoTask]
    /\ TaskChanged
    /\ UNCHANGED <<held, link, failed, google, decided, jobVars, interrupted, adopted, refused>>

\* The reversible deletion, its Undo and its expiry; TaskDeleteUndo has the details.
DeleteReversibly(t) ==
    /\ Move
    /\ jpc = "idle" /\ task[t].live
    /\ held' = held \cup {t}
    /\ task' = [task EXCEPT ![t].live = FALSE]
    /\ TaskChanged
    /\ UNCHANGED <<link, failed, google, decided, jobVars, interrupted, adopted, refused>>

UndoDelete(t) ==
    /\ jpc = "idle" /\ t \in held
    /\ held' = held \ {t}
    /\ task' = [task EXCEPT ![t].live = TRUE, ![t].version = @ + 1]
    /\ TaskChanged
    /\ UNCHANGED <<edits, moves, faults, link, failed, google, decided, jobVars, interrupted, adopted, refused>>

UndoExpires(t) ==
    /\ t \in held
    /\ held' = held \ {t}
    /\ task' = [task EXCEPT ![t] = NoTask]
    /\ UNCHANGED <<edits, moves, faults, link, conn, queued, failed, google, decided, jobVars, interrupted, adopted, refused>>

GoogleUnchangedElsewhere ==
    UNCHANGED <<tasks, link, conn, queued, failed, decided, jobVars, interrupted, adopted, refused>>

GoogleCreate(g) ==
    /\ Move /\ Room
    /\ google[g].st = "unused"
    /\ google' = [google EXCEPT ![g] = [st |-> "live", etag |-> 1, ref |-> 0,
                                        f |-> Unset]]
    /\ GoogleUnchangedElsewhere

GoogleEdit(g, x) ==
    /\ Edit
    /\ google[g].st = "live"
    /\ google' = [google EXCEPT ![g].etag = @ + 1, ![g].f[x] = edits']
    /\ GoogleUnchangedElsewhere

GoogleDelete(g, st) ==
    /\ Move
    /\ google[g].st \in {"live", "deleted"} \ {st}
    /\ google' = [google EXCEPT ![g].st = st, ![g].etag = @ + 1]
    /\ GoogleUnchangedElsewhere

-----------------------------------------------------------------------------
(* Requests that take the synchronization lock.                            *)

ResetScan(enabled) ==
    [conn EXCEPT !.enabled = enabled, !.partial = FALSE, !.changed = FALSE, !.lc = 0, !.ic = 0, !.errs = FALSE]

\* configure and configure_google_tasks.
Enable ==
    /\ jpc = "idle" /\ ~conn.enabled
    /\ conn' = ResetScan(TRUE)
    /\ queued' = TRUE
    /\ UNCHANGED <<edits, moves, faults, tasks, link, failed, google, decided, jobVars, interrupted, adopted, refused>>

Disable ==
    /\ Move
    /\ jpc = "idle" /\ conn.enabled
    /\ conn' = ResetScan(FALSE)
    /\ UNCHANGED <<tasks, link, queued, failed, google, decided, jobVars, interrupted, adopted, refused>>

\* google_task_conflicts and resolve_google_task_conflict: a choice for the displayed
\* conflict, which must still be the recorded one; a job applies it.
ResolveConflict(t, choice) ==
    /\ jpc = "idle" /\ conn.enabled
    /\ link[t].conflict # NoConflict /\ link[t].choice = "none" /\ link[t].phase = "linked"
    /\ task[t].live /\ task[t].version = link[t].conflict.version
    /\ link' = [link EXCEPT ![t].choice = choice]
    /\ decided' = [decided EXCEPT ![t] = link[t].conflict]
    /\ conn' = [conn EXCEPT !.changed = Scanning]
    /\ queued' = TRUE
    /\ UNCHANGED <<edits, moves, faults, tasks, failed, google, jobVars, interrupted, adopted, refused>>

\* leave_google_task_unlinked
LeaveUnlinked(t) ==
    /\ jpc = "idle"
    /\ link[t].phase = "creating" /\ t \notin held
    /\ link' = [link EXCEPT ![t].phase = "detached"]
    /\ UNCHANGED <<edits, moves, faults, tasks, conn, queued, failed, google, decided, jobVars, interrupted, adopted, refused>>

\* synchronize and enqueue_periodic_synchronizations
Periodic ==
    /\ conn.enabled
    /\ queued' = TRUE
    /\ UNCHANGED <<edits, moves, faults, tasks, link, conn, failed, google, decided, jobVars, interrupted, adopted, refused>>

-----------------------------------------------------------------------------
(* The job.                                                                *)

World == <<edits, moves, tasks>>

Quiet == jpc' = "idle" /\ snap' = NoSnapshot /\ scan' = NoScan /\ cur' = 0 /\ plan' = NoPlan

\* The first BatchSize members of S in the order of key.
First(S, key(_)) == {s \in S : Cardinality({r \in S : key(r) < key(s)}) < BatchSize}

\* sync_google_tasks_inner: all pages are listed, the saved progress is read, missing
\* links are prepared, and the links of this batch are chosen.  The listing reads only
\* Google, the rest only tasks and links, which no request writes during a job: what
\* happens between them could have happened before or after.
StartJob ==
    /\ jpc = "idle" /\ queued /\ conn.enabled
    /\ queued' = FALSE
    /\ snap' = google
    /\ LET unlinked == {t \in Tasks : task[t].live /\ link[t] = NoLink}
           new == First(unlinked, LAMBDA t : t)
           used == Max({link[t].id : t \in Tasks})
           prepared == [t \in Tasks |->
               IF t \in new THEN [NoLink EXCEPT !.phase = "prepared",
                                     !.id = used + Cardinality({u \in new : u <= t})]
               ELSE link[t]]
           ahead == {t \in Tasks : /\ prepared[t].phase \notin {"none", "detached"}
                                   /\ prepared[t].id > conn.lc}
           todo == First(ahead, LAMBDA t : prepared[t].id)
       IN  /\ link' = prepared
           /\ scan' = [todo |-> todo, imported |-> 0, errs |-> conn.errs,
                       more |-> new # unlinked \/ todo # ahead, lc |-> conn.lc, ic |-> conn.ic]
    /\ jpc' = "link"
    /\ UNCHANGED <<World, faults, conn, failed, google, cur, plan, interrupted, decided, adopted, refused>>

\* The connection is disabled: nothing to do, and no error.
SkipJob ==
    /\ jpc = "idle" /\ queued /\ ~conn.enabled
    /\ queued' = FALSE /\ failed' = FALSE
    /\ UNCHANGED <<World, faults, link, conn, google, jobVars, interrupted, decided, adopted, refused>>

\* The job ends with an error and is retried, or was at its last attempt.
JobFails ==
    /\ failed' = TRUE
    /\ \E again \in BOOLEAN : queued' = again

\* No permission, no token, or the listing failed.
ListingFails ==
    /\ jpc = "idle" /\ queued /\ conn.enabled
    /\ faults < MaxFaults /\ faults' = faults + 1
    /\ JobFails
    /\ UNCHANGED <<World, link, conn, google, jobVars, interrupted, decided, adopted, refused>>

\* The worker dies: its job is never claimed again.
Crash ==
    /\ jpc # "idle"
    /\ faults < MaxFaults /\ faults' = faults + 1
    /\ interrupted' = TRUE
    /\ conn' = [conn EXCEPT !.changed = @ /\ conn.partial]
    /\ Quiet
    /\ UNCHANGED <<World, link, queued, failed, google, decided, adopted, refused>>

\* A visit that ends while the merged fields are being applied, to a task that is as it was
\* read: the application itself refuses them.
Refused(t) == jpc = "apply" /\ task[t].live /\ task[t].version = plan.local.version

\* After a link: the next one, with what became of this one.
LinkEnds(t, err, recovered) ==
    /\ scan' = [scan EXCEPT !.todo = @ \ {t}, !.lc = link[t].id, !.errs = @ \/ err]
    /\ jpc' = "link" /\ cur' = 0 /\ plan' = NoPlan
    /\ decided' = [decided EXCEPT ![t] = IF link'[t].choice = "none" THEN NoConflict ELSE @]
    /\ adopted' = IF recovered THEN adopted \cup {t} ELSE adopted \ {t}
    /\ refused' = IF Refused(t) THEN refused \cup {t} ELSE refused \ {t}

LinkDone(t, err) == LinkEnds(t, err, FALSE)

SetLink(t, row) == link' = [link EXCEPT ![t] = row]

\* record_google_task_link and detach_google_task
Recorded(t, item, etag, base) ==
    [link[t] EXCEPT !.phase = "linked", !.ext = item, !.etag = etag, !.base = base,
                    !.conflict = NoConflict, !.choice = "none"]
Detached(t) ==
    [link[t] EXCEPT !.phase = "detached", !.conflict = NoConflict, !.choice = "none"]

NextLink(t) == jpc = "link" /\ t \in scan.todo /\ \A u \in scan.todo : link[t].id <= link[u].id

LinkUnchanged == UNCHANGED <<World, faults, conn, queued, failed, google, snap, interrupted>>

\* sync_google_task_link for a task that is held or gone.
PassHeld(t) ==
    /\ NextLink(t) /\ t \in held
    /\ UNCHANGED link
    /\ LinkDone(t, FALSE)
    /\ LinkUnchanged

DetachDeleted(t) ==
    /\ NextLink(t) /\ t \notin held /\ ~task[t].live
    /\ SetLink(t, Detached(t))
    /\ LinkDone(t, FALSE)
    /\ LinkUnchanged

\* A creation whose outcome is unknown: only the one item with its reference counts.
RecoverCreate(t) ==
    /\ NextLink(t) /\ t \notin held /\ task[t].live /\ link[t].phase = "creating"
    /\ LET found == {g \in Items : snap[g].st \in {"live", "deleted"} /\ snap[g].ref = link[t].id}
       IN  IF Cardinality(found) = 1 /\ \A g \in found : snap[g].st = "live"
           THEN /\ \E g \in found : SetLink(t, Recorded(t, g, snap[g].etag, link[t].base))
                /\ LinkEnds(t, FALSE, TRUE)
           ELSE UNCHANGED link /\ LinkDone(t, TRUE)
    /\ LinkUnchanged

\* A prepared link is claimed for creation with the task's present fields.
ClaimCreate(t) ==
    /\ NextLink(t) /\ t \notin held /\ task[t].live /\ link[t].phase = "prepared"
    /\ SetLink(t, [link[t] EXCEPT !.phase = "creating", !.base = task[t].f])
    /\ cur' = t
    /\ plan' = [NoPlan EXCEPT !.local = task[t], !.merged = task[t].f]
    /\ jpc' = "post"
    /\ UNCHANGED <<scan, decided, adopted, refused>> /\ LinkUnchanged

PostCreates(g) ==
    /\ google[g].st = "unused"
    /\ google' = [google EXCEPT ![g] = [st |-> "live", etag |-> 1, f |-> plan.merged, ref |-> link[cur].id]]

\* create: Google answers with the new item.
PostAnswered(g) ==
    /\ jpc = "post" /\ PostCreates(g)
    /\ plan' = [plan EXCEPT !.item = g, !.etag = 1]
    /\ jpc' = "record"
    /\ UNCHANGED <<World, faults, link, conn, queued, failed, snap, scan, cur, interrupted, decided, adopted, refused>>

\* The request or its answer is lost: the intent stays, created or not.
PostUncertain ==
    /\ jpc = "post"
    /\ faults < MaxFaults /\ faults' = faults + 1
    /\ \/ \E g \in Items : PostCreates(g)
       \/ UNCHANGED google
    /\ UNCHANGED <<World, link, conn, queued, failed, snap, interrupted>>
    /\ LinkDone(cur, TRUE)

\* Google refuses the request: the link is prepared again.
PostRejected ==
    /\ jpc = "post"
    /\ faults < MaxFaults /\ faults' = faults + 1
    /\ SetLink(cur, [link[cur] EXCEPT !.phase = "prepared"])
    /\ LinkDone(cur, TRUE)
    /\ UNCHANGED <<World, conn, queued, failed, google, snap, interrupted>>

\* The remote copy of a linked task: from the snapshot, or fetched by its identity.
Remote(t) ==
    LET g == link[t].ext
    IN  IF snap[g].st \in {"live", "deleted"} THEN snap[g] ELSE google[g]

Linked(t) == NextLink(t) /\ t \notin held /\ task[t].live /\ link[t].phase = "linked"

DetachMissing(t) ==
    /\ Linked(t) /\ Remote(t).st # "live"
    /\ SetLink(t, Detached(t))
    /\ LinkDone(t, FALSE)
    /\ LinkUnchanged

\* The conflict describes both apps as they are now.
Current(t) ==
    link[t].conflict = [version |-> task[t].version, etag |-> Remote(t).etag,
                        local |-> task[t].f, google |-> Remote(t).f]

RecordConflict(t) ==
    /\ Linked(t) /\ Remote(t).st = "live"
    /\ ~Reconcilable(link[t].base, task[t].f, Remote(t).f)
    /\ ~Current(t) \/ link[t].choice = "none"
    /\ IF Current(t) THEN UNCHANGED link
       ELSE SetLink(t, [link[t] EXCEPT !.choice = "none", !.conflict =
                [version |-> task[t].version, etag |-> Remote(t).etag,
                 local |-> task[t].f, google |-> Remote(t).f]])
    /\ LinkDone(t, TRUE)
    /\ LinkUnchanged

\* The version a write shall replace; mutant: the one of the last recorded agreement.
RecordedEtag(t) == link[t].etag
IfMatch(t) == Remote(t).etag

\* What both apps shall hold, without a conflict or by the user's choice.
PlanMerge(t) ==
    /\ Linked(t) /\ Remote(t).st = "live"
    /\ \/ Reconcilable(link[t].base, task[t].f, Remote(t).f)
       \/ Current(t) /\ link[t].choice # "none"
    /\ LET preferred == IF link[t].choice = "google" THEN Remote(t).f ELSE task[t].f
           merged == Reconcile(link[t].base, task[t].f, Remote(t).f, preferred)
       IN  /\ plan' = [local |-> task[t], etag |-> IfMatch(t), merged |-> merged, item |-> link[t].ext]
           /\ jpc' = IF merged # Remote(t).f THEN "patch"
                     ELSE IF merged # task[t].f THEN "apply" ELSE "record"
    /\ cur' = t
    /\ UNCHANGED <<link, scan, decided, adopted, refused>> /\ LinkUnchanged

AfterPatch == IF plan.merged # plan.local.f THEN "apply" ELSE "record"

\* Fault: the write is not conditional.
MatchesAny(g, etag) == google[g].st = "live"

Matches(g, etag) == google[g].st = "live" /\ google[g].etag = etag

Patched(g) == google' = [google EXCEPT ![g].f = plan.merged, ![g].etag = @ + 1]

\* update, with If-Match: Google acknowledges the merged fields,
PatchAnswered ==
    /\ jpc = "patch" /\ Matches(plan.item, plan.etag)
    /\ Patched(plan.item)
    /\ plan' = [plan EXCEPT !.etag = google'[plan.item].etag]
    /\ jpc' = AfterPatch
    /\ UNCHANGED <<World, faults, link, conn, queued, failed, snap, scan, cur, interrupted, decided, adopted, refused>>

\* refuses because the item changed or is gone,
PatchRefused ==
    /\ jpc = "patch" /\ ~Matches(plan.item, plan.etag)
    /\ UNCHANGED link
    /\ LinkDone(cur, TRUE)
    /\ LinkUnchanged

\* or the answer does not arrive.
PatchUncertain ==
    /\ jpc = "patch" /\ faults < MaxFaults /\ faults' = faults + 1
    /\ \/ Matches(plan.item, plan.etag) /\ Patched(plan.item)
       \/ UNCHANGED google
    /\ UNCHANGED <<World, link, conn, queued, failed, snap, interrupted>>
    /\ LinkDone(cur, TRUE)

\* update_task with the version that was read; the trigger sees the change.
ApplyLocally ==
    /\ jpc = "apply" /\ task[cur].live /\ task[cur].version = plan.local.version
    /\ task' = [task EXCEPT ![cur].f = plan.merged, ![cur].version = @ + 1]
    /\ TaskChanged
    /\ jpc' = "record"
    /\ UNCHANGED <<edits, moves, faults, held, link, failed, google, snap, scan, cur, plan, interrupted, decided, adopted, refused>>

\* The task is gone or was changed; or google_task_deadline or update_task refuses what Google
\* holds: a date without that hour, a repeating task without deadline or beyond the last date,
\* the reopening of a task whose successor was changed.  The columns and the calendar that
\* decide it are not modelled, and a refusal may come back in every job.
ApplyRefused ==
    /\ jpc = "apply"
    /\ UNCHANGED link
    /\ LinkDone(cur, TRUE)
    /\ LinkUnchanged

RecordLink ==
    /\ jpc = "record"
    /\ SetLink(cur, Recorded(cur, plan.item, plan.etag, plan.merged))
    /\ LinkDone(cur, FALSE)
    /\ LinkUnchanged

\* An item nobody knows, by identity or by reference; mutant: references are not looked at.
UnknownIdentity(g) == \A t \in Tasks : link[t].ext # g
Stranger(g) == \A t \in Tasks : ~Paired(link[t], g, snap[g])

\* The items still to import in this scan, after all links of the batch.
Candidates == {g \in Items : snap[g].st = "live" /\ g > scan.ic /\ Stranger(g)}

\* import_google_task: the task and its link in one transaction.
Import(g, t) ==
    /\ jpc = "link" /\ scan.todo = {} /\ scan.imported < BatchSize
    /\ g \in Candidates /\ \A h \in Candidates : g <= h
    /\ Fresh(t)
    /\ task' = [task EXCEPT ![t] = [live |-> TRUE, version |-> 1, f |-> snap[g].f]]
    /\ SetLink(t, [NoLink EXCEPT !.phase = "linked", !.ext = g, !.etag = snap[g].etag, !.base = snap[g].f,
                                 !.id = 1 + Max({link[u].id : u \in Tasks})])
    /\ TaskChanged
    /\ scan' = [scan EXCEPT !.imported = @ + 1, !.ic = g]
    /\ UNCHANGED <<edits, moves, faults, held, failed, google, jpc, snap, cur, plan, interrupted, decided, adopted, refused>>

\* google_task_deadline refuses the date of an item, or the transaction fails: with it the
\* whole job, before any progress is stored.
ImportFails ==
    /\ jpc = "link" /\ scan.todo = {} /\ scan.imported < BatchSize /\ Candidates # {}
    /\ faults < MaxFaults /\ faults' = faults + 1
    /\ failed' = TRUE
    /\ \E again \in BOOLEAN : queued' = (queued \/ again)
    /\ conn' = [conn EXCEPT !.changed = @ /\ conn.partial]
    /\ Quiet
    /\ UNCHANGED <<World, link, google, interrupted, decided, adopted, refused>>

\* A task changed, or a conflict was decided, after the scan took its revision.
FollowUpNever == FALSE
FollowUp == conn.changed

\* The progress that is stored.
More == scan.more \/ Candidates # {}
Progress ==
    [conn EXCEPT !.partial = More, !.changed = @ /\ More, !.errs = More /\ scan.errs,
                 !.lc = IF More THEN scan.lc ELSE 0, !.ic = IF More THEN scan.ic ELSE 0]

\* finish_google_tasks_batch, and the error or success that sync_google_tasks stores.
FinishBatch ==
    /\ jpc = "link" /\ scan.todo = {} /\ (scan.imported = BatchSize \/ Candidates = {})
    /\ conn' = Progress
    /\ LET followUp == More \/ FollowUp
       IN  IF ~followUp /\ scan.errs
           THEN /\ failed' = TRUE
                /\ \E again \in BOOLEAN : queued' = (queued \/ again)
                /\ UNCHANGED interrupted
           ELSE /\ failed' = FALSE /\ queued' = (queued \/ followUp)
                /\ interrupted' = (interrupted /\ followUp)
    /\ Quiet
    /\ UNCHANGED <<World, faults, link, google, decided, adopted, refused>>

-----------------------------------------------------------------------------
UserStep ==
    \/ Enable \/ Disable
    \/ \E t \in Tasks :
          \/ CreateTask(t) \/ DeleteTask(t) \/ DeleteReversibly(t) \/ UndoDelete(t) \/ UndoExpires(t)
          \/ LeaveUnlinked(t)
          \/ \E x \in Fields : EditTask(t, x)
          \/ \E choice \in {"google", "prosepect"} : ResolveConflict(t, choice)
    \/ \E g \in Items :
          \/ GoogleCreate(g)
          \/ \E x \in Fields : GoogleEdit(g, x)
          \/ \E st \in {"deleted", "purged"} : GoogleDelete(g, st)

JobStep ==
    \/ StartJob \/ SkipJob
    \/ \E t \in Tasks :
          \/ PassHeld(t) \/ DetachDeleted(t) \/ RecoverCreate(t) \/ ClaimCreate(t)
          \/ DetachMissing(t) \/ RecordConflict(t) \/ PlanMerge(t)
          \/ \E g \in Items : Import(g, t)
    \/ \E g \in Items : PostAnswered(g)
    \/ PatchAnswered \/ PatchRefused \/ ApplyLocally \/ ApplyRefused \/ RecordLink
    \/ FinishBatch

Fault == ListingFails \/ Crash \/ ImportFails \/ PostUncertain \/ PostRejected \/ PatchUncertain

Next ==
    \/ (UserStep \/ Periodic) /\ Track(TRUE)
    \/ (JobStep \/ Fault) /\ Track(FALSE)

Spec == Init /\ [][Next]_vars

\* The dispatcher polls the queue and runs what it claims; periodic jobs keep coming.
FairSpec ==
    /\ Spec
    /\ WF_vars(JobStep /\ Track(FALSE)) /\ WF_vars(Periodic /\ Track(TRUE))

-----------------------------------------------------------------------------
(* Properties.                                                             *)

\* However jobs are cut short, retried and continued, a task never has two Google
\* copies and an item never two tasks: an uncertain creation is not posted again
\* (sync_google_task_link), its copy is not imported as a stranger, and what was
\* deleted or detached on one side is not recreated.
OneCopy ==
    /\ \A t \in Tasks : Cardinality({g \in Items : Paired(link[t], g, google[g])}) <= 1
    /\ \A g \in Items : Cardinality({t \in Tasks : Paired(link[t], g, google[g])}) <= 1

\* The job changes a field that the user changed, and that the other app does not
\* have yet, only when the user saw exactly this value in a conflict and chose the
\* other one: reconcile never picks a winner, stale snapshots and choices are refused.
NoSilentOverwrite ==
    [][jpc' # jpc =>
        /\ \A t \in Tasks : \A x \in mineHere[t] :
              task[t].live /\ task'[t].f[x] # task[t].f[x] =>
                 link[t].choice = "google" /\ decided[t].local[x] = task[t].f[x]
        /\ \A g \in Items : \A x \in mineThere[g] :
              google'[g].f[x] # google[g].f[x] =>
                 \E t \in Tasks : /\ link[t].ext = g
                                  /\ link[t].choice = "prosepect"
                                  /\ decided[t].google[x] = google[g].f[x]]_vars

\* When no job is queued or running, none was lost and no error is decided, every task
\* is linked or detached, and no change of a linked task waits: changes behind a saved
\* cursor, during a job or during the last batch always find a follow-up.  (A link just
\* recovered keeps the baseline that was sent and is compared in the next scan.)  A task
\* whose deletion was undone is detached only when its copy was deleted in Google.
NothingStranded ==
    conn.enabled /\ jpc = "idle" /\ ~queued /\ ~failed /\ ~interrupted =>
        \A t \in Tasks : task[t].live =>
            \/ t \in adopted
            \/ /\ link[t].phase = "detached"
               /\ link[t].ext = 0 \/ google[link[t].ext].etag # link[t].etag
            \/ link[t].phase = "linked" /\ task[t].f = link[t].base

\* A task's copies agree, or what keeps them apart is up to the user: a conflict to
\* decide, an uncertain creation to leave, a detached copy.
Settled(t) ==
    \/ link[t].phase \in {"creating", "detached"}
    \/ /\ link[t].phase = "linked"
       /\ \/ link[t].conflict # NoConflict /\ link[t].choice = "none"
          \/ google[link[t].ext].st = "live" /\ task[t].f = google[link[t].ext].f

\* Once edits stop, every task settles, unless the application itself refuses what Google
\* holds, and every Google item is known, whatever was lost on the way: partial scans go on,
\* writes that met a newer version are planned again, a task that is refused holds up no
\* other, and nothing is written back and forth.
Converges ==
    <>[](conn.enabled =>
            /\ \A t \in Tasks : task[t].live => Settled(t) \/ t \in refused
            /\ \A g \in Items : google[g].st = "live" =>
                  \E t \in Tasks : Paired(link[t], g, google[g]))
=============================================================================
