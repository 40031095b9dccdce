---------------------------- MODULE CalendarSync ----------------------------
(***************************************************************************)
(* Two-way synchronization of one Google calendar: what execute does for a *)
(* calendar_sync job (sync_calendars, pull_calendar, apply_remote_event,   *)
(* push_calendar), the user requests that change events and settle         *)
(* conflicts meanwhile, and Google's side of the calendar.  A user's jobs  *)
(* are serialized (OneExecutorPerUser of SyncJobs), so there is one        *)
(* synchronizing process; every statement and every HTTP call of it is a   *)
(* step, and requests, Google users and failures meet between any two.     *)
(* An event's content is the number of the edit that wrote it.             *)
(***************************************************************************)
EXTENDS Naturals, FiniteSets

CONSTANTS
    Events,          \* calendar_events ids; google_event_id(e) is e itself
    Born,            \* bound: those that the user creates, the others are for imports
    Foreign,         \* ids of events that are created in Google
    NoEvent,         \* canonical_event_id IS NULL
    Policies,        \* values of user_settings.sync_conflict_policy to start from
    Choices,         \* resolutions the user may choose for a conflict
    Operations,      \* requests the user makes, and changes made in Google
    BusyOperations,  \* the requests that may also arrive while a job runs
    MaxEdits,        \* bound: edits made by the user and in Google
    MaxFaults        \* bound: crashes, timeouts and failed statements

Ids == Events \cup Foreign
Resolutions == {"google", "prosepect", "latest"}

ASSUME CalendarAssumption ==
    /\ Events \cap Foreign = {} /\ Born \subseteq Events
    /\ NoEvent \notin Events
    /\ Policies \subseteq Resolutions \cup {"ask"}
    /\ Choices \subseteq Resolutions
    /\ BusyOperations \subseteq Operations
    /\ Operations \subseteq {"create", "edit", "delete", "move", "resolve",
                              "google edit", "google delete"}
    /\ MaxEdits \in Nat /\ MaxFaults \in Nat

VARIABLES
    now, edits, faults,
    gver, glive, gbody,       \* Google: etag and update time, status, content
    expired,                  \* Google: the stored sync token is no longer valid
    body, updated, home,      \* calendar_events: content (0: no row), updated_at, in this calendar
    mapping,                  \* external_event_mappings by external_event_id
    open,                     \* mappings with an unresolved sync_conflicts row
    token, policy,            \* calendars.sync_token (0: NULL), the conflict policy
    pc, inbox, cur, mark, work  \* the job: place, changes to apply, item in hand,
                                \* next_sync_token, rows to push

google == <<gver, glive, gbody>>
calendar == <<token, expired, policy>>
local == <<body, updated, home>>
jobVars == <<pc, inbox, cur, mark, work>>
vars == <<now, edits, faults, google, local, mapping, open, calendar, jobVars>>

NoMapping ==
    [exists |-> FALSE, event |-> NoEvent, etag |-> 0, dirty |-> FALSE, deleted |-> FALSE,
     conflict |-> FALSE, pending |-> "none"]

\* The row that apply_remote_event and push_calendar insert.
NewMapping(e, etag) ==
    [NoMapping EXCEPT !.exists = TRUE, !.event = e, !.etag = etag]

\* A change that Google reports, with the mapping and the local time read for it.
NoItem == [id |-> NoEvent, ver |-> 0, live |-> FALSE, body |-> 0, event |-> NoEvent,
           map |-> NoMapping, at |-> 0]

Init ==
    /\ now = 1 /\ edits = 0 /\ faults = 0
    /\ gver = [x \in Ids |-> 0]
    /\ glive = [x \in Ids |-> FALSE]
    /\ gbody = [x \in Ids |-> 0]
    /\ body = [e \in Events |-> 0]
    /\ updated = [e \in Events |-> 0]
    /\ home = {}
    /\ mapping = [x \in Ids |-> NoMapping]
    /\ open = {}
    /\ token = 0 /\ expired = FALSE
    /\ policy \in Policies
    /\ pc = "idle" /\ inbox = {} /\ cur = NoItem /\ mark = 0 /\ work = {}

-----------------------------------------------------------------------------
(* Requests of the user.  None of them takes the synchronization lock.     *)

MappingOf(e) == {x \in Ids : mapping[x].exists /\ mapping[x].event = e}

\* A request of this kind arrives now.
Request(kind) ==
    /\ kind \in Operations
    /\ pc = "idle" \/ kind \in BusyOperations
    /\ UNCHANGED <<faults, google, open, calendar, jobVars>>

\* An edit by the user or in Google gets the next time stamp.
Edit ==
    /\ edits < MaxEdits
    /\ edits' = edits + 1
    /\ now' = now + 1

\* mark_event_for_sync(deleted = false).
MarkChanged(e) ==
    mapping' = [x \in Ids |->
        IF x \in MappingOf(e) THEN [mapping[x] EXCEPT !.dirty = TRUE, !.deleted = FALSE]
        ELSE mapping[x]]

\* Fault for SettledMappingsAgree: local_deleted is not set.
MarkDeletedLoses(e) ==
    mapping' = [x \in Ids |->
        IF x \in MappingOf(e) THEN [mapping[x] EXCEPT !.dirty = FALSE, !.event = NoEvent]
        ELSE mapping[x]]

\* mark_event_for_sync(deleted = true), which also unlinks the event.
MarkDeleted(e) ==
    mapping' = [x \in Ids |->
        IF x \in MappingOf(e)
        THEN [mapping[x] EXCEPT !.dirty = FALSE, !.deleted = TRUE, !.event = NoEvent]
        ELSE mapping[x]]

\* A new event, or the new time block of a scheduled task.
CreateEvent(e) ==
    /\ Request("create") /\ Edit
    /\ e \in Born /\ updated[e] = 0
    /\ body' = [body EXCEPT ![e] = now']
    /\ updated' = [updated EXCEPT ![e] = now']
    /\ home' = home \cup {e}
    /\ MarkChanged(e)

UpdateEvent(e) ==
    /\ Request("edit") /\ Edit
    /\ body[e] # 0 /\ e \in home
    /\ body' = [body EXCEPT ![e] = now']
    /\ updated' = [updated EXCEPT ![e] = now']
    /\ MarkChanged(e)
    /\ UNCHANGED home

\* delete_calendar_event, and the unscheduling or deletion of a task.
DeleteEvent(e) ==
    /\ Request("delete") /\ Edit
    /\ body[e] # 0 /\ e \in home
    /\ body' = [body EXCEPT ![e] = 0]
    /\ home' = home \ {e}
    /\ MarkDeleted(e)
    /\ UNCHANGED updated

\* update_calendar_event with another calendar: away from this one, or into it.
MoveAway(e) ==
    /\ Request("move") /\ Edit
    /\ body[e] # 0 /\ e \in home
    /\ home' = home \ {e}
    /\ updated' = [updated EXCEPT ![e] = now']
    /\ MarkDeleted(e)
    /\ UNCHANGED body

MoveInto(e) ==
    /\ Request("move") /\ Edit
    /\ body[e] # 0 /\ e \notin home
    /\ home' = home \cup {e}
    /\ updated' = [updated EXCEPT ![e] = now']
    /\ MarkChanged(e)
    /\ UNCHANGED body

\* Fault for UnresolvedIsVisible: the row is resolved, the mapping's state is not.
ResolveRowOnly(x, choice) ==
    /\ "resolve" \in Operations /\ pc = "idle"
    /\ x \in open
    /\ open' = open \ {x}
    /\ UNCHANGED <<now, edits, faults, google, local, mapping, calendar, jobVars>>

\* resolve_sync_conflict.
ResolveConflict(x, choice) ==
    /\ "resolve" \in Operations
    /\ pc = "idle" \/ "resolve" \in BusyOperations
    /\ x \in open
    /\ open' = open \ {x}
    /\ mapping' = [mapping EXCEPT ![x] =
          IF choice = "google"
          THEN [@ EXCEPT !.conflict = FALSE, !.dirty = FALSE, !.deleted = FALSE, !.etag = 0,
                         !.pending = choice]
          ELSE [@ EXCEPT !.conflict = FALSE, !.dirty = TRUE, !.pending = choice]]
    /\ UNCHANGED <<now, edits, faults, google, local, calendar, jobVars>>

-----------------------------------------------------------------------------
(* Google's users, at any time.                                            *)

GoogleWrites(x, live, content) ==
    /\ now' = now + 1
    /\ gver' = [gver EXCEPT ![x] = now']
    /\ glive' = [glive EXCEPT ![x] = live]
    /\ gbody' = [gbody EXCEPT ![x] = content]

GoogleEdit(x) ==
    /\ "google edit" \in Operations /\ Edit
    /\ glive[x] \/ (x \in Foreign /\ gver[x] = 0)
    /\ GoogleWrites(x, TRUE, now + 1)
    /\ UNCHANGED <<faults, local, mapping, open, calendar, jobVars>>

GoogleDelete(x) ==
    /\ "google delete" \in Operations /\ Edit
    /\ glive[x]
    /\ GoogleWrites(x, FALSE, gbody[x])
    /\ UNCHANGED <<faults, local, mapping, open, calendar, jobVars>>

TokenExpires ==
    /\ token # 0 /\ ~expired
    /\ expired' = TRUE
    /\ UNCHANGED <<now, edits, faults, google, local, mapping, open, token, policy, jobVars>>

-----------------------------------------------------------------------------
(* The job: pull.                                                          *)

Goto(place) == pc' = place
Rest == <<now, edits, faults, google>>

StartSync ==
    /\ pc = "idle"
    /\ Goto("list")
    /\ mark' = token
    /\ UNCHANGED <<Rest, local, mapping, open, calendar, inbox, cur, work>>

\* 410 Gone: one full pull instead.
PullFully ==
    /\ pc = "list"
    /\ mark # 0 /\ expired
    /\ mark' = 0
    /\ UNCHANGED <<Rest, local, mapping, open, calendar, pc, inbox, cur, work>>

\* The pages of one list, changed and cancelled events since the token.
ListChanges ==
    /\ pc = "list"
    /\ mark = 0 \/ ~expired
    /\ inbox' = {[NoItem EXCEPT !.id = x, !.ver = gver[x], !.live = glive[x],
                                !.body = gbody[x]] : x \in {y \in Ids : gver[y] > mark}}
    /\ mark' = now
    /\ Goto("pull")
    /\ UNCHANGED <<Rest, local, mapping, open, calendar, cur, work>>

\* The SELECT that apply_remote_event decides on.
ReadMapping(item) ==
    LET m == mapping[item.id] IN
    /\ pc = "pull"
    /\ item \in inbox
    /\ inbox' = inbox \ {item}
    /\ cur' = [item EXCEPT !.map = m, !.event = m.event,
                           !.at = IF m.event = NoEvent THEN 0 ELSE updated[m.event]]
    /\ Goto("apply")
    /\ UNCHANGED <<Rest, local, mapping, open, calendar, mark, work>>

\* The policy in force for the change in hand.
Effective(m) == IF m.pending # "none" THEN m.pending ELSE policy

KeepsLocal(item) ==
    \/ Effective(item.map) = "prosepect"
    \/ Effective(item.map) = "latest" /\ item.at # 0 /\ item.at >= item.ver

\* Fault for AskProtectsLocalEdits: local_dirty is not looked at.
ContestedByDeletion(item) == item.map.exists /\ item.live /\ item.map.deleted

\* Fault for ConflictBlocksOverwrite: a conflict that is already recorded is not one.
ContestedOnce(item) ==
    item.map.exists /\ ~item.map.conflict /\ (item.map.dirty \/ (item.live /\ item.map.deleted))

\* Both sides changed: a cancelled event asks only about a local edit.
Contested(item) ==
    item.map.exists /\ (item.map.dirty \/ (item.live /\ item.map.deleted))

Known(item) == item.live /\ item.map.exists /\ item.map.etag = item.ver
\* The change goes to the policy, or else is taken over.
Asks(item) == ~Known(item) /\ Contested(item) /\ Effective(item.map) = "ask"
Keeps(item) == ~Known(item) /\ Contested(item) /\ KeepsLocal(item)
Takes(item) == ~Known(item) /\ ~Asks(item) /\ ~Keeps(item)

NextItem ==
    /\ Goto("pull")
    /\ cur' = NoItem
    /\ UNCHANGED <<inbox, mark, work>>

\* Nothing to do: the etag is the recorded one, or an unknown event was cancelled.
SkipChange ==
    /\ pc = "apply"
    /\ Known(cur) \/ (~cur.live /\ ~cur.map.exists)
    /\ NextItem
    /\ UNCHANGED <<Rest, local, mapping, open, calendar>>

\* create_conflict: the sync_conflicts row, then the mapping's conflict_state.
OpenConflict ==
    /\ pc = "apply"
    /\ Asks(cur)
    /\ open' = open \cup {cur.id}
    /\ Goto("mark")
    /\ UNCHANGED <<Rest, local, mapping, calendar, inbox, cur, mark, work>>

MarkConflict ==
    /\ pc = "mark"
    /\ mapping' = [mapping EXCEPT ![cur.id].conflict = TRUE]
    /\ NextItem
    /\ UNCHANGED <<Rest, local, open, calendar>>

\* The local version wins: over a deletion by forgetting the mapping, so that the
\* event is created again, over a change by leaving the mapping dirty.
KeepLocal ==
    /\ pc = "apply"
    /\ Keeps(cur)
    /\ IF cur.live
       THEN /\ mapping' = [mapping EXCEPT ![cur.id].pending = "none"]
            /\ UNCHANGED open
       ELSE /\ mapping' = [mapping EXCEPT ![cur.id] = NoMapping]
            /\ open' = open \ {cur.id}
    /\ NextItem
    /\ UNCHANGED <<Rest, local, calendar>>

\* delete_canonical_event for an event cancelled in Google.
ApplyDeletion ==
    /\ pc = "apply"
    /\ Takes(cur) /\ ~cur.live /\ cur.map.exists
    /\ body' = [e \in Events |-> IF e = cur.event THEN 0 ELSE body[e]]
    /\ home' = home \ {cur.event}
    /\ mapping' = [x \in Ids |-> IF cur.event # NoEvent /\ x \in MappingOf(cur.event)
                                 THEN [mapping[x] EXCEPT !.event = NoEvent]
                                 ELSE mapping[x]]
    /\ Goto("unmap")
    /\ UNCHANGED <<Rest, updated, open, calendar, inbox, cur, mark, work>>

Unmap ==
    /\ pc = "unmap"
    /\ mapping' = [mapping EXCEPT ![cur.id] = NoMapping]
    /\ open' = open \ {cur.id}
    /\ NextItem
    /\ UNCHANGED <<Rest, local, calendar>>

\* Fault for Converges: the baseline advances and the event keeps its content.
SkipCanonical ==
    /\ pc = "apply"
    /\ Takes(cur) /\ cur.live /\ cur.map.exists /\ cur.event # NoEvent
    /\ Goto("baseline")
    /\ UNCHANGED <<Rest, local, mapping, open, calendar, inbox, cur, mark, work>>

\* update_canonical_event: by id, into this calendar, whatever happened to the row
\* since the mapping was read.
UpdateCanonical ==
    LET e == cur.event IN
    /\ pc = "apply"
    /\ Takes(cur) /\ cur.live /\ cur.map.exists /\ e # NoEvent
    /\ IF body[e] # 0
       THEN /\ body' = [body EXCEPT ![e] = cur.body]
            /\ updated' = [updated EXCEPT ![e] = now]
            /\ home' = home \cup {e}
       ELSE UNCHANGED local
    /\ Goto("baseline")
    /\ UNCHANGED <<Rest, mapping, open, calendar, inbox, cur, mark, work>>

\* insert_canonical_event under a new id, for a new event or for a mapping whose
\* event is gone; linking it to its mapping is another statement.
InsertCanonical(e) ==
    /\ pc = "apply"
    /\ Takes(cur) /\ cur.live /\ (cur.map.exists => cur.event = NoEvent)
    /\ e \notin Born /\ updated[e] = 0
    /\ body' = [body EXCEPT ![e] = cur.body]
    /\ updated' = [updated EXCEPT ![e] = now]
    /\ home' = home \cup {e}
    /\ cur' = [cur EXCEPT !.event = e]
    /\ Goto(IF cur.map.exists THEN "relink" ELSE "link")
    /\ UNCHANGED <<Rest, mapping, open, calendar, inbox, mark, work>>

Relink ==
    /\ pc = "relink"
    /\ body[cur.event] # 0
    /\ mapping' = [mapping EXCEPT ![cur.id].event = cur.event]
    /\ Goto("baseline")
    /\ UNCHANGED <<Rest, local, open, calendar, inbox, cur, mark, work>>

\* Fault for JobsKeepSucceeding: external_etag is not stored.
BaselineWithoutEtag ==
    /\ pc = "baseline"
    /\ mapping' = [mapping EXCEPT ![cur.id].dirty = FALSE, ![cur.id].deleted = FALSE,
                                  ![cur.id].pending = "none"]
    /\ NextItem
    /\ UNCHANGED <<Rest, local, open, calendar>>

\* update_mapping_baseline.
Baseline ==
    /\ pc = "baseline"
    /\ mapping' = [mapping EXCEPT ![cur.id].etag = cur.ver, ![cur.id].dirty = FALSE,
                                  ![cur.id].deleted = FALSE, ![cur.id].pending = "none"]
    /\ NextItem
    /\ UNCHANGED <<Rest, local, open, calendar>>

\* INSERT INTO external_event_mappings: both unique constraints and the reference
\* to the event must hold.
Insertable(x, e) == ~mapping[x].exists /\ body[e] # 0 /\ MappingOf(e) = {}

Link ==
    /\ pc = "link"
    /\ Insertable(cur.id, cur.event)
    /\ mapping' = [mapping EXCEPT ![cur.id] = NewMapping(cur.event, cur.ver)]
    /\ NextItem
    /\ UNCHANGED <<Rest, local, open, calendar>>

\* Fault for TokenCoversOnlyApplied: conflicts do not hold the token back.
NeverWithheld == FALSE

\* Last page: the new token is kept unless a conflict of this calendar is unresolved.
Withheld == \E x \in Ids : mapping[x].conflict

FinishPull ==
    /\ pc = "pull"
    /\ inbox = {}
    /\ token' = IF Withheld THEN token ELSE mark
    /\ expired' = (expired /\ Withheld)
    /\ Goto("unmapped")
    /\ UNCHANGED <<Rest, policy, local, mapping, open, inbox, cur, mark, work>>

-----------------------------------------------------------------------------
(* The job: push.  Each loop works on the rows of one SELECT.              *)

\* Fault for OneCopyOfEachEvent: the mappings are not joined.
SelectAll ==
    /\ pc = "unmapped"
    /\ work' = {[NoItem EXCEPT !.id = e, !.event = e, !.body = body[e]] : e \in home}
    /\ Goto("post")
    /\ UNCHANGED <<Rest, local, mapping, open, calendar, inbox, cur, mark>>

SelectUnmapped ==
    /\ pc = "unmapped"
    /\ work' = {[NoItem EXCEPT !.id = e, !.event = e, !.body = body[e]] :
                   e \in {d \in home : MappingOf(d) = {}}}
    /\ Goto("post")
    /\ UNCHANGED <<Rest, local, mapping, open, calendar, inbox, cur, mark>>

\* POST with the event's own id; 409 Conflict is answered by a GET of that id.
PostEvent(item) ==
    /\ pc = "post"
    /\ item \in work
    /\ work' = work \ {item}
    /\ IF gver[item.id] = 0
       THEN GoogleWrites(item.id, TRUE, item.body)
       ELSE UNCHANGED <<now, google>>
    /\ cur' = [item EXCEPT !.ver = gver'[item.id]]
    /\ Goto("insert")
    /\ UNCHANGED <<edits, faults, local, mapping, open, calendar, inbox, mark>>

InsertMapping ==
    /\ pc = "insert"
    /\ Insertable(cur.id, cur.event)
    /\ mapping' = [mapping EXCEPT ![cur.id] = NewMapping(cur.event, cur.ver)]
    /\ cur' = NoItem
    /\ Goto("post")
    /\ UNCHANGED <<Rest, local, open, calendar, inbox, mark, work>>

\* The mappings that push_calendar may write to Google.
Pushable(x) == mapping[x].exists /\ (mapping[x].dirty \/ mapping[x].deleted) /\ ~mapping[x].conflict

SelectDirty ==
    /\ pc = "post"
    /\ work = {}
    /\ work' = {[NoItem EXCEPT !.id = x, !.map = mapping[x], !.ver = mapping[x].etag,
                    !.event = IF mapping[x].deleted THEN NoEvent ELSE mapping[x].event,
                    !.body = IF mapping[x].event = NoEvent THEN 0 ELSE body[mapping[x].event]]
                  : x \in {y \in Ids : Pushable(y)}}
    /\ Goto("push")
    /\ UNCHANGED <<Rest, local, mapping, open, calendar, inbox, cur, mark>>

\* If-Match: a write is refused with 412 when the etag is not the current one;
\* without a recorded etag it is unconditional.
Accepts(item) == glive[item.id] /\ (item.ver = 0 \/ item.ver = gver[item.id])

PushDelete(item) ==
    /\ pc = "push"
    /\ item \in work /\ item.event = NoEvent
    /\ Accepts(item)
    /\ work' = work \ {item}
    /\ GoogleWrites(item.id, FALSE, gbody[item.id])
    /\ cur' = item
    /\ Goto("forget")
    /\ UNCHANGED <<edits, faults, local, mapping, open, calendar, inbox, mark>>

ForgetMapping ==
    /\ pc = "forget"
    /\ mapping' = [mapping EXCEPT ![cur.id] = NoMapping]
    /\ open' = open \ {cur.id}
    /\ cur' = NoItem
    /\ Goto("push")
    /\ UNCHANGED <<Rest, local, calendar, inbox, mark, work>>

PushUpdate(item) ==
    /\ pc = "push"
    /\ item \in work /\ item.event # NoEvent
    /\ Accepts(item)
    /\ work' = work \ {item}
    /\ GoogleWrites(item.id, TRUE, item.body)
    /\ cur' = [item EXCEPT !.ver = now']
    /\ Goto("store")
    /\ UNCHANGED <<edits, faults, local, mapping, open, calendar, inbox, mark>>

\* The etag of the answer; local_dirty is cleared unconditionally.
StorePushed ==
    /\ pc = "store"
    /\ mapping' = [mapping EXCEPT ![cur.id].etag = cur.ver, ![cur.id].dirty = FALSE]
    /\ cur' = NoItem
    /\ Goto("push")
    /\ UNCHANGED <<Rest, local, open, calendar, inbox, mark, work>>

\* The job ends and forgets what it held; a failed one is retried as a new job.
Quit ==
    /\ Goto("idle")
    /\ inbox' = {} /\ cur' = NoItem /\ mark' = 0 /\ work' = {}
    /\ UNCHANGED <<now, edits, google, local, mapping, open, calendar>>

EndSync == pc = "push" /\ work = {} /\ Quit /\ UNCHANGED faults

\* Google refuses a write, or an insert violates a constraint.
FailSync ==
    /\ \/ pc = "push" /\ \E item \in work : ~Accepts(item)
       \/ pc \in {"link", "insert"} /\ ~Insertable(cur.id, cur.event)
       \/ pc = "relink" /\ body[cur.event] = 0
    /\ Quit
    /\ UNCHANGED faults

\* A crash, a lost answer or a failed statement anywhere in the job.
Fault ==
    /\ pc # "idle"
    /\ faults < MaxFaults
    /\ faults' = faults + 1
    /\ Quit

-----------------------------------------------------------------------------
Job ==
    \/ StartSync \/ PullFully \/ ListChanges \/ \E item \in inbox : ReadMapping(item)
    \/ SkipChange \/ OpenConflict \/ MarkConflict \/ KeepLocal
    \/ ApplyDeletion \/ Unmap \/ UpdateCanonical \/ (\E e \in Events : InsertCanonical(e))
    \/ Relink \/ Baseline \/ Link \/ FinishPull
    \/ SelectUnmapped \/ (\E item \in work : PostEvent(item)) \/ InsertMapping
    \/ SelectDirty \/ (\E item \in work : PushDelete(item) \/ PushUpdate(item))
    \/ ForgetMapping \/ StorePushed \/ EndSync \/ FailSync

User ==
    \/ \E e \in Events : \/ CreateEvent(e) \/ UpdateEvent(e) \/ DeleteEvent(e)
                         \/ MoveAway(e) \/ MoveInto(e)
    \/ \E x \in Ids, choice \in Choices : ResolveConflict(x, choice)

Elsewhere == TokenExpires \/ \E x \in Ids : GoogleEdit(x) \/ GoogleDelete(x)

Next == Job \/ Fault \/ User \/ Elsewhere

Spec == Init /\ [][Next]_vars

\* The scheduler enqueues every selected calendar again and again, the dispatcher
\* polls and every HTTP call and statement of a job times out.
FairSpec == Spec /\ WF_vars(Job)

-----------------------------------------------------------------------------
(* The inductive invariant behind the safety properties, for a user who    *)
(* resolves conflicts between jobs.                                        *)

Pulling == {"pull", "apply", "mark", "unmap", "baseline", "relink", "link"}
Pushing == {"unmapped", "post", "insert", "push", "forget", "store"}
\* The places of the pull at which a change is in hand.
Applying == Pulling \ {"pull"}
Holding == Applying \cup {"insert", "forget", "store"}

Mappings ==
    [exists : BOOLEAN, event : Events \cup {NoEvent}, etag : Nat, dirty : BOOLEAN,
     deleted : BOOLEAN, conflict : BOOLEAN, pending : Resolutions \cup {"none"}]

Items ==
    [id : Ids, ver : Nat, live : BOOLEAN, body : Nat, event : Events \cup {NoEvent},
     map : Mappings, at : Nat]

TypeOK ==
    /\ now \in Nat \ {0} /\ edits \in Nat /\ faults \in Nat
    /\ gver \in [Ids -> Nat] /\ glive \in [Ids -> BOOLEAN] /\ gbody \in [Ids -> Nat]
    /\ body \in [Events -> Nat] /\ updated \in [Events -> Nat] /\ home \subseteq Events
    /\ mapping \in [Ids -> Mappings]
    /\ open \subseteq Ids
    /\ token \in Nat /\ expired \in BOOLEAN /\ policy \in Resolutions \cup {"ask"}
    /\ pc \in {"idle", "list"} \cup Pulling \cup Pushing
    /\ mark \in Nat
    /\ inbox \subseteq Items /\ work \subseteq Items
    /\ cur \in Items \cup {NoItem}
    /\ pc \in Holding => cur \in Items

\* Versions are times that have passed; the token is one of them, and mark is the
\* token, or zero in its place, until the changes are listed.
ClockInv ==
    /\ token <= now /\ mark <= now
    /\ \A x \in Ids : gver[x] <= now /\ (glive[x] \/ mapping[x].exists => gver[x] # 0)
    /\ pc = "list" => mark = token \/ (mark = 0 /\ expired)
    /\ pc \in Pulling \cup Pushing => token <= mark

\* Only a version of the event that exists or existed is recorded, and none is only
\* where the user has chosen Google's version; conflict_state is set where a row is open.
SafeMapping(x) ==
    LET m == mapping[x] IN
    /\ m.exists \/ m = NoMapping
    /\ m.etag <= gver[x]
    /\ m.exists /\ m.etag = 0 => m.pending = "google"
    /\ m.conflict => x \in open

MappingInv == \A x \in Ids : SafeMapping(x)

\* An open conflict is about an unsent change of the user and a version in Google that is
\* newer than the recorded one and that the token has not passed.
SafeConflict(x) ==
    LET m == mapping[x] IN
    /\ policy = "ask"
    /\ m.exists /\ (m.dirty \/ m.deleted) /\ m.pending = "none"
    /\ glive[x] => m.etag < gver[x] /\ (expired \/ token < gver[x])

OpenInv == \A x \in open : SafeConflict(x)

Mapped(x) ==
    LET m == mapping[x] IN m.exists /\ (m.etag = gver[x] \/ m.dirty \/ m.deleted)

CoverInv == ~expired => \A x \in Ids : glive[x] /\ gver[x] <= token => Mapped(x)

\* A listed change is the event's last version, or a later one will be listed next time.
Listed(item) ==
    /\ item.ver # 0 /\ item.ver <= gver[item.id]
    /\ item.ver = gver[item.id] \/ mark < gver[item.id]
    /\ item.live \/ ~glive[item.id]
    /\ expired \/ token < item.ver
    /\ mapping[item.id].etag <= item.ver

Waiting(x) == \E item \in inbox : item.id = x
InHand(x) == pc \in Applying /\ cur.id = x

\* What a pull has not yet applied is in its inbox or in hand, or is a conflict.
PullInv ==
    /\ pc \in Pulling =>
          /\ \A item \in inbox : Listed(item)
          /\ \A i, j \in inbox : i.id = j.id => i.ver = j.ver
          /\ \A x \in Ids :
                glive[x] /\ gver[x] <= mark =>
                    /\ Mapped(x) \/ mapping[x].conflict \/ Waiting(x) \/ InHand(x)
                    /\ x \in open => mapping[x].conflict \/ Waiting(x) \/ InHand(x)
    /\ pc \in Applying =>
          /\ Listed(cur)
          /\ \A item \in inbox : item.id = cur.id => item.ver = cur.ver

\* The mapping read for the change in hand: users add marks to it meanwhile.
HandInv ==
    LET m == mapping[cur.id] IN
    /\ pc \in Applying =>
          /\ cur.map.exists = m.exists /\ cur.map.etag = m.etag /\ cur.map.pending = m.pending
          /\ cur.map.dirty \/ cur.map.deleted => m.dirty \/ m.deleted
          /\ cur.id \in open => cur.map.dirty \/ cur.map.deleted
    /\ pc = "mark" => cur.id \in open
    /\ pc \in {"baseline", "relink"} => cur.map.exists /\ cur.id \notin open
    /\ pc = "link" => ~cur.map.exists
    /\ pc = "unmap" => ~cur.live

\* A push writes to no event with an open conflict: the recorded version is too old.
PushInv ==
    /\ pc \in {"push", "forget", "store"} =>
          /\ \A item \in work :
                /\ mapping[item.id].exists
                /\ item.id \in open /\ glive[item.id] => item.ver # 0 /\ item.ver < gver[item.id]
          /\ \A i, j \in work : i.id = j.id => i = j
    /\ pc \in {"forget", "store"} => \A item \in work : item.id # cur.id
    /\ pc = "insert" =>
          /\ cur.ver # 0 /\ cur.ver <= gver[cur.id]
          /\ cur.ver = gver[cur.id] \/ mark < gver[cur.id]
    /\ pc = "forget" => ~glive[cur.id] /\ gver[cur.id] # 0
    /\ pc = "store" =>
          /\ cur.ver # 0 /\ cur.ver <= gver[cur.id] /\ mark < gver[cur.id]
          /\ mapping[cur.id].exists /\ cur.id \notin open

SyncInv == ClockInv /\ MappingInv /\ OpenInv /\ CoverInv /\ PullInv /\ HandInv /\ PushInv

\* An event has one mapping, also one that is about to be linked.
LinkInv ==
    /\ \A e \in Events : body[e] # 0 => updated[e] # 0
    /\ \A x \in Ids :
          LET e == mapping[x].event IN
          e # NoEvent => updated[e] # 0 /\ \A y \in Ids : mapping[y].event = e => x = y
    /\ pc = "apply" =>
          /\ cur.event = cur.map.event
          /\ cur.event # NoEvent =>
                updated[cur.event] # 0 /\ \A x \in Ids : mapping[x].event = cur.event => x = cur.id
    /\ pc \in {"relink", "link"} =>
          /\ cur.event # NoEvent /\ updated[cur.event] # 0
          /\ \A x \in Ids : mapping[x].event # cur.event

\* A mapping marked for deletion has lost its event, unless an import was interrupted
\* after it was linked to a new one because Google's version was to win.
SafeTombstone(m) ==
    m.deleted /\ m.event # NoEvent /\ policy = "ask" => m.pending = "google"

TombstoneInv ==
    /\ \A x \in Ids : mapping[x].pending # "latest" /\ SafeTombstone(mapping[x])
    /\ pc = "apply" =>
          /\ SafeTombstone(cur.map)
          /\ cur.event = NoEvent =>
                mapping[cur.id].event = NoEvent /\ mapping[cur.id].deleted = cur.map.deleted
    /\ pc = "relink" =>
          /\ mapping[cur.id].event = NoEvent
          /\ mapping[cur.id].deleted /\ policy = "ask" => mapping[cur.id].pending = "google"

\* With requests between jobs only, what was read of the mapping in hand is still true.
FreshInv == pc = "apply" => cur.map = mapping[cur.id]

\* With requests between jobs only: an event in the calendar has content, and so has what
\* was ever in Google; a linked event is in the calendar.
HomeInv ==
    /\ \A e \in home : body[e] # 0
    /\ \A x \in Ids : mapping[x].event # NoEvent => mapping[x].event \in home
    /\ \A x \in Ids : gver[x] # 0 => gbody[x] # 0

\* A listed change has the content that its version has in Google.
Seen(item) == item.body # 0 /\ (item.ver = gver[item.id] => item.body = gbody[item.id])

ContentInv ==
    /\ pc \in Pulling => \A item \in inbox : Seen(item)
    /\ pc \in Applying => Seen(cur)
    \* the event that the change was written to has its content
    /\ pc \in {"relink", "link", "baseline"} => cur.event \in home /\ body[cur.event] = cur.body
    /\ pc = "baseline" => mapping[cur.id].event = cur.event

\* An event that Prosepect created in Google is mapped before the pull ends, also one whose
\* mapping an interrupted job did not insert: its id is never adopted with other content.
PostedInv ==
    \A x \in Events : glive[x] =>
        /\ pc \in Pulling => mapping[x].exists \/ Waiting(x) \/ InHand(x)
        /\ pc \in Pushing => mapping[x].exists \/ (pc = "insert" /\ cur.id = x)

\* What a push sends, and has sent, is what the event has.
WorkInv ==
    /\ pc \in {"post", "insert"} =>
          \A item \in work : item.id = item.event /\ item.event \in home /\ item.body = body[item.event]
    /\ pc = "insert" =>
          /\ cur.event \in home
          /\ mapping[cur.id].exists \/ cur.ver # gver[cur.id] \/ ~glive[cur.id]
                 \/ gbody[cur.id] = body[cur.event]
    /\ pc \in {"push", "forget", "store"} =>
          \A item \in work : item.event # NoEvent =>
              mapping[item.id].event = item.event /\ item.body = body[item.event]
    /\ pc = "store" =>
          /\ mapping[cur.id].event \in home
          /\ cur.ver = gver[cur.id] => gbody[cur.id] = body[mapping[cur.id].event]

\* SettledMappingsAgree for one mapping, at every moment.
Agrees(x) ==
    LET m == mapping[x] IN
    m.exists /\ ~m.dirty /\ ~m.deleted /\ glive[x] /\ m.etag = gver[x] =>
        m.event \in home /\ body[m.event] = gbody[x]

SettledInv ==
    HomeInv /\ ContentInv /\ PostedInv /\ WorkInv /\ \A x \in Ids : Agrees(x)

\* Without moves and failures: contents are numbers of edits that were made,
TimesInv ==
    /\ \A e \in Events : body[e] <= now
    /\ \A x \in Ids : gbody[x] <= now

\* and a content that is on both sides is there as one linked event, or as one about to be.
Belongs(x, e) ==
    mapping[x].event = e \/ (pc \in {"relink", "link", "insert"} /\ cur.id = x /\ cur.event = e)

CopiesInv ==
    /\ \A d, e \in home : body[d] = body[e] => d = e
    /\ \A x, y \in Ids : glive[x] /\ glive[y] /\ gbody[x] = gbody[y] => x = y
    /\ \A e \in home, x \in Ids : glive[x] /\ body[e] = gbody[x] => Belongs(x, e)

\* An id that Prosepect uses in Google is an event's own, and its mapping is that event's
\* until the event is deleted.
OwnInv ==
    /\ \A x \in Events : gver[x] # 0 => updated[x] # 0
    /\ \A x \in Events : glive[x] => mapping[x].exists \/ (pc = "insert" /\ cur.id = x)
    /\ \A x \in home : mapping[x].exists => mapping[x].event = x

\* The rows to be created in Google have no mapping, and each is created once.
CreateInv ==
    /\ pc \in {"post", "insert"} =>
          /\ \A item \in work, x \in Ids : mapping[x].event # item.event
          /\ \A i, j \in work : i.event = j.event => i = j
    /\ pc = "insert" =>
          /\ cur.id = cur.event /\ \A x \in Ids : mapping[x].event # cur.event
          /\ \A item \in work : item.event # cur.event

\* The content of a listed change is nowhere but in its event, here and in Google.
SafeCopy(item) ==
    /\ item.body <= now
    /\ item.live =>
          /\ item.id \in Events => mapping[item.id].exists
          /\ \A e \in home : body[e] = item.body => mapping[item.id].event = e
          /\ \A y \in Ids : glive[y] /\ gbody[y] = item.body => y = item.id

PendingInv ==
    /\ pc \in Pulling =>
          /\ \A item \in inbox : SafeCopy(item)
          /\ \A i, j \in inbox : i.id = j.id \/ (i.live /\ j.live /\ i.body = j.body) => i = j
    /\ pc \in Applying =>
          \A item \in inbox : item.id # cur.id /\ ~(item.live /\ cur.live /\ item.body = cur.body)
    /\ pc = "apply" => SafeCopy(cur)
    /\ pc = "link" => cur.id \notin Events
    /\ pc = "relink" => mapping[cur.id].event = NoEvent

SingleInv == TimesInv /\ CopiesInv /\ OwnInv /\ CreateInv /\ PendingInv
CopyInv == faults = 0 => SingleInv

-----------------------------------------------------------------------------
(* Properties.                                                             *)

\* What the mappings call synchronized is equal on both sides: between jobs, a clean
\* mapping at Google's current etag has its event, in this calendar, with Google's
\* content.  An edit or deletion whose flag a job clears without sending it breaks this.
SettledMappingsAgree ==
    pc = "idle" => \A x \in Ids :
        LET m == mapping[x] IN
        m.exists /\ ~m.dirty /\ ~m.deleted /\ glive[x] /\ m.etag = gver[x] =>
            m.event \in home /\ body[m.event] = gbody[x]

\* The stored sync token never passes a change that still has to be applied: an event
\* Google will not list again is mapped at its current etag, or waits to be pushed.
TokenCoversOnlyApplied ==
    pc = "idle" /\ ~expired => \A x \in Ids :
        glive[x] /\ gver[x] <= token =>
            LET m == mapping[x] IN m.exists /\ (m.etag = gver[x] \/ m.dirty \/ m.deleted)

\* Unless a job was cut short or an event was moved between calendars, no event is in the
\* calendar twice, here or in Google: two events with the content of one edit are copies
\* that a repeated import or creation made.
OneCopyOfEachEvent ==
    pc = "idle" /\ faults = 0 =>
        /\ \A d, e \in home : body[d] = body[e] => d = e
        /\ \A x, y \in {z \in Ids : glive[z]} : gbody[x] = gbody[y] => x = y

\* A mapping that push_calendar and the sync token wait for has a conflict row that
\* the user can still resolve.
UnresolvedIsVisible ==
    pc = "idle" => \A x \in Ids : mapping[x].conflict => x \in open

\* While a conflict is shown to the user no job changes either version of the event.
ConflictBlocksOverwrite ==
    [][\A x \in Ids :
          x \in open /\ edits' = edits =>
              /\ gver'[x] = gver[x]
              /\ \A e \in Events : mapping[x].event = e => body'[e] = body[e]]_vars

\* Under the policy `ask` a pull never replaces or removes an event with an unsent
\* local edit.
AskProtectsLocalEdits ==
    [][\A x \in Ids :
          mapping[x].exists /\ mapping[x].dirty /\ Effective(mapping[x]) = "ask" /\ edits' = edits =>
              \A e \in Events : mapping[x].event = e => body'[e] = body[e]]_vars

\* Both sides agree, except where a conflict waits for the user.
InSync ==
    /\ \A x \in Ids :
          \/ x \in open
          \/ IF glive[x] THEN mapping[x].event \in home /\ body[mapping[x].event] = gbody[x]
             ELSE ~mapping[x].exists
    /\ \A e \in home : MappingOf(e) # {}

\* Once edits and failures stop, the two sides become and stay equal.
Converges == <>[]InSync

\* Synchronization is never wedged: however its jobs fail, one reaches its end again.
JobsKeepSucceeding == []<>(pc = "push" /\ work = {})
=============================================================================
