------------------------- MODULE CalendarSyncProofs -------------------------
(***************************************************************************)
(* Safety of calendar synchronization for any number of events, edits and  *)
(* failures.  The user may change events while a job runs, and resolves    *)
(* conflicts between jobs: under this TypeOK, SyncInv and LinkInv of       *)
(* CalendarSync are inductive.  So are TombstoneInv without the choice     *)
(* `latest`, SettledInv with all requests between jobs, and SingleInv if   *)
(* moreover nothing is moved and no job is cut short.                      *)
(***************************************************************************)
EXTENDS CalendarSync, TLAPS

-----------------------------------------------------------------------------
(* The records: what each operator writes, field by field.                 *)

\* What the absent mapping holds.
LEMMA NoMappingFields ==
  /\ NoMapping \in Mappings
  /\ ~NoMapping.exists /\ NoMapping.event = NoEvent /\ NoMapping.etag = 0 /\ ~NoMapping.dirty
  /\ ~NoMapping.deleted /\ ~NoMapping.conflict /\ NoMapping.pending = "none"
BY DEF NoMapping, Mappings

\* The fields of a mapping have their types.
LEMMA MappingTypes ==
  ASSUME NEW m \in Mappings
  PROVE  /\ m.exists \in BOOLEAN /\ m.event \in Events \cup {NoEvent} /\ m.etag \in Nat
         /\ m.dirty \in BOOLEAN /\ m.deleted \in BOOLEAN /\ m.conflict \in BOOLEAN
         /\ m.pending \in Resolutions \cup {"none"}
BY DEF Mappings

\* The fields of a change have their types.
LEMMA ItemTypes ==
  /\ \A i \in Items \cup {NoItem} :
        /\ i.ver \in Nat /\ i.live \in BOOLEAN /\ i.body \in Nat
        /\ i.event \in Events \cup {NoEvent} /\ i.map \in Mappings /\ i.at \in Nat
  /\ \A i \in Items : i.id \in Ids
<1>1. \A i \in Items :
        /\ i.ver \in Nat /\ i.live \in BOOLEAN /\ i.body \in Nat
        /\ i.event \in Events \cup {NoEvent} /\ i.map \in Mappings /\ i.at \in Nat
        /\ i.id \in Ids
  BY DEF Items
<1>2. LET i == NoItem IN
        /\ i.ver \in Nat /\ i.live \in BOOLEAN /\ i.body \in Nat
        /\ i.event \in Events \cup {NoEvent} /\ i.map \in Mappings /\ i.at \in Nat
  BY NoMappingFields DEF NoItem
<1> QED
  BY <1>1, <1>2

\* A mapping that was just inserted is clean.
LEMMA NewMappingFields ==
  ASSUME NEW e \in Events \cup {NoEvent}, NEW etag \in Nat
  PROVE  LET m == NewMapping(e, etag) IN
         /\ m \in Mappings
         /\ m.exists /\ m.event = e /\ m.etag = etag /\ ~m.dirty
         /\ ~m.deleted /\ ~m.conflict /\ m.pending = "none"
BY DEF NewMapping, NoMapping, Mappings

\* create_conflict sets nothing but conflict_state.
LEMMA ConflictFields ==
  ASSUME NEW m \in Mappings
  PROVE  LET n == [m EXCEPT !.conflict = TRUE] IN
         /\ n \in Mappings
         /\ n.exists = m.exists /\ n.event = m.event /\ n.etag = m.etag /\ n.dirty = m.dirty
         /\ n.deleted = m.deleted /\ n.conflict /\ n.pending = m.pending
BY DEF Mappings

\* A local version that wins over a change clears nothing but the resolution.
LEMMA PendingFields ==
  ASSUME NEW m \in Mappings
  PROVE  LET n == [m EXCEPT !.pending = "none"] IN
         /\ n \in Mappings
         /\ n.exists = m.exists /\ n.event = m.event /\ n.etag = m.etag /\ n.dirty = m.dirty
         /\ n.deleted = m.deleted /\ n.conflict = m.conflict /\ n.pending = "none"
BY DEF Mappings

\* Linking an event, and unlinking it, touches nothing but canonical_event_id.
LEMMA EventFields ==
  ASSUME NEW m \in Mappings, NEW e \in Events \cup {NoEvent}
  PROVE  LET n == [m EXCEPT !.event = e] IN
         /\ n \in Mappings
         /\ n.exists = m.exists /\ n.event = e /\ n.etag = m.etag /\ n.dirty = m.dirty
         /\ n.deleted = m.deleted /\ n.conflict = m.conflict /\ n.pending = m.pending
BY DEF Mappings

\* What update_mapping_baseline writes.
LEMMA BaselineFields ==
  ASSUME NEW m \in Mappings, NEW etag \in Nat
  PROVE  LET n == [m EXCEPT !.etag = etag, !.dirty = FALSE, !.deleted = FALSE, !.pending = "none"] IN
         /\ n \in Mappings
         /\ n.exists = m.exists /\ n.event = m.event /\ n.etag = etag /\ ~n.dirty
         /\ ~n.deleted /\ n.conflict = m.conflict /\ n.pending = "none"
BY DEF Mappings

\* What push_calendar writes after a PUT.
LEMMA StoredFields ==
  ASSUME NEW m \in Mappings, NEW etag \in Nat
  PROVE  LET n == [m EXCEPT !.etag = etag, !.dirty = FALSE] IN
         /\ n \in Mappings
         /\ n.exists = m.exists /\ n.event = m.event /\ n.etag = etag /\ ~n.dirty
         /\ n.deleted = m.deleted /\ n.conflict = m.conflict /\ n.pending = m.pending
BY DEF Mappings

\* Resolving for Google forgets the marks and the etag, any other choice sets the mark.
LEMMA ResolvedFields ==
  ASSUME NEW m \in Mappings, NEW choice \in Resolutions
  PROVE  LET g == [m EXCEPT !.conflict = FALSE, !.dirty = FALSE, !.deleted = FALSE, !.etag = 0,
                            !.pending = choice]
             n == [m EXCEPT !.conflict = FALSE, !.dirty = TRUE, !.pending = choice] IN
         /\ g \in Mappings /\ n \in Mappings
         /\ g.exists = m.exists /\ g.event = m.event /\ g.etag = 0 /\ ~g.dirty
         /\ ~g.deleted /\ ~g.conflict /\ g.pending = choice
         /\ n.exists = m.exists /\ n.event = m.event /\ n.etag = m.etag /\ n.dirty
         /\ n.deleted = m.deleted /\ ~n.conflict /\ n.pending = choice
BY DEF Mappings, Resolutions

\* What mark_event_for_sync does to a mapping that is linked to the event.
LEMMA MarkedFields ==
  ASSUME NEW m \in Mappings
  PROVE  LET c == [m EXCEPT !.dirty = TRUE, !.deleted = FALSE]
             d == [m EXCEPT !.dirty = FALSE, !.deleted = TRUE, !.event = NoEvent] IN
         /\ c \in Mappings /\ d \in Mappings
         /\ c.exists = m.exists /\ c.event = m.event /\ c.etag = m.etag /\ c.dirty
         /\ ~c.deleted /\ c.conflict = m.conflict /\ c.pending = m.pending
         /\ d.exists = m.exists /\ d.event = NoEvent /\ d.etag = m.etag /\ ~d.dirty
         /\ d.deleted /\ d.conflict = m.conflict /\ d.pending = m.pending
BY DEF Mappings

\* What a list says of one event.
LEMMA ListedFields ==
  ASSUME TypeOK, NEW x \in Ids
  PROVE  LET i == [NoItem EXCEPT !.id = x, !.ver = gver[x], !.live = glive[x],
                                 !.body = gbody[x]] IN
         i \in Items /\ i.id = x /\ i.ver = gver[x] /\ i.live = glive[x] /\ i.body = gbody[x]
BY NoMappingFields DEF TypeOK, NoItem, Items

\* The change in hand keeps what the list said and adds what was read of the mapping.
LEMMA ReadFields ==
  ASSUME NEW i \in Items, NEW m \in Mappings, NEW at \in Nat
  PROVE  LET c == [i EXCEPT !.map = m, !.event = m.event, !.at = at] IN
         /\ c \in Items
         /\ c.id = i.id /\ c.ver = i.ver /\ c.live = i.live /\ c.body = i.body
         /\ c.event = m.event /\ c.map = m /\ c.at = at
BY DEF Items, Mappings

\* An imported event becomes the event of the change in hand.
LEMMA ImportedFields ==
  ASSUME NEW i \in Items, NEW e \in Events
  PROVE  LET c == [i EXCEPT !.event = e] IN
         /\ c \in Items
         /\ c.id = i.id /\ c.ver = i.ver /\ c.live = i.live /\ c.body = i.body
         /\ c.event = e /\ c.map = i.map /\ c.at = i.at
BY DEF Items

\* The answer of Google gives the item in hand its new version.
LEMMA AnsweredFields ==
  ASSUME NEW i \in Items, NEW v \in Nat
  PROVE  LET c == [i EXCEPT !.ver = v] IN
         /\ c \in Items
         /\ c.id = i.id /\ c.ver = v /\ c.event = i.event /\ c.body = i.body
BY DEF Items

\* A row that has no mapping, as it is selected to be pushed.
LEMMA UnmappedFields ==
  ASSUME TypeOK, NEW e \in home
  PROVE  LET i == [NoItem EXCEPT !.id = e, !.event = e, !.body = body[e]] IN
         i \in Items /\ i.id = e /\ i.event = e /\ i.body = body[e]
BY NoMappingFields DEF TypeOK, NoItem, Items, Ids

\* A marked mapping, as it is selected to be pushed.
LEMMA DirtyFields ==
  ASSUME TypeOK, NEW x \in Ids
  PROVE  LET i == [NoItem EXCEPT !.id = x, !.map = mapping[x], !.ver = mapping[x].etag,
                    !.event = IF mapping[x].deleted THEN NoEvent ELSE mapping[x].event,
                    !.body = IF mapping[x].event = NoEvent THEN 0 ELSE body[mapping[x].event]] IN
         /\ i \in Items /\ i.id = x /\ i.ver = mapping[x].etag
         /\ i.event # NoEvent => i.event = mapping[x].event /\ i.body = body[i.event]
<1>1. mapping[x] \in Mappings /\ mapping[x].etag \in Nat
      /\ mapping[x].event \in Events \cup {NoEvent}
  BY MappingTypes DEF TypeOK
<1> QED
  BY <1>1 DEF TypeOK, NoItem, Items

-----------------------------------------------------------------------------
(* Types, and what the user's requests do to a mapping.                    *)

\* What a request may do to a mapping while a job has read it: it sets a mark, and a
\* mapping without an event is left alone.
Marked(m, n) ==
    /\ n \in Mappings
    /\ n.exists = m.exists /\ n.etag = m.etag /\ n.conflict = m.conflict /\ n.pending = m.pending
    /\ m.dirty \/ m.deleted => n.dirty \/ n.deleted
    /\ n.event = m.event \/ n.event = NoEvent
    /\ n.deleted /\ n.event # NoEvent => m.deleted
    /\ m.event = NoEvent \/ ~m.exists => n = m

\* A change to events and their mappings by a request of the user.
Marking ==
    /\ edits' = edits + 1 /\ now' = now + 1
    /\ \A x \in Ids : Marked(mapping[x], mapping'[x])
    /\ \A e \in Events : (updated[e] # 0 => updated'[e] # 0)
                         /\ (body'[e] # 0 => body[e] # 0 \/ updated'[e] # 0)
    /\ UNCHANGED <<faults, google, open, calendar, jobVars>>

\* Both forms of mark_event_for_sync mark the mappings of the event and no others.
LEMMA MarksOnly ==
  ASSUME TypeOK, NEW e \in Events, MarkChanged(e) \/ MarkDeleted(e)
  PROVE  /\ mapping' \in [Ids -> Mappings]
         /\ \A x \in Ids : Marked(mapping[x], mapping'[x])
<1>1. e # NoEvent
  BY CalendarAssumption
<1> SUFFICES ASSUME NEW x \in Ids
             PROVE  mapping'[x] \in Mappings /\ Marked(mapping[x], mapping'[x])
  <2>1. mapping' = [x \in Ids |-> mapping'[x]]
    BY DEF MarkChanged, MarkDeleted
  <2> QED
    BY <2>1
<1>2. PICK m \in Mappings : m = mapping[x]
  BY DEF TypeOK
<1>3. /\ m.exists \in BOOLEAN /\ m.event \in Events \cup {NoEvent} /\ m.etag \in Nat
      /\ m.dirty \in BOOLEAN /\ m.deleted \in BOOLEAN /\ m.conflict \in BOOLEAN
  BY MappingTypes
<1>4. CASE x \notin MappingOf(e)
  <2>1. mapping'[x] = m
    BY <1>2, <1>4 DEF MarkChanged, MarkDeleted
  <2> QED
    BY <1>2, <2>1 DEF Marked
<1>5. CASE x \in MappingOf(e)
  <2>1. m.exists /\ m.event = e
    BY <1>2, <1>5 DEF MappingOf
  <2>2. CASE MarkChanged(e)
    <3> DEFINE c == [m EXCEPT !.dirty = TRUE, !.deleted = FALSE]
    <3>1. mapping'[x] = c
      BY <1>2, <1>5, <2>2 DEF MarkChanged
    <3>2. /\ c \in Mappings
          /\ c.exists = m.exists /\ c.event = m.event /\ c.etag = m.etag /\ c.dirty
          /\ ~c.deleted /\ c.conflict = m.conflict /\ c.pending = m.pending
      BY MarkedFields
    <3> HIDE DEF c
    <3> QED
      BY <1>1, <1>2, <2>1, <3>1, <3>2 DEF Marked
  <2>3. CASE MarkDeleted(e)
    <3> DEFINE d == [m EXCEPT !.dirty = FALSE, !.deleted = TRUE, !.event = NoEvent]
    <3>1. mapping'[x] = d
      BY <1>2, <1>5, <2>3 DEF MarkDeleted
    <3>2. /\ d \in Mappings
          /\ d.exists = m.exists /\ d.event = NoEvent /\ d.etag = m.etag /\ ~d.dirty
          /\ d.deleted /\ d.conflict = m.conflict /\ d.pending = m.pending
      BY MarkedFields
    <3> HIDE DEF d
    <3> QED
      BY <1>1, <1>2, <2>1, <3>1, <3>2 DEF Marked
  <2> QED
    BY <2>2, <2>3
<1> QED
  BY <1>4, <1>5

\* The requests that change events.
EventRequest(e) ==
    CreateEvent(e) \/ UpdateEvent(e) \/ DeleteEvent(e) \/ MoveAway(e) \/ MoveInto(e)

\* Every such request is a marking, and keeps the types.
LEMMA RequestsMark ==
  ASSUME TypeOK, NEW e \in Events, EventRequest(e)
  PROVE  TypeOK' /\ Marking
<1>1. MarkChanged(e) \/ MarkDeleted(e)
  BY DEF EventRequest, CreateEvent, UpdateEvent, DeleteEvent, MoveAway, MoveInto
<1>2. /\ mapping' \in [Ids -> Mappings]
      /\ \A x \in Ids : Marked(mapping[x], mapping'[x])
  BY <1>1, MarksOnly
<1>3. /\ edits' = edits + 1 /\ now' = now + 1
      /\ UNCHANGED <<faults, google, open, calendar, jobVars>>
  BY DEF EventRequest, CreateEvent, UpdateEvent, DeleteEvent, MoveAway, MoveInto, Request, Edit
<1>4. /\ body' \in [Events -> Nat] /\ updated' \in [Events -> Nat] /\ home' \subseteq Events
      /\ \A d \in Events : (updated[d] # 0 => updated'[d] # 0)
                           /\ (body'[d] # 0 => body[d] # 0 \/ updated'[d] # 0)
  BY <1>3 DEF TypeOK, EventRequest, CreateEvent, UpdateEvent, DeleteEvent, MoveAway, MoveInto
<1> QED
  BY <1>2, <1>3, <1>4 DEF Marking, TypeOK, google, calendar, jobVars

\* Init is well typed.
LEMMA InitTypes == Init => TypeOK
<1> SUFFICES ASSUME Init PROVE TypeOK
  OBVIOUS
<1>1. /\ now = 1 /\ edits = 0 /\ faults = 0 /\ token = 0 /\ mark = 0
      /\ gver = [x \in Ids |-> 0] /\ glive = [x \in Ids |-> FALSE] /\ gbody = [x \in Ids |-> 0]
      /\ body = [e \in Events |-> 0] /\ updated = [e \in Events |-> 0]
  BY DEF Init
<1>2. mapping \in [Ids -> Mappings]
  BY NoMappingFields DEF Init
<1>3. expired \in BOOLEAN /\ policy \in Resolutions \cup {"ask"}
  BY CalendarAssumption DEF Init
<1>4. home = {} /\ open = {} /\ inbox = {} /\ work = {} /\ pc = "idle" /\ cur = NoItem
  BY DEF Init
<1> QED
  BY <1>1, <1>2, <1>3, <1>4 DEF TypeOK, Holding, Applying, Pulling

\* A write in Google is well typed.
LEMMA WriteTypes ==
  ASSUME TypeOK, NEW x, NEW live \in BOOLEAN, NEW content \in Nat, GoogleWrites(x, live, content)
  PROVE  /\ now' \in Nat \ {0} /\ now' = now + 1
         /\ gver' \in [Ids -> Nat] /\ glive' \in [Ids -> BOOLEAN] /\ gbody' \in [Ids -> Nat]
<1>1. now' = now + 1 /\ now' \in Nat \ {0}
  BY DEF GoogleWrites, TypeOK
<1>2. gver' = [gver EXCEPT ![x] = now']
  BY DEF GoogleWrites
<1>3. glive' = [glive EXCEPT ![x] = live] /\ gbody' = [gbody EXCEPT ![x] = content]
  BY DEF GoogleWrites
<1>4. gver' \in [Ids -> Nat]
  BY <1>1, <1>2 DEF TypeOK
<1>5. glive' \in [Ids -> BOOLEAN] /\ gbody' \in [Ids -> Nat]
  BY <1>3 DEF TypeOK
<1> QED
  BY <1>1, <1>4, <1>5

\* What the step of another actor than the job leaves of the job's state.
LEMMA OthersTypes ==
  ASSUME TypeOK,
         \/ \E x \in Ids, choice \in Choices : ResolveConflict(x, choice)
         \/ Elsewhere
  PROVE  TypeOK'
<1>1. ASSUME NEW x \in Ids, NEW choice \in Choices, ResolveConflict(x, choice)
      PROVE  TypeOK'
  <2>1. choice \in Resolutions /\ mapping[x] \in Mappings
    BY CalendarAssumption DEF TypeOK
  <2> DEFINE n == IF choice = "google"
                  THEN [mapping[x] EXCEPT !.conflict = FALSE, !.dirty = FALSE, !.deleted = FALSE,
                                          !.etag = 0, !.pending = choice]
                  ELSE [mapping[x] EXCEPT !.conflict = FALSE, !.dirty = TRUE, !.pending = choice]
  <2>2. n \in Mappings
    BY <2>1, ResolvedFields
  <2>3. mapping' = [mapping EXCEPT ![x] = n]
    BY <1>1 DEF ResolveConflict
  <2> HIDE DEF n
  <2>4. mapping' \in [Ids -> Mappings]
    BY <2>2, <2>3 DEF TypeOK
  <2>5. open' \subseteq Ids
        /\ UNCHANGED <<now, edits, faults, google, local, calendar, jobVars>>
    BY <1>1 DEF ResolveConflict, TypeOK
  <2> QED
    BY <2>4, <2>5 DEF TypeOK, google, local, calendar, jobVars
<1>2. CASE TokenExpires
  BY <1>2 DEF TokenExpires, TypeOK, google, local, jobVars
<1>3. ASSUME NEW x \in Ids, GoogleEdit(x) PROVE TypeOK'
  <2>1. /\ gver' \in [Ids -> Nat] /\ glive' \in [Ids -> BOOLEAN] /\ gbody' \in [Ids -> Nat]
        /\ now' \in Nat \ {0} /\ edits' \in Nat
    <3>1. GoogleWrites(x, TRUE, now + 1) /\ edits' = edits + 1
      BY <1>3 DEF GoogleEdit, Edit
    <3>2. TRUE \in BOOLEAN /\ now + 1 \in Nat /\ edits + 1 \in Nat
      BY DEF TypeOK
    <3> QED
      BY <3>1, <3>2, WriteTypes
  <2>2. UNCHANGED <<faults, local, mapping, open, calendar, jobVars>>
    BY <1>3 DEF GoogleEdit
  <2> QED
    BY <2>1, <2>2 DEF TypeOK, local, calendar, jobVars
<1>4. ASSUME NEW x \in Ids, GoogleDelete(x) PROVE TypeOK'
  <2>1. /\ gver' \in [Ids -> Nat] /\ glive' \in [Ids -> BOOLEAN] /\ gbody' \in [Ids -> Nat]
        /\ now' \in Nat \ {0} /\ edits' \in Nat
    <3>1. GoogleWrites(x, FALSE, gbody[x]) /\ edits' = edits + 1
      BY <1>4 DEF GoogleDelete, Edit
    <3>2. FALSE \in BOOLEAN /\ gbody[x] \in Nat /\ edits + 1 \in Nat
      BY DEF TypeOK
    <3> QED
      BY <3>1, <3>2, WriteTypes
  <2>2. UNCHANGED <<faults, local, mapping, open, calendar, jobVars>>
    BY <1>4 DEF GoogleDelete
  <2> QED
    BY <2>1, <2>2 DEF TypeOK, local, calendar, jobVars
<1> QED
  BY <1>1, <1>2, <1>3, <1>4 DEF Elsewhere

\* The list, and the mapping read for one of its changes, are well typed.
LEMMA ListingTypes ==
  ASSUME TypeOK, StartSync \/ PullFully \/ ListChanges \/ \E item \in inbox : ReadMapping(item)
  PROVE  TypeOK'
<1>1. UNCHANGED <<Rest, local, mapping, open, calendar, work>>
  BY DEF StartSync, PullFully, ListChanges, ReadMapping
<1>2. CASE StartSync \/ PullFully
  BY <1>1, <1>2 DEF StartSync, PullFully, TypeOK, Goto, Rest, google, local, calendar, Holding, Applying, Pulling
<1>3. CASE ListChanges
  <2> DEFINE seen(x) == [NoItem EXCEPT !.id = x, !.ver = gver[x], !.live = glive[x],
                                       !.body = gbody[x]]
  <2>1. \A x \in Ids : seen(x) \in Items
    BY ListedFields
  <2>2. inbox' = {seen(x) : x \in {y \in Ids : gver[y] > mark}}
    BY <1>3 DEF ListChanges
  <2> HIDE DEF seen
  <2>3. inbox' \subseteq Items
    BY <2>1, <2>2
  <2>4. pc' = "pull" /\ mark' = now /\ cur' = cur
    BY <1>3 DEF ListChanges, Goto
  <2> QED
    BY <1>1, <2>3, <2>4 DEF TypeOK, Rest, google, local, calendar, Holding, Applying, Pulling
<1>4. ASSUME NEW item \in inbox, ReadMapping(item) PROVE TypeOK'
  <2>1. item \in Items /\ mapping[item.id] \in Mappings
    BY ItemTypes DEF TypeOK
  <2> DEFINE m == mapping[item.id]
             at == IF m.event = NoEvent THEN 0 ELSE updated[m.event]
  <2>2. at \in Nat
    BY <2>1, MappingTypes DEF TypeOK
  <2>3. cur' = [item EXCEPT !.map = m, !.event = m.event, !.at = at]
    BY <1>4 DEF ReadMapping
  <2> HIDE DEF m, at
  <2>4. cur' \in Items
    BY <2>1, <2>2, <2>3, ReadFields DEF m
  <2>5. pc' = "apply" /\ mark' = mark /\ inbox' \subseteq inbox
    BY <1>4 DEF ReadMapping, Goto
  <2> QED
    BY <1>1, <2>4, <2>5 DEF TypeOK, Rest, google, local, calendar, Holding, Applying, Pulling
<1> QED
  BY <1>2, <1>3, <1>4

-----------------------------------------------------------------------------
(* SyncInv, one lemma per operation.                                       *)

\* The parts about Google and the database are kept by a step that changes neither.
LEMMA DataFrame ==
  ASSUME SyncInv, UNCHANGED <<google, mapping, open, calendar>>
  PROVE  MappingInv' /\ OpenInv' /\ CoverInv'
<1>1. MappingInv'
  BY DEF SyncInv, MappingInv, SafeMapping, google
<1>2. OpenInv'
  BY DEF SyncInv, OpenInv, SafeConflict, google, calendar
<1>3. CoverInv'
  BY DEF SyncInv, CoverInv, Mapped, google, calendar
<1> QED
  BY <1>1, <1>2, <1>3

\* A job that ends or dies leaves nothing behind but the database.
LEMMA QuitSafe ==
  ASSUME TypeOK, SyncInv, EndSync \/ FailSync \/ Fault
  PROVE  TypeOK' /\ SyncInv'
<1>1. Quit /\ faults' \in Nat
  BY DEF EndSync, FailSync, Fault, TypeOK
<1>2. /\ pc' = "idle" /\ inbox' = {} /\ cur' = NoItem /\ mark' = 0 /\ work' = {}
      /\ UNCHANGED <<now, edits, google, local, mapping, open, calendar>>
  BY <1>1 DEF Quit, Goto
<1>3. TypeOK'
  BY <1>1, <1>2 DEF TypeOK, google, local, calendar, Holding, Applying, Pulling
<1>4. MappingInv' /\ OpenInv' /\ CoverInv'
  BY <1>2, DataFrame
<1>5. ClockInv'
  BY <1>2 DEF SyncInv, ClockInv, google, calendar, Pulling, Pushing, TypeOK
<1>6. PullInv' /\ HandInv' /\ PushInv'
  BY <1>2 DEF PullInv, HandInv, PushInv, Pulling, Applying
<1> QED
  BY <1>3, <1>4, <1>5, <1>6 DEF SyncInv

\* A job starts from the stored token.
LEMMA StartSafe ==
  ASSUME TypeOK, SyncInv, StartSync \/ PullFully
  PROVE  SyncInv'
<1>1. /\ pc' = "list" /\ (mark' = token \/ (mark' = 0 /\ expired))
      /\ UNCHANGED <<now, google, mapping, open, calendar>>
  BY DEF StartSync, PullFully, Goto, Rest
<1>2. MappingInv' /\ OpenInv' /\ CoverInv'
  BY <1>1, DataFrame
<1>3. ClockInv'
  BY <1>1 DEF SyncInv, ClockInv, google, calendar, Pulling, Pushing, TypeOK
<1>4. PullInv' /\ HandInv' /\ PushInv'
  BY <1>1 DEF PullInv, HandInv, PushInv, Pulling, Applying
<1> QED
  BY <1>2, <1>3, <1>4 DEF SyncInv

\* The list has every change since the token; the others are already covered by it.
LEMMA ListSafe ==
  ASSUME TypeOK, SyncInv, ListChanges
  PROVE  SyncInv'
<1> DEFINE seen(x) == [NoItem EXCEPT !.id = x, !.ver = gver[x], !.live = glive[x],
                                     !.body = gbody[x]]
<1>1. /\ pc' = "pull" /\ mark' = now /\ pc = "list" /\ (mark = 0 \/ ~expired)
      /\ UNCHANGED <<now, google, mapping, open, calendar>>
      /\ inbox' = {seen(x) : x \in {y \in Ids : gver[y] > mark}}
  BY DEF ListChanges, Goto, Rest
<1>2. \A x \in Ids : seen(x).id = x /\ seen(x).ver = gver[x] /\ seen(x).live = glive[x]
  BY ListedFields
<1> HIDE DEF seen
<1>3. MappingInv' /\ OpenInv' /\ CoverInv'
  BY <1>1, DataFrame
<1>4. ClockInv'
  BY <1>1 DEF SyncInv, ClockInv, google, calendar, Pulling, Pushing, TypeOK
<1>5. HandInv' /\ PushInv'
  BY <1>1 DEF HandInv, PushInv, Pulling, Applying
<1>6. mark = token \/ (mark = 0 /\ expired)
  BY <1>1 DEF SyncInv, ClockInv
<1>7. ASSUME NEW i \in inbox' PROVE Listed(i)'
  <2>1. PICK x \in Ids : gver[x] > mark /\ i = seen(x)
    BY <1>1, <1>7
  <2>2. i.id = x /\ i.ver = gver[x] /\ i.live = glive[x]
    BY <1>2, <2>1
  <2>3. gver[x] \in Nat /\ mark \in Nat /\ mapping[x].etag <= gver[x]
    BY DEF TypeOK, SyncInv, MappingInv, SafeMapping
  <2>4. expired \/ token < gver[x]
    BY <1>6, <2>1
  <2> QED
    BY <1>1, <2>1, <2>2, <2>3, <2>4 DEF Listed, google, calendar
<1>8. ASSUME NEW x \in Ids, glive[x]
      PROVE  /\ Mapped(x)' \/ Waiting(x)'
             /\ x \in open => Waiting(x)'
  <2>1. gver[x] # 0 /\ gver[x] \in Nat /\ mark \in Nat /\ token \in Nat
    BY <1>8 DEF SyncInv, ClockInv, TypeOK
  <2>2. CASE gver[x] > mark
    <3>1. seen(x) \in inbox'
      BY <1>1, <2>2
    <3> QED
      BY <3>1, <1>2 DEF Waiting
  <2>3. CASE gver[x] <= mark
    <3>1. mark = token /\ ~expired
      BY <1>1, <1>6, <2>1, <2>3
    <3>2. Mapped(x)
      BY <1>8, <2>3, <3>1 DEF SyncInv, CoverInv
    <3>3. x \notin open
      BY <1>8, <2>1, <2>3, <3>1 DEF SyncInv, OpenInv, SafeConflict
    <3> QED
      BY <1>1, <3>2, <3>3 DEF Mapped, google
  <2> QED
    BY <2>1, <2>2, <2>3
<1>9. \A i, j \in inbox' : i.id = j.id => i.ver = j.ver
  BY <1>1, <1>2
<1>10. PullInv'
  BY <1>1, <1>7, <1>8, <1>9 DEF PullInv, google, Pulling, Applying
<1> QED
  BY <1>3, <1>4, <1>5, <1>10 DEF SyncInv

\* The mapping of a listed change is read: the change is in hand instead of the inbox.
LEMMA ReadSafe ==
  ASSUME TypeOK, SyncInv, NEW item \in inbox, ReadMapping(item)
  PROVE  SyncInv'
<1>1. item \in Items /\ item.id \in Ids /\ mapping[item.id] \in Mappings
  BY ItemTypes DEF TypeOK
<1> DEFINE m == mapping[item.id]
           at == IF m.event = NoEvent THEN 0 ELSE updated[m.event]
<1>2. at \in Nat
  BY <1>1, MappingTypes DEF TypeOK
<1>3. cur' = [item EXCEPT !.map = m, !.event = m.event, !.at = at]
  BY DEF ReadMapping
<1>4. /\ cur'.id = item.id /\ cur'.ver = item.ver /\ cur'.live = item.live
      /\ cur'.map = m
  <2> DEFINE c == [item EXCEPT !.map = m, !.event = m.event, !.at = at]
  <2>1. m \in Mappings
    BY <1>1
  <2>2. cur' = c
    BY <1>3
  <2> HIDE DEF m, at
  <2>3. c.id = item.id /\ c.ver = item.ver /\ c.live = item.live /\ c.map = m
    BY <1>1 DEF Items
  <2> QED
    BY <2>2, <2>3
<1>5. /\ pc = "pull" /\ pc' = "apply" /\ inbox' = inbox \ {item}
      /\ UNCHANGED <<now, google, mapping, open, calendar, mark>>
  BY DEF ReadMapping, Goto, Rest
<1>6. MappingInv' /\ OpenInv' /\ CoverInv'
  BY <1>5, DataFrame
<1>7. ClockInv'
  BY <1>5 DEF SyncInv, ClockInv, google, calendar, Pulling, Pushing
<1>8. PushInv'
  BY <1>5 DEF PushInv
<1>9. HandInv'
  <2>1. item.id \in open => m.dirty \/ m.deleted
    BY DEF SyncInv, OpenInv, SafeConflict
  <2>2. m' = m /\ mapping'[cur'.id] = m
    BY <1>4, <1>5
  <2> HIDE DEF m
  <2> QED
    BY <1>4, <1>5, <2>1, <2>2 DEF HandInv
<1>10. ASSUME NEW i \in inbox PROVE Listed(i) /\ Listed(i)'
  BY <1>5 DEF SyncInv, PullInv, Pulling, Listed, google, calendar
<1>11. Listed(cur)'
  BY <1>4, <1>5, <1>10 DEF Listed, google, calendar
<1>12. /\ \A i \in inbox' : i.id = cur'.id => i.ver = cur'.ver
       /\ \A i, j \in inbox' : i.id = j.id => i.ver = j.ver
  BY <1>4, <1>5 DEF SyncInv, PullInv, Pulling
<1>13. ASSUME NEW x \in Ids, glive[x], gver[x] <= mark
       PROVE  /\ Mapped(x)' \/ mapping[x].conflict \/ Waiting(x)' \/ InHand(x)'
              /\ x \in open => mapping[x].conflict \/ Waiting(x)' \/ InHand(x)'
  <2>1. /\ Mapped(x) \/ mapping[x].conflict \/ Waiting(x)
        /\ x \in open => mapping[x].conflict \/ Waiting(x)
    BY <1>5, <1>13 DEF SyncInv, PullInv, InHand, Pulling, Applying
  <2>2. Waiting(x) => Waiting(x)' \/ InHand(x)'
    BY <1>4, <1>5 DEF Waiting, InHand, Pulling, Applying
  <2>3. Mapped(x)' <=> Mapped(x)
    BY <1>5 DEF Mapped, google
  <2> QED
    BY <2>1, <2>2, <2>3
<1>14. PullInv'
  BY <1>5, <1>10, <1>11, <1>12, <1>13 DEF PullInv, google, Pulling, Applying
<1> QED
  BY <1>6, <1>7, <1>8, <1>9, <1>14 DEF SyncInv

\* The change in hand is done with: it is applied, a conflict, or left for the next list.
LEMMA NextItemSafe ==
  ASSUME TypeOK, SyncInv, pc \in Applying, pc' = "pull", NEW x \in Ids, x = cur.id,
         UNCHANGED <<now, google, calendar, inbox, mark>>,
         \A y \in Ids : y # x => mapping'[y] = mapping[y],
         open' \subseteq open, open \subseteq open' \cup {x},
         SafeMapping(x)', x \in open' => SafeConflict(x)',
         mapping'[x].etag <= cur.ver,
         glive[x] /\ gver[x] <= mark =>
             /\ Mapped(x)' \/ mapping'[x].conflict
             /\ x \in open' => mapping'[x].conflict
  PROVE  SyncInv'
<1>1. x = cur.id
  OBVIOUS
<1>2. /\ Listed(cur) /\ \A i \in inbox : Listed(i) /\ (i.id = x => i.ver = cur.ver)
      /\ \A i, j \in inbox : i.id = j.id => i.ver = j.ver
  BY <1>1 DEF SyncInv, PullInv, Applying
<1>3. gver[x] # 0 /\ (expired \/ token < gver[x])
  <2>1. cur.ver \in Nat /\ gver[x] \in Nat /\ token \in Nat
    BY ItemTypes DEF TypeOK
  <2> QED
    BY <1>1, <1>2, <2>1 DEF Listed
<1>4. MappingInv'
  <2>1. ASSUME NEW y \in Ids, y # x PROVE SafeMapping(y)'
    BY <1>1, <2>1 DEF SyncInv, MappingInv, SafeMapping, google
  <2> QED
    BY <2>1 DEF MappingInv
<1>5. OpenInv'
  <2>1. ASSUME NEW y \in open', y # x PROVE SafeConflict(y)'
    BY <1>1, <2>1 DEF SyncInv, OpenInv, SafeConflict, google, calendar, TypeOK
  <2> QED
    BY <2>1 DEF OpenInv
<1>6. CoverInv'
  <2>1. ASSUME NEW y \in Ids, y # x, Mapped(y) PROVE Mapped(y)'
    BY <1>1, <2>1 DEF Mapped, google
  <2>2. ~expired => ~(gver[x] <= token)
    BY <1>3 DEF TypeOK
  <2> QED
    BY <2>1, <2>2 DEF SyncInv, CoverInv, google, calendar
<1>7. ClockInv'
  BY <1>1, <1>3 DEF SyncInv, ClockInv, google, calendar, Applying, Pulling, Pushing
<1>8. HandInv' /\ PushInv'
  BY DEF HandInv, PushInv, Applying
<1>9. ASSUME NEW i \in inbox PROVE Listed(i)'
  <2>1. mapping[i.id].etag <= i.ver => mapping'[i.id].etag <= i.ver
    <3>1. i.id \in Ids
      BY ItemTypes DEF TypeOK
    <3> QED
      BY <1>1, <1>2, <3>1
  <2> QED
    BY <1>2, <2>1 DEF Listed, google, calendar
<1>10. ASSUME NEW y \in Ids, glive[y], gver[y] <= mark
       PROVE  /\ Mapped(y)' \/ mapping'[y].conflict \/ Waiting(y)'
              /\ y \in open' => mapping'[y].conflict \/ Waiting(y)'
  <2>1. CASE y = x
    BY <1>10, <2>1
  <2>2. CASE y # x
    <3>1. /\ Mapped(y) \/ mapping[y].conflict \/ Waiting(y)
          /\ y \in open => mapping[y].conflict \/ Waiting(y)
      BY <1>1, <1>10, <2>2 DEF SyncInv, PullInv, InHand, Applying
    <3>2. (Mapped(y) => Mapped(y)') /\ (Waiting(y) => Waiting(y)') /\ mapping'[y] = mapping[y]
      BY <1>1, <2>2 DEF Mapped, Waiting, google
    <3> QED
      BY <3>1, <3>2
  <2> QED
    BY <2>1, <2>2
<1>11. PullInv'
  BY <1>2, <1>9, <1>10 DEF PullInv, google, Applying
<1> QED
  BY <1>4, <1>5, <1>6, <1>7, <1>8, <1>11 DEF SyncInv

\* A statement that writes one mapping.
LEMMA OneMapping ==
  ASSUME TypeOK, NEW x \in Ids, NEW n \in Mappings, mapping' = [mapping EXCEPT ![x] = n]
  PROVE  /\ mapping' \in [Ids -> Mappings] /\ mapping'[x] = n
         /\ \A y \in Ids : y # x => mapping'[y] = mapping[y]
BY DEF TypeOK

\* The types after the change in hand is done with.
LEMMA NextItemTypes ==
  ASSUME TypeOK, NextItem, mapping' \in [Ids -> Mappings], open' \subseteq Ids,
         UNCHANGED <<Rest, local, calendar>>
  PROVE  TypeOK' /\ pc' = "pull" /\ UNCHANGED <<now, google, calendar, inbox, mark>>
BY DEF NextItem, Goto, TypeOK, Rest, google, local, calendar, Holding, Applying, Pulling

\* What is known of the change in hand, of its mapping and of its event in Google.
LEMMA InHandFacts ==
  ASSUME TypeOK, SyncInv, pc \in Applying, NEW x \in Ids, x = cur.id
  PROVE  /\ mapping[x] \in Mappings /\ cur.map \in Mappings /\ cur \in Items
         /\ gver[x] \in Nat /\ cur.ver \in Nat /\ mark \in Nat /\ token \in Nat
         /\ cur.ver # 0 /\ cur.ver <= gver[x]
         /\ cur.ver = gver[x] \/ mark < gver[x]
         /\ cur.live \/ ~glive[x]
         /\ expired \/ token < cur.ver
         /\ mapping[x].etag <= cur.ver
         /\ SafeMapping(x) /\ (x \in open => SafeConflict(x))
         /\ cur.map.exists = mapping[x].exists /\ cur.map.etag = mapping[x].etag
         /\ cur.map.pending = mapping[x].pending
         /\ cur.map.dirty \/ cur.map.deleted => mapping[x].dirty \/ mapping[x].deleted
         /\ x \in open => cur.map.dirty \/ cur.map.deleted
<1>1. cur \in Items
  BY DEF TypeOK, Holding
<1>2. Listed(cur)
  BY DEF SyncInv, PullInv
<1>3. SafeMapping(x) /\ (x \in open => SafeConflict(x))
  BY DEF SyncInv, MappingInv, OpenInv
<1>4. /\ cur.map.exists = mapping[x].exists /\ cur.map.etag = mapping[x].etag
      /\ cur.map.pending = mapping[x].pending
      /\ cur.map.dirty \/ cur.map.deleted => mapping[x].dirty \/ mapping[x].deleted
      /\ x \in open => cur.map.dirty \/ cur.map.deleted
  BY DEF SyncInv, HandInv
<1>5. /\ mapping[x] \in Mappings /\ cur.map \in Mappings
      /\ gver[x] \in Nat /\ cur.ver \in Nat /\ mark \in Nat /\ token \in Nat
  BY <1>1, ItemTypes DEF TypeOK
<1> QED
  BY <1>1, <1>2, <1>3, <1>4, <1>5 DEF Listed

\* A change that asks is not kept or taken; one of an event with an open conflict asks.
LEMMA OpenAsks ==
  ASSUME TypeOK, SyncInv, pc = "apply", cur.id \in open
  PROVE  /\ Effective(cur.map) = "ask" /\ ~Keeps(cur)
         /\ cur.live => Contested(cur) /\ ~Takes(cur)
<1>1. PICK x \in Ids : x = cur.id
  BY ItemTypes DEF TypeOK, Holding, Applying, Pulling
<1>2. SafeConflict(x) /\ cur.map.pending = mapping[x].pending /\ cur.map.exists = mapping[x].exists
      /\ (cur.map.dirty \/ cur.map.deleted)
  BY <1>1, InHandFacts DEF Applying, Pulling
<1>3. Effective(cur.map) = "ask"
  BY <1>2 DEF Effective, SafeConflict
<1>4. ~KeepsLocal(cur)
  BY <1>3 DEF KeepsLocal
<1>5. cur.live => Contested(cur)
  BY <1>2 DEF Contested, SafeConflict
<1> QED
  BY <1>3, <1>4, <1>5 DEF Keeps, Takes, Asks

\* A change that is known, or the cancellation of an event that never was here.
LEMMA SkipSafe ==
  ASSUME TypeOK, SyncInv, SkipChange
  PROVE  TypeOK' /\ SyncInv'
<1>1. PICK x \in Ids : x = cur.id
  BY ItemTypes DEF TypeOK, SkipChange, Holding, Applying, Pulling
<1>2. /\ pc = "apply" /\ (Known(cur) \/ (~cur.live /\ ~cur.map.exists)) /\ NextItem
      /\ UNCHANGED <<Rest, local, mapping, open, calendar>>
  BY DEF SkipChange
<1>3. TypeOK' /\ pc' = "pull" /\ UNCHANGED <<now, google, calendar, inbox, mark>>
  BY <1>2, NextItemTypes DEF TypeOK
<1>4. pc \in Applying
  BY <1>2 DEF Applying, Pulling
<1>5. SafeMapping(x)' /\ (x \in open' => SafeConflict(x)') /\ mapping'[x].etag <= cur.ver
  BY <1>1, <1>2, <1>3, <1>4, InHandFacts DEF SafeMapping, SafeConflict, google, calendar
<1>6. ASSUME glive[x], gver[x] <= mark
      PROVE  Mapped(x)' /\ x \notin open'
  <2>1. /\ cur.live /\ cur.ver = gver[x] /\ cur.map.etag = mapping[x].etag
        /\ cur.map.exists = mapping[x].exists /\ (x \in open => SafeConflict(x))
        /\ mapping[x].etag \in Nat /\ gver[x] \in Nat
    <3>1. gver[x] \in Nat /\ mark \in Nat /\ mapping[x].etag \in Nat
      BY MappingTypes DEF TypeOK
    <3> QED
      BY <1>1, <1>4, <1>6, <3>1, InHandFacts
  <2>2. cur.map.exists /\ cur.map.etag = cur.ver
    BY <1>2, <2>1 DEF Known
  <2> QED
    BY <1>2, <1>3, <1>6, <2>1, <2>2 DEF Mapped, SafeConflict, google
<1>7. \A y \in Ids : y # x => mapping'[y] = mapping[y]
  BY <1>2
<1> QED
  BY <1>1, <1>2, <1>3, <1>4, <1>5, <1>6, <1>7, NextItemSafe

\* The mapping of x is as before except for its event.
SameState(x) ==
    LET m == mapping[x]
        n == mapping'[x] IN
    /\ n.exists = m.exists /\ n.etag = m.etag /\ n.dirty = m.dirty /\ n.deleted = m.deleted
    /\ n.conflict = m.conflict /\ n.pending = m.pending
    /\ n.exists \/ n = m

\* A statement after which the change stays in hand.
LEMMA StayInHand ==
  ASSUME TypeOK, SyncInv, pc \in Applying, pc' \in Applying, NEW x \in Ids, x = cur.id,
         UNCHANGED <<now, google, calendar, inbox, mark>>,
         cur'.id = x, cur'.ver = cur.ver, cur'.live = cur.live,
         \A y \in Ids : SameState(y),
         open \subseteq open', open' \subseteq open \cup {x}, x \in open' => SafeConflict(x)',
         HandInv'
  PROVE  SyncInv'
<1>1. MappingInv'
  BY DEF SyncInv, MappingInv, SafeMapping, SameState, google
<1>2. OpenInv'
  <2>1. ASSUME NEW y \in open' , y # x PROVE SafeConflict(y)'
    <3>1. y \in open /\ y \in Ids
      BY <2>1 DEF TypeOK
    <3> QED
      BY <3>1 DEF SyncInv, OpenInv, SafeConflict, SameState, google, calendar
  <2> QED
    BY <2>1 DEF OpenInv
<1>3. ASSUME NEW y \in Ids PROVE Mapped(y)' <=> Mapped(y)
  BY DEF Mapped, SameState, google
<1>4. CoverInv'
  BY <1>3 DEF SyncInv, CoverInv, google, calendar
<1>5. ClockInv'
  BY DEF SyncInv, ClockInv, SameState, google, calendar, Applying, Pulling, Pushing
<1>6. PushInv'
  BY DEF PushInv, Applying, Pulling
<1>7. Listed(cur)' /\ \A i \in inbox : Listed(i)'
  <2>1. Listed(cur) /\ \A i \in inbox : Listed(i) /\ i.id \in Ids
    BY ItemTypes DEF SyncInv, PullInv, Applying, TypeOK
  <2>2. ASSUME NEW i \in inbox PROVE Listed(i)'
    BY <2>1 DEF Listed, SameState, google, calendar
  <2>3. Listed(cur)'
    BY <2>1 DEF Listed, SameState, google, calendar
  <2> QED
    BY <2>2, <2>3
<1>8. ASSUME NEW y \in Ids, glive[y], gver[y] <= mark
      PROVE  /\ Mapped(y)' \/ mapping'[y].conflict \/ Waiting(y)' \/ InHand(y)'
             /\ y \in open' => mapping'[y].conflict \/ Waiting(y)' \/ InHand(y)'
  <2>1. /\ Mapped(y) \/ mapping[y].conflict \/ Waiting(y) \/ InHand(y)
        /\ y \in open => mapping[y].conflict \/ Waiting(y) \/ InHand(y)
    BY <1>8 DEF SyncInv, PullInv, Applying
  <2>2. InHand(y)' <=> y = x
    BY DEF InHand
  <2>3. InHand(y) <=> y = x
    BY DEF InHand
  <2>4. (Waiting(y)' <=> Waiting(y)) /\ mapping'[y].conflict = mapping[y].conflict
    BY DEF Waiting, SameState
  <2> QED
    BY <1>3, <2>1, <2>2, <2>3, <2>4
<1>9. PullInv'
  BY <1>7, <1>8 DEF SyncInv, PullInv, google, Applying
<1> QED
  BY <1>1, <1>2, <1>4, <1>5, <1>6, <1>9 DEF SyncInv

\* A conflict is opened about a version that the token has not passed.
LEMMA OpenConflictSafe ==
  ASSUME TypeOK, SyncInv, OpenConflict
  PROVE  TypeOK' /\ SyncInv'
<1>1. PICK x \in Ids : x = cur.id
  BY ItemTypes DEF TypeOK, OpenConflict, Holding, Applying, Pulling
<1>2. /\ pc = "apply" /\ pc' = "mark" /\ Asks(cur) /\ open' = open \cup {x}
      /\ UNCHANGED <<Rest, local, mapping, calendar, inbox, cur, mark, work>>
  BY <1>1 DEF OpenConflict, Goto
<1>3. pc \in Applying /\ pc' \in Applying
  BY <1>2 DEF Applying, Pulling
<1>4. TypeOK'
  BY <1>2, <1>3 DEF TypeOK, Rest, google, local, calendar, Holding, Pulling
<1>5. \A y \in Ids : SameState(y)
  BY <1>2 DEF SameState
<1>6. /\ cur.map.exists /\ (cur.map.dirty \/ cur.map.deleted) /\ policy = "ask"
      /\ cur.map.pending = "none" /\ (cur.live => cur.map.etag # cur.ver)
  <2>1. cur.map.pending \in Resolutions \cup {"none"}
    BY <1>1, <1>3, InHandFacts, MappingTypes
  <2> QED
    BY <1>2, <2>1 DEF Asks, Known, Contested, Effective, Resolutions
<1>7. mapping[x].etag \in Nat
  BY <1>1, <1>3, InHandFacts, MappingTypes
<1>8. SafeConflict(x)'
  <2>1. /\ mapping[x].exists /\ (mapping[x].dirty \/ mapping[x].deleted)
        /\ mapping[x].pending = "none"
    BY <1>1, <1>3, <1>6, InHandFacts
  <2>2. glive[x] => mapping[x].etag < gver[x] /\ (expired \/ token < gver[x])
    <3>1. /\ cur.map.etag = mapping[x].etag /\ mapping[x].etag <= cur.ver /\ cur.ver <= gver[x]
          /\ cur.live \/ ~glive[x]
          /\ expired \/ token < cur.ver
          /\ gver[x] \in Nat /\ cur.ver \in Nat /\ token \in Nat
      BY <1>1, <1>3, InHandFacts
    <3> QED
      BY <1>6, <1>7, <3>1
  <2> QED
    BY <1>2, <1>6, <2>1, <2>2 DEF SafeConflict, Rest, google, calendar
<1>9. HandInv'
  <2>1. HandInv
    BY DEF SyncInv
  <2> QED
    BY <1>1, <1>2, <1>3, <1>6, <2>1 DEF HandInv
<1>10. UNCHANGED <<now, google, calendar, inbox, mark>> /\ cur' = cur
  BY <1>2 DEF Rest
<1> QED
  BY <1>1, <1>2, <1>3, <1>4, <1>5, <1>8, <1>9, <1>10, StayInHand

\* The conflict shows in the mapping.
LEMMA MarkConflictSafe ==
  ASSUME TypeOK, SyncInv, MarkConflict
  PROVE  TypeOK' /\ SyncInv'
<1>1. PICK x \in Ids : x = cur.id
  BY ItemTypes DEF TypeOK, MarkConflict, Holding, Applying, Pulling
<1>2. pc = "mark" /\ NextItem /\ UNCHANGED <<Rest, local, open, calendar>>
  BY DEF MarkConflict
<1>3. pc \in Applying /\ x \in open
  BY <1>1, <1>2 DEF Applying, Pulling, SyncInv, HandInv
<1> DEFINE n == [mapping[x] EXCEPT !.conflict = TRUE]
<1>4. mapping' = [mapping EXCEPT ![x] = n]
  BY <1>1 DEF MarkConflict
<1>5. LET m == mapping[x] IN
      /\ n \in Mappings
      /\ n.exists = m.exists /\ n.event = m.event /\ n.etag = m.etag /\ n.dirty = m.dirty
      /\ n.deleted = m.deleted /\ n.conflict /\ n.pending = m.pending
  BY ConflictFields DEF TypeOK
<1> HIDE DEF n
<1>6. /\ mapping' \in [Ids -> Mappings] /\ mapping'[x] = n
      /\ \A y \in Ids : y # x => mapping'[y] = mapping[y]
  BY <1>4, <1>5, OneMapping
<1>7. TypeOK' /\ pc' = "pull" /\ UNCHANGED <<now, google, calendar, inbox, mark>>
  BY <1>2, <1>6, NextItemTypes DEF TypeOK
<1>8. SafeMapping(x) /\ SafeConflict(x) /\ mapping[x].etag <= cur.ver
  BY <1>1, <1>3, InHandFacts
<1>9. SafeConflict(x)'
  <2>1. n.exists /\ (n.dirty \/ n.deleted) /\ n.pending = "none" /\ policy = "ask"
    BY <1>5, <1>8 DEF SafeConflict
  <2>2. glive[x] => n.etag < gver[x] /\ (expired \/ token < gver[x])
    BY <1>5, <1>8 DEF SafeConflict
  <2> QED
    BY <1>6, <1>7, <2>1, <2>2 DEF SafeConflict, google, calendar
<1>10. SafeMapping(x)' /\ mapping'[x].conflict /\ mapping'[x].etag <= cur.ver
  BY <1>2, <1>3, <1>5, <1>6, <1>7, <1>8 DEF SafeMapping, SafeConflict, google
<1> QED
  BY <1>1, <1>2, <1>3, <1>6, <1>7, <1>9, <1>10, NextItemSafe

\* The mapping of an event that Google has cancelled is forgotten, with its conflict.
LEMMA ForgottenSafe ==
  ASSUME TypeOK, SyncInv, pc \in Applying, NEW x \in Ids, x = cur.id, ~cur.live,
         mapping' = [mapping EXCEPT ![x] = NoMapping], open' = open \ {x},
         NextItem, UNCHANGED <<Rest, local, calendar>>
  PROVE  TypeOK' /\ SyncInv'
<1>1. /\ mapping' \in [Ids -> Mappings] /\ mapping'[x] = NoMapping
      /\ \A y \in Ids : y # x => mapping'[y] = mapping[y]
  BY NoMappingFields, OneMapping
<1>2. TypeOK' /\ pc' = "pull" /\ UNCHANGED <<now, google, calendar, inbox, mark>>
  BY <1>1, NextItemTypes DEF TypeOK
<1>3. ~glive[x] /\ gver[x] \in Nat /\ cur.ver \in Nat
  BY InHandFacts
<1>4. SafeMapping(x)' /\ mapping'[x].etag <= cur.ver
  BY <1>1, <1>2, <1>3, NoMappingFields DEF SafeMapping, google
<1> QED
  BY <1>1, <1>2, <1>3, <1>4, NextItemSafe

\* The local version wins.
LEMMA KeepLocalSafe ==
  ASSUME TypeOK, SyncInv, KeepLocal
  PROVE  TypeOK' /\ SyncInv'
<1>1. PICK x \in Ids : x = cur.id
  BY ItemTypes DEF TypeOK, KeepLocal, Holding, Applying, Pulling
<1>2. pc = "apply" /\ Keeps(cur) /\ NextItem /\ UNCHANGED <<Rest, local, calendar>>
  BY DEF KeepLocal
<1>3. pc \in Applying
  BY <1>2 DEF Applying, Pulling
<1>4. CASE ~cur.live
  BY <1>1, <1>2, <1>3, <1>4, ForgottenSafe DEF KeepLocal
<1>5. CASE cur.live
  <2> DEFINE n == [mapping[x] EXCEPT !.pending = "none"]
  <2>1. mapping' = [mapping EXCEPT ![x] = n] /\ open' = open
    BY <1>1, <1>5 DEF KeepLocal
  <2>2. LET m == mapping[x] IN
        /\ n \in Mappings
        /\ n.exists = m.exists /\ n.event = m.event /\ n.etag = m.etag /\ n.dirty = m.dirty
        /\ n.deleted = m.deleted /\ n.conflict = m.conflict /\ n.pending = "none"
    BY PendingFields DEF TypeOK
  <2> HIDE DEF n
  <2>3. /\ mapping' \in [Ids -> Mappings] /\ mapping'[x] = n
        /\ \A y \in Ids : y # x => mapping'[y] = mapping[y]
    BY <2>1, <2>2, OneMapping
  <2>4. TypeOK' /\ pc' = "pull" /\ UNCHANGED <<now, google, calendar, inbox, mark>>
    BY <1>2, <2>1, <2>3, NextItemTypes DEF TypeOK
  <2>5. x \notin open
    BY <1>1, <1>2, OpenAsks
  <2>6. /\ SafeMapping(x) /\ mapping[x].etag <= cur.ver
        /\ cur.map.exists = mapping[x].exists /\ cur.map.pending = mapping[x].pending
        /\ cur.map.dirty \/ cur.map.deleted => mapping[x].dirty \/ mapping[x].deleted
    BY <1>1, <1>3, InHandFacts
  <2>7. mapping[x].exists /\ (mapping[x].dirty \/ mapping[x].deleted) /\ mapping[x].pending # "google"
    <3>1. cur.map.exists /\ (cur.map.dirty \/ cur.map.deleted) /\ Effective(cur.map) # "google"
      BY <1>2 DEF Keeps, Contested, KeepsLocal
    <3>2. cur.map.pending # "google"
      BY <3>1 DEF Effective
    <3> QED
      BY <2>6, <3>1, <3>2
  <2>8. SafeMapping(x)' /\ mapping'[x].etag <= cur.ver
    BY <2>1, <2>2, <2>3, <2>4, <2>6, <2>7 DEF SafeMapping, google
  <2>9. Mapped(x)'
    BY <2>2, <2>3, <2>7 DEF Mapped
  <2> QED
    BY <1>1, <1>3, <2>1, <2>3, <2>4, <2>5, <2>8, <2>9, NextItemSafe
<1> QED
  BY <1>4, <1>5

\* The mapping of an event that was deleted because Google cancelled it.
LEMMA UnmapSafe ==
  ASSUME TypeOK, SyncInv, Unmap
  PROVE  TypeOK' /\ SyncInv'
<1>1. PICK x \in Ids : x = cur.id
  BY ItemTypes DEF TypeOK, Unmap, Holding, Applying, Pulling
<1>2. pc = "unmap" /\ NextItem /\ UNCHANGED <<Rest, local, calendar>>
      /\ mapping' = [mapping EXCEPT ![x] = NoMapping] /\ open' = open \ {x}
  BY <1>1 DEF Unmap
<1>3. pc \in Applying /\ ~cur.live
  BY <1>2 DEF Applying, Pulling, SyncInv, HandInv
<1> QED
  BY <1>1, <1>2, <1>3, ForgottenSafe

\* The mapping of a change that was taken over has its version: the current one, or one
\* that a later list replaces.
LEMMA TakenSafe ==
  ASSUME TypeOK, SyncInv, pc \in Applying, NEW x \in Ids, x = cur.id, x \notin open,
         NEW n \in Mappings, n.exists, n.etag = cur.ver, ~n.conflict,
         mapping' = [mapping EXCEPT ![x] = n],
         NextItem, UNCHANGED <<Rest, local, open, calendar>>
  PROVE  TypeOK' /\ SyncInv'
<1>1. /\ mapping' \in [Ids -> Mappings] /\ mapping'[x] = n
      /\ \A y \in Ids : y # x => mapping'[y] = mapping[y]
  BY OneMapping
<1>2. TypeOK' /\ pc' = "pull" /\ UNCHANGED <<now, google, calendar, inbox, mark>>
  BY <1>1, NextItemTypes DEF TypeOK
<1>3. /\ cur.ver # 0 /\ cur.ver <= gver[x] /\ (cur.ver = gver[x] \/ mark < gver[x])
      /\ gver[x] \in Nat /\ cur.ver \in Nat /\ mark \in Nat
  BY InHandFacts
<1>4. SafeMapping(x)' /\ mapping'[x].etag <= cur.ver
  BY <1>1, <1>2, <1>3 DEF SafeMapping, google
<1>5. gver[x] <= mark => Mapped(x)'
  BY <1>1, <1>2, <1>3 DEF Mapped, google
<1> QED
  BY <1>1, <1>2, <1>4, <1>5, NextItemSafe

\* update_mapping_baseline.
LEMMA BaselineSafe ==
  ASSUME TypeOK, SyncInv, Baseline
  PROVE  TypeOK' /\ SyncInv'
<1>1. PICK x \in Ids : x = cur.id
  BY ItemTypes DEF TypeOK, Baseline, Holding, Applying, Pulling
<1>2. pc = "baseline" /\ NextItem /\ UNCHANGED <<Rest, local, open, calendar>>
  BY DEF Baseline
<1>3. pc \in Applying
  BY <1>2 DEF Applying, Pulling
<1>4. cur.map.exists /\ x \notin open
  BY <1>1, <1>2 DEF SyncInv, HandInv
<1>5. /\ mapping[x] \in Mappings /\ cur.ver \in Nat /\ SafeMapping(x)
      /\ cur.map.exists = mapping[x].exists
  BY <1>1, <1>3, InHandFacts
<1> DEFINE n == [mapping[x] EXCEPT !.etag = cur.ver, !.dirty = FALSE, !.deleted = FALSE,
                                   !.pending = "none"]
<1>6. mapping' = [mapping EXCEPT ![x] = n]
  BY <1>1 DEF Baseline
<1>7. n \in Mappings /\ n.exists = mapping[x].exists /\ n.etag = cur.ver
      /\ n.conflict = mapping[x].conflict
  BY <1>5, BaselineFields
<1> HIDE DEF n
<1>8. n.exists /\ ~n.conflict
  BY <1>4, <1>5, <1>7 DEF SafeMapping
<1> QED
  BY <1>1, <1>2, <1>3, <1>4, <1>6, <1>7, <1>8, TakenSafe

\* The mapping of an imported event is inserted.
LEMMA LinkSafe ==
  ASSUME TypeOK, SyncInv, Link
  PROVE  TypeOK' /\ SyncInv'
<1>1. PICK x \in Ids : x = cur.id
  BY ItemTypes DEF TypeOK, Link, Holding, Applying, Pulling
<1>2. pc = "link" /\ NextItem /\ UNCHANGED <<Rest, local, open, calendar>>
      /\ mapping' = [mapping EXCEPT ![x] = NewMapping(cur.event, cur.ver)]
  BY <1>1 DEF Link
<1>3. pc \in Applying
  BY <1>2 DEF Applying, Pulling
<1>4. cur.ver \in Nat /\ cur.event \in Events \cup {NoEvent}
  BY ItemTypes DEF TypeOK
<1>5. x \notin open
  <2>1. ~mapping[x].exists /\ (x \in open => SafeConflict(x))
    BY <1>1, <1>2, <1>3, InHandFacts DEF SyncInv, HandInv
  <2> QED
    BY <2>1 DEF SafeConflict
<1> DEFINE n == NewMapping(cur.event, cur.ver)
<1>6. n \in Mappings /\ n.exists /\ n.etag = cur.ver /\ ~n.conflict
  BY <1>4, NewMappingFields
<1> HIDE DEF n
<1>7. mapping' = [mapping EXCEPT ![x] = n]
  BY <1>2 DEF n
<1> QED
  BY <1>1, <1>2, <1>3, <1>5, <1>6, <1>7, TakenSafe

\* What was read of the mapping in hand stays true where only events changed.
LEMMA StayHandInv ==
  ASSUME TypeOK, SyncInv, pc \in Applying, pc' \in Applying, NEW x \in Ids, x = cur.id,
         cur'.id = x, cur'.live = cur.live, cur'.map = cur.map, SameState(x), open' = open,
         pc' \notin {"apply", "mark"},
         pc' \in {"baseline", "relink"} => cur.map.exists /\ x \notin open,
         pc' = "link" => ~cur.map.exists,
         pc' = "unmap" => ~cur.live
  PROVE  HandInv'
<1>1. /\ cur.map.exists = mapping[x].exists /\ cur.map.etag = mapping[x].etag
      /\ cur.map.pending = mapping[x].pending
      /\ cur.map.dirty \/ cur.map.deleted => mapping[x].dirty \/ mapping[x].deleted
      /\ x \in open => cur.map.dirty \/ cur.map.deleted
  BY InHandFacts
<1>2. /\ cur.map.exists = mapping'[x].exists /\ cur.map.etag = mapping'[x].etag
      /\ cur.map.pending = mapping'[x].pending
  BY <1>1 DEF SameState
<1>3. cur.map.dirty \/ cur.map.deleted => mapping'[x].dirty \/ mapping'[x].deleted
  BY <1>1 DEF SameState
<1> QED
  BY <1>1, <1>2, <1>3 DEF HandInv

\* The deletion of an event removes it from its mapping.
LEMMA ApplyDeletionSafe ==
  ASSUME TypeOK, SyncInv, ApplyDeletion
  PROVE  TypeOK' /\ SyncInv'
<1>1. PICK x \in Ids : x = cur.id
  BY ItemTypes DEF TypeOK, ApplyDeletion, Holding, Applying, Pulling
<1>2. /\ pc = "apply" /\ pc' = "unmap" /\ ~cur.live
      /\ UNCHANGED <<Rest, updated, open, calendar, inbox, cur, mark, work>>
      /\ body' = [e \in Events |-> IF e = cur.event THEN 0 ELSE body[e]]
      /\ home' = home \ {cur.event}
  BY DEF ApplyDeletion, Goto
<1>3. pc \in Applying /\ pc' \in Applying
  BY <1>2 DEF Applying, Pulling
<1>4. \A y \in Ids : mapping'[y] \in Mappings /\ SameState(y)
  <2> SUFFICES ASSUME NEW y \in Ids PROVE mapping'[y] \in Mappings /\ SameState(y)
    OBVIOUS
  <2>1. mapping[y] \in Mappings
    BY DEF TypeOK
  <2>2. CASE cur.event # NoEvent /\ y \in MappingOf(cur.event)
    <3> DEFINE n == [mapping[y] EXCEPT !.event = NoEvent]
    <3>1. mapping'[y] = n
      BY <2>2 DEF ApplyDeletion
    <3>2. LET m == mapping[y] IN
          /\ n \in Mappings
          /\ n.exists = m.exists /\ n.etag = m.etag /\ n.dirty = m.dirty
          /\ n.deleted = m.deleted /\ n.conflict = m.conflict /\ n.pending = m.pending
      BY <2>1, EventFields
    <3>3. mapping[y].exists
      BY <2>2 DEF MappingOf
    <3> HIDE DEF n
    <3> QED
      BY <3>1, <3>2, <3>3 DEF SameState
  <2>3. CASE ~(cur.event # NoEvent /\ y \in MappingOf(cur.event))
    <3>1. mapping'[y] = mapping[y]
      BY <2>3 DEF ApplyDeletion
    <3> QED
      BY <2>1, <3>1 DEF SameState
  <2> QED
    BY <2>2, <2>3
<1>5. mapping' \in [Ids -> Mappings]
  <2>1. mapping' = [y \in Ids |-> mapping'[y]]
    BY DEF ApplyDeletion
  <2> QED
    BY <1>4, <2>1
<1>6. TypeOK'
  BY <1>2, <1>3, <1>5 DEF TypeOK, Rest, google, calendar, Holding, Pulling
<1>7. HandInv'
  BY <1>1, <1>2, <1>3, <1>4, StayHandInv
<1>8. UNCHANGED <<now, google, calendar, inbox, mark>>
  BY <1>2 DEF Rest
<1>9. x \in open => SafeConflict(x)'
  <2>1. x \in open => SafeConflict(x)
    BY DEF SyncInv, OpenInv
  <2> QED
    BY <1>4, <1>8, <2>1 DEF SafeConflict, SameState, google, calendar
<1> QED
  BY <1>1, <1>2, <1>3, <1>4, <1>6, <1>7, <1>8, <1>9, StayInHand

\* A change that is taken over is of no event with an open conflict.
LEMMA UpdateCanonicalSafe ==
  ASSUME TypeOK, SyncInv, UpdateCanonical
  PROVE  TypeOK' /\ SyncInv'
<1>1. PICK x \in Ids : x = cur.id
  BY ItemTypes DEF TypeOK, UpdateCanonical, Holding, Applying, Pulling
<1>2. /\ pc = "apply" /\ pc' = "baseline" /\ cur.live /\ cur.map.exists /\ Takes(cur)
      /\ cur.event # NoEvent
      /\ UNCHANGED <<Rest, mapping, open, calendar, inbox, cur, mark, work>>
  BY DEF UpdateCanonical, Goto
<1>3. pc \in Applying /\ pc' \in Applying
  BY <1>2 DEF Applying, Pulling
<1>4. cur.event \in Events /\ cur.body \in Nat
  BY <1>2, ItemTypes DEF TypeOK
<1>5. body' \in [Events -> Nat] /\ updated' \in [Events -> Nat] /\ home' \subseteq Events
  BY <1>4 DEF UpdateCanonical, TypeOK, local
<1>6. TypeOK'
  BY <1>2, <1>3, <1>5 DEF TypeOK, Rest, google, calendar, Holding, Pulling
<1>7. \A y \in Ids : SameState(y)
  BY <1>2 DEF SameState
<1>8. x \notin open
  BY <1>1, <1>2, OpenAsks
<1>9. HandInv'
  BY <1>1, <1>2, <1>3, <1>7, <1>8, StayHandInv
<1> QED
  BY <1>1, <1>2, <1>3, <1>6, <1>7, <1>8, <1>9, StayInHand DEF Rest

\* An import puts the new event into the hand.
LEMMA InsertCanonicalSafe ==
  ASSUME TypeOK, SyncInv, NEW e \in Events, InsertCanonical(e)
  PROVE  TypeOK' /\ SyncInv'
<1>1. PICK x \in Ids : x = cur.id
  BY ItemTypes DEF TypeOK, InsertCanonical, Holding, Applying, Pulling
<1>2. /\ pc = "apply" /\ pc' = (IF cur.map.exists THEN "relink" ELSE "link") /\ cur.live /\ Takes(cur)
      /\ UNCHANGED <<Rest, mapping, open, calendar, inbox, mark, work>>
      /\ cur' = [cur EXCEPT !.event = e]
  BY DEF InsertCanonical, Goto
<1>3. pc \in Applying /\ pc' \in Applying
  BY <1>2 DEF Applying, Pulling
<1>4. cur \in Items /\ cur.body \in Nat
  BY <1>3, ItemTypes DEF TypeOK, Holding
<1>5. /\ cur' \in Items /\ cur'.id = cur.id /\ cur'.ver = cur.ver /\ cur'.live = cur.live
      /\ cur'.map = cur.map
  BY <1>2, <1>4, ImportedFields
<1>6. body' \in [Events -> Nat] /\ updated' \in [Events -> Nat] /\ home' \subseteq Events
  BY <1>4 DEF InsertCanonical, TypeOK
<1>7. TypeOK'
  BY <1>2, <1>3, <1>5, <1>6 DEF TypeOK, Rest, google, calendar, Holding, Applying
<1>8. \A y \in Ids : SameState(y)
  BY <1>2 DEF SameState
<1>9. x \notin open
  BY <1>1, <1>2, OpenAsks
<1>10. HandInv'
  BY <1>1, <1>2, <1>3, <1>5, <1>8, <1>9, StayHandInv
<1> QED
  BY <1>1, <1>2, <1>3, <1>5, <1>7, <1>8, <1>9, <1>10, StayInHand DEF Rest

\* The imported event is linked to the mapping that had lost its own.
LEMMA RelinkSafe ==
  ASSUME TypeOK, SyncInv, Relink
  PROVE  TypeOK' /\ SyncInv'
<1>1. PICK x \in Ids : x = cur.id
  BY ItemTypes DEF TypeOK, Relink, Holding, Applying, Pulling
<1>2. /\ pc = "relink" /\ pc' = "baseline"
      /\ UNCHANGED <<Rest, local, open, calendar, inbox, cur, mark, work>>
  BY DEF Relink, Goto
<1>3. pc \in Applying /\ pc' \in Applying
  BY <1>2 DEF Applying, Pulling
<1>4. cur.event \in Events \cup {NoEvent} /\ mapping[x] \in Mappings
  BY <1>1, ItemTypes DEF TypeOK
<1> DEFINE n == [mapping[x] EXCEPT !.event = cur.event]
<1>5. mapping' = [mapping EXCEPT ![x] = n]
  BY <1>1 DEF Relink
<1>6. LET m == mapping[x] IN
      /\ n \in Mappings
      /\ n.exists = m.exists /\ n.etag = m.etag /\ n.dirty = m.dirty
      /\ n.deleted = m.deleted /\ n.conflict = m.conflict /\ n.pending = m.pending
  BY <1>4, EventFields
<1> HIDE DEF n
<1>7. /\ mapping' \in [Ids -> Mappings] /\ mapping'[x] = n
      /\ \A y \in Ids : y # x => mapping'[y] = mapping[y]
  BY <1>5, <1>6, OneMapping
<1>8. TypeOK'
  BY <1>2, <1>3, <1>7 DEF TypeOK, Rest, google, local, calendar, Holding, Pulling
<1>9. cur.map.exists /\ x \notin open /\ mapping[x].exists
  <2>1. cur.map.exists /\ x \notin open
    BY <1>1, <1>2 DEF SyncInv, HandInv
  <2> QED
    BY <1>1, <1>3, <2>1, InHandFacts
<1>10. \A y \in Ids : SameState(y)
  BY <1>6, <1>7, <1>9 DEF SameState
<1>11. HandInv'
  BY <1>1, <1>2, <1>3, <1>9, <1>10, StayHandInv
<1> QED
  BY <1>1, <1>2, <1>3, <1>8, <1>9, <1>10, <1>11, StayInHand DEF Rest

\* The token moves over what was listed only when all of it is applied.
LEMMA FinishPullSafe ==
  ASSUME TypeOK, SyncInv, FinishPull
  PROVE  TypeOK' /\ SyncInv'
<1>1. /\ pc = "pull" /\ pc' = "unmapped" /\ inbox = {}
      /\ token' = (IF Withheld THEN token ELSE mark) /\ expired' = (expired /\ Withheld)
      /\ UNCHANGED <<Rest, policy, local, mapping, open, inbox, cur, mark, work>>
  BY DEF FinishPull, Goto
<1>2. TypeOK'
  BY <1>1 DEF TypeOK, Rest, google, local, Holding, Applying, Pulling, Pushing
<1>3. MappingInv'
  BY <1>1 DEF SyncInv, MappingInv, SafeMapping, Rest, google
<1>4. ClockInv'
  BY <1>1 DEF SyncInv, ClockInv, Rest, google, Pulling, Pushing, TypeOK
<1>5. PullInv' /\ HandInv' /\ PushInv'
  BY <1>1 DEF PullInv, HandInv, PushInv, Applying, Pulling
<1>6. ASSUME NEW x \in Ids, glive[x], gver[x] <= mark
      PROVE  (Mapped(x) \/ mapping[x].conflict) /\ (x \in open => mapping[x].conflict)
  <2>1. ~Waiting(x) /\ ~InHand(x)
    BY <1>1 DEF Waiting, InHand, Applying, Pulling
  <2> QED
    BY <1>1, <1>6, <2>1 DEF SyncInv, PullInv, Pulling
<1>7. CASE Withheld
  <2>1. token' = token /\ expired' = expired
    BY <1>1, <1>7 DEF TypeOK
  <2>2. OpenInv'
    BY <1>1, <2>1 DEF SyncInv, OpenInv, SafeConflict, Rest, google
  <2>3. CoverInv'
    BY <1>1, <2>1 DEF SyncInv, CoverInv, Mapped, Rest, google
  <2> QED
    BY <1>2, <1>3, <1>4, <1>5, <2>2, <2>3 DEF SyncInv
<1>8. CASE ~Withheld
  <2>1. token' = mark /\ ~expired' /\ \A x \in Ids : ~mapping[x].conflict
    BY <1>1, <1>8 DEF Withheld
  <2>2. OpenInv'
    <3> SUFFICES ASSUME NEW x \in open PROVE SafeConflict(x)'
      BY <1>1 DEF OpenInv
    <3>1. x \in Ids /\ gver[x] \in Nat /\ mark \in Nat /\ SafeConflict(x)
      BY DEF TypeOK, SyncInv, OpenInv
    <3>2. glive[x] => mark < gver[x]
      BY <1>6, <2>1, <3>1
    <3> QED
      BY <1>1, <2>1, <3>1, <3>2 DEF SafeConflict, Rest, google
  <2>3. CoverInv'
    BY <1>1, <1>6, <2>1 DEF CoverInv, Mapped, Rest, google
  <2> QED
    BY <1>2, <1>3, <1>4, <1>5, <2>2, <2>3 DEF SyncInv
<1> QED
  BY <1>7, <1>8

\* A write in Google gives the event a version that is newer than every one known, and
\* never brings a cancelled event back.
Writes(x) ==
    /\ now' = now + 1
    /\ gver'[x] = now + 1
    /\ glive'[x] => glive[x] \/ gver[x] = 0
    /\ \A y \in Ids : y # x => gver'[y] = gver[y] /\ glive'[y] = glive[y]
    /\ gver' \in [Ids -> Nat] /\ glive' \in [Ids -> BOOLEAN] /\ gbody' \in [Ids -> Nat]

LEMMA WriteFacts ==
  ASSUME TypeOK, NEW x \in Ids, NEW live \in BOOLEAN, NEW content \in Nat,
         GoogleWrites(x, live, content), live => glive[x] \/ gver[x] = 0
  PROVE  Writes(x)
<1>1. /\ now' = now + 1
      /\ gver' \in [Ids -> Nat] /\ glive' \in [Ids -> BOOLEAN] /\ gbody' \in [Ids -> Nat]
  BY WriteTypes
<1>2. gver' = [gver EXCEPT ![x] = now'] /\ glive' = [glive EXCEPT ![x] = live]
  BY DEF GoogleWrites
<1>3. gver'[x] = now + 1 /\ \A y \in Ids : y # x => gver'[y] = gver[y]
  BY <1>1, <1>2 DEF TypeOK
<1>4. glive'[x] = live /\ \A y \in Ids : y # x => glive'[y] = glive[y]
  BY <1>2 DEF TypeOK
<1> QED
  BY <1>1, <1>3, <1>4 DEF Writes

\* The database says nothing false about Google after a write in Google.
LEMMA WriteData ==
  ASSUME TypeOK, SyncInv, NEW x \in Ids, Writes(x), UNCHANGED <<mapping, open, calendar>>
  PROVE  MappingInv' /\ OpenInv' /\ CoverInv'
<1>1. \A y \in Ids : gver[y] \in Nat /\ gver[y] <= now /\ mapping[y].etag \in Nat
  BY MappingTypes DEF TypeOK, SyncInv, ClockInv
<1>2. now \in Nat /\ token \in Nat /\ token <= now
  BY DEF TypeOK, SyncInv, ClockInv
<1>3. MappingInv'
  <2> SUFFICES ASSUME NEW y \in Ids PROVE SafeMapping(y)'
    BY DEF MappingInv
  <2>1. SafeMapping(y)
    BY DEF SyncInv, MappingInv
  <2>2. gver[y] <= gver'[y] /\ gver'[y] \in Nat
    BY <1>1, <1>2 DEF Writes
  <2>3. mapping[y].etag <= gver'[y]
    BY <1>1, <2>1, <2>2 DEF SafeMapping
  <2> QED
    BY <2>1, <2>3 DEF SafeMapping
<1>4. OpenInv'
  <2> SUFFICES ASSUME NEW y \in open PROVE SafeConflict(y)'
    BY DEF OpenInv
  <2>1. y \in Ids /\ SafeConflict(y) /\ SafeMapping(y)
    BY DEF SyncInv, OpenInv, MappingInv, TypeOK
  <2>2. CASE y # x
    BY <2>1, <2>2 DEF SafeConflict, Writes, calendar
  <2>3. CASE y = x
    <3>1. mapping[y].etag < gver'[y] /\ token < gver'[y]
      BY <1>1, <1>2, <2>1, <2>3 DEF SafeMapping, Writes
    <3> QED
      BY <2>1, <3>1 DEF SafeConflict, calendar
  <2> QED
    BY <2>2, <2>3
<1>5. CoverInv'
  <2> SUFFICES ASSUME NEW y \in Ids, ~expired, glive'[y], gver'[y] <= token PROVE Mapped(y)'
    BY DEF CoverInv, calendar
  <2>1. y # x
    BY <1>2 DEF Writes
  <2>2. Mapped(y)
    BY <2>1 DEF SyncInv, CoverInv, Writes
  <2> QED
    BY <2>1, <2>2 DEF Mapped, Writes
<1> QED
  BY <1>3, <1>4, <1>5

\* Google's users write at any time.
LEMMA GoogleUserSafe ==
  ASSUME TypeOK, SyncInv, NEW x \in Ids, Writes(x),
         UNCHANGED <<mapping, open, calendar, jobVars>>
  PROVE  SyncInv'
<1>1. MappingInv' /\ OpenInv' /\ CoverInv'
  BY WriteData
<1>2. /\ \A y \in Ids : /\ gver[y] \in Nat /\ gver'[y] \in Nat /\ gver[y] <= now
                        /\ glive[y] \/ mapping[y].exists => gver[y] # 0
      /\ now \in Nat /\ token \in Nat /\ mark \in Nat /\ token <= now /\ mark <= now
  BY DEF TypeOK, SyncInv, ClockInv, Writes
<1>3. ASSUME NEW y \in Ids
      PROVE  /\ gver[y] <= gver'[y] /\ (gver'[y] = gver[y] \/ mark < gver'[y])
             /\ gver'[y] <= now + 1 /\ (gver[y] # 0 => gver'[y] # 0)
             /\ glive'[y] => glive[y] \/ gver[y] = 0
             /\ glive'[y] /\ gver'[y] <= mark => glive[y] /\ gver'[y] = gver[y]
  <2>1. CASE y = x
    BY <1>2, <2>1 DEF Writes
  <2>2. CASE y # x
    BY <1>2, <2>2 DEF Writes
  <2> QED
    BY <2>1, <2>2
<1>4. ClockInv'
  <2>1. ASSUME NEW y \in Ids
        PROVE  gver'[y] <= now' /\ (glive'[y] \/ mapping'[y].exists => gver'[y] # 0)
    <3>1. CASE y = x
      BY <1>2, <3>1 DEF Writes
    <3>2. CASE y # x
      BY <1>2, <3>2 DEF Writes
    <3> QED
      BY <3>1, <3>2
  <2>2. token <= now' /\ mark <= now'
    BY <1>2 DEF Writes
  <2> QED
    BY <2>1, <2>2 DEF SyncInv, ClockInv, calendar, jobVars
<1>5. ASSUME NEW i \in Items, Listed(i) PROVE Listed(i)'
  <2>1. i.id \in Ids /\ i.ver \in Nat
    BY ItemTypes
  <2>2. PICK y \in Ids : y = i.id
    BY <2>1
  <2>3. /\ i.ver # 0 /\ i.ver <= gver'[y] /\ (i.ver = gver'[y] \/ mark < gver'[y])
        /\ i.live \/ ~glive'[y]
    BY <1>2, <1>3, <1>5, <2>1, <2>2 DEF Listed
  <2> QED
    BY <1>5, <2>2, <2>3 DEF Listed, calendar, jobVars
<1>6. HandInv'
  BY DEF SyncInv, HandInv, jobVars
<1>7. PushInv'
  <2>1. pc \in {"insert", "forget", "store"} => cur \in Items
    BY DEF TypeOK, Holding
  <2>2. \A i \in Items : i.id \in Ids /\ i.ver \in Nat
    BY ItemTypes
  <2>3. ASSUME pc \in {"push", "forget", "store"}, NEW i \in work
        PROVE  /\ mapping'[i.id].exists
               /\ i.id \in open /\ glive'[i.id] => i.ver # 0 /\ i.ver < gver'[i.id]
    <3>1. PICK y \in Ids : y = i.id
      BY <2>2 DEF TypeOK
    <3>2. /\ mapping[y].exists
          /\ y \in open /\ glive[y] => i.ver # 0 /\ i.ver < gver[y]
          /\ i.ver \in Nat
      BY <2>2, <2>3, <3>1 DEF SyncInv, PushInv, TypeOK
    <3> QED
      BY <1>2, <1>3, <3>1, <3>2
  <2>4. /\ pc \in {"push", "forget", "store"} => \A i, j \in work : i.id = j.id => i = j
        /\ pc \in {"forget", "store"} => \A i \in work : i.id # cur.id
    BY DEF SyncInv, PushInv
  <2>5. CASE pc \in {"insert", "forget", "store"}
    <3>1. PICK y \in Ids : y = cur.id
      BY <2>1, <2>2, <2>5
    <3>2. cur.ver \in Nat
      BY <2>1, <2>2, <2>5
    <3>3. pc = "insert" => cur.ver # 0 /\ cur.ver <= gver'[y]
                           /\ (cur.ver = gver'[y] \/ mark < gver'[y])
      BY <1>2, <1>3, <3>1, <3>2 DEF SyncInv, PushInv
    <3>4. pc = "forget" => ~glive'[y] /\ gver'[y] # 0
      BY <1>2, <1>3, <3>1 DEF SyncInv, PushInv
    <3>5. pc = "store" => /\ cur.ver # 0 /\ cur.ver <= gver'[y] /\ mark < gver'[y]
                          /\ mapping[y].exists /\ y \notin open
      BY <1>2, <1>3, <3>1, <3>2 DEF SyncInv, PushInv
    <3> QED
      BY <2>3, <2>4, <3>1, <3>3, <3>4, <3>5 DEF PushInv, jobVars
  <2>6. CASE pc \notin {"insert", "forget", "store"}
    BY <2>3, <2>4, <2>6 DEF PushInv, jobVars
  <2> QED
    BY <2>5, <2>6
<1>8. PullInv'
  <2>1. ASSUME pc \in Pulling, NEW y \in Ids, glive'[y], gver'[y] <= mark
        PROVE  /\ Mapped(y)' \/ mapping'[y].conflict \/ Waiting(y)' \/ InHand(y)'
               /\ y \in open' => mapping'[y].conflict \/ Waiting(y)' \/ InHand(y)'
    <3>1. glive[y] /\ gver'[y] = gver[y]
      BY <1>3, <2>1
    <3>2. /\ Mapped(y) \/ mapping[y].conflict \/ Waiting(y) \/ InHand(y)
          /\ y \in open => mapping[y].conflict \/ Waiting(y) \/ InHand(y)
      BY <2>1, <3>1 DEF SyncInv, PullInv
    <3>3. (Mapped(y)' <=> Mapped(y)) /\ (Waiting(y)' <=> Waiting(y)) /\ (InHand(y)' <=> InHand(y))
      BY <3>1 DEF Mapped, Waiting, InHand, jobVars
    <3> QED
      BY <3>2, <3>3
  <2>2. inbox \subseteq Items /\ (pc \in Applying => cur \in Items)
    BY DEF TypeOK, Holding
  <2>3. (pc \in Pulling => \A i \in inbox : Listed(i)') /\ (pc \in Applying => Listed(cur)')
    <3>1. pc \in Pulling => \A i \in inbox : Listed(i)'
      BY <1>5, <2>2 DEF SyncInv, PullInv
    <3>2. ASSUME pc \in Applying PROVE Listed(cur)'
      <4>1. PICK c \in Items : c = cur
        BY <2>2, <3>2
      <4>2. Listed(c)'
        BY <1>5, <3>2, <4>1 DEF SyncInv, PullInv
      <4> QED
        BY <4>1, <4>2 DEF Listed, jobVars
    <3> QED
      BY <3>1, <3>2
  <2> QED
    BY <2>1, <2>3 DEF SyncInv, PullInv, jobVars
<1> QED
  BY <1>1, <1>4, <1>6, <1>7, <1>8 DEF SyncInv

\* Changes in Google, and a token that Google no longer accepts.
LEMMA ElsewhereSafe ==
  ASSUME TypeOK, SyncInv, Elsewhere
  PROVE  SyncInv'
<1>1. CASE TokenExpires
  <2>1. expired' /\ UNCHANGED <<now, google, mapping, open, token, policy, jobVars>>
    BY <1>1 DEF TokenExpires
  <2>2. MappingInv' /\ CoverInv' /\ HandInv'
    BY <2>1 DEF SyncInv, MappingInv, SafeMapping, CoverInv, HandInv, google, jobVars
  <2>3. OpenInv'
    BY <2>1 DEF SyncInv, OpenInv, SafeConflict, google
  <2>4. ClockInv'
    BY <2>1 DEF SyncInv, ClockInv, google, jobVars
  <2>5. PullInv'
    <3>1. \A i : Listed(i) => Listed(i)'
      BY <2>1 DEF Listed, google, jobVars
    <3>2. Listed(cur) => Listed(cur)'
      BY <2>1 DEF Listed, google, jobVars
    <3>3. \A x \in Ids : (Mapped(x)' <=> Mapped(x)) /\ (Waiting(x)' <=> Waiting(x))
                         /\ (InHand(x)' <=> InHand(x))
      BY <2>1 DEF Mapped, Waiting, InHand, google, jobVars
    <3> QED
      BY <2>1, <3>1, <3>2, <3>3 DEF SyncInv, PullInv, google, jobVars
  <2>6. PushInv'
    BY <2>1 DEF SyncInv, PushInv, google, jobVars
  <2> QED
    BY <2>2, <2>3, <2>4, <2>5, <2>6 DEF SyncInv
<1>2. ASSUME NEW x \in Ids, GoogleEdit(x) PROVE SyncInv'
  <2>1. GoogleWrites(x, TRUE, now + 1) /\ (glive[x] \/ gver[x] = 0)
        /\ UNCHANGED <<mapping, open, calendar, jobVars>>
    BY <1>2 DEF GoogleEdit
  <2>2. TRUE \in BOOLEAN /\ now + 1 \in Nat
    BY DEF TypeOK
  <2>3. Writes(x)
    BY <2>1, <2>2, WriteFacts
  <2> QED
    BY <2>1, <2>3, GoogleUserSafe
<1>3. ASSUME NEW x \in Ids, GoogleDelete(x) PROVE SyncInv'
  <2>1. GoogleWrites(x, FALSE, gbody[x]) /\ UNCHANGED <<mapping, open, calendar, jobVars>>
    BY <1>3 DEF GoogleDelete
  <2>2. FALSE \in BOOLEAN /\ gbody[x] \in Nat
    BY DEF TypeOK
  <2>3. Writes(x)
    BY <2>1, <2>2, WriteFacts
  <2> QED
    BY <2>1, <2>3, GoogleUserSafe
<1> QED
  BY <1>1, <1>2, <1>3 DEF Elsewhere

\* A request that changes an event, at any place of the job.
LEMMA MarkingSafe ==
  ASSUME TypeOK, SyncInv, Marking
  PROVE  SyncInv'
<1>1. now' = now + 1 /\ UNCHANGED <<google, open, calendar, jobVars>>
  BY DEF Marking
<1>2. ASSUME NEW x \in Ids
      PROVE  LET m == mapping[x]
                 n == mapping'[x] IN
             /\ n.exists = m.exists /\ n.etag = m.etag /\ n.conflict = m.conflict
             /\ n.pending = m.pending
             /\ m.dirty \/ m.deleted => n.dirty \/ n.deleted
             /\ m.exists \/ n = m
  BY DEF Marking, Marked
<1>3. MappingInv'
  <2> SUFFICES ASSUME NEW x \in Ids PROVE SafeMapping(x)'
    BY DEF MappingInv
  <2>1. SafeMapping(x)
    BY DEF SyncInv, MappingInv
  <2> QED
    BY <1>1, <1>2, <2>1 DEF SafeMapping, google
<1>4. OpenInv'
  <2> SUFFICES ASSUME NEW x \in open PROVE SafeConflict(x)'
    BY <1>1 DEF OpenInv
  <2>1. x \in Ids /\ SafeConflict(x)
    BY DEF TypeOK, SyncInv, OpenInv
  <2> QED
    BY <1>1, <1>2, <2>1 DEF SafeConflict, google, calendar
<1>5. \A x \in Ids : Mapped(x) => Mapped(x)'
  <2> SUFFICES ASSUME NEW x \in Ids, Mapped(x) PROVE Mapped(x)'
    OBVIOUS
  <2> QED
    BY <1>1, <1>2 DEF Mapped, google
<1>6. CoverInv'
  BY <1>1, <1>5 DEF SyncInv, CoverInv, google, calendar
<1>7. ClockInv'
  <2>1. now \in Nat /\ token \in Nat /\ mark \in Nat /\ \A x \in Ids : gver[x] \in Nat
    BY DEF TypeOK
  <2>2. \A x \in Ids : mapping'[x].exists = mapping[x].exists
    BY <1>2
  <2> QED
    BY <1>1, <2>1, <2>2 DEF SyncInv, ClockInv, google, calendar, jobVars
<1>8. \A x \in Ids : mapping'[x].etag = mapping[x].etag /\ mapping'[x].exists = mapping[x].exists
                     /\ mapping'[x].conflict = mapping[x].conflict
  BY <1>2
<1>9. PullInv'
  <2>1. inbox \subseteq Items /\ (pc \in Applying => cur \in Items)
    BY DEF TypeOK, Holding
  <2>2. ASSUME NEW i \in Items, Listed(i) PROVE Listed(i)'
    BY <1>1, <1>8, <2>2, ItemTypes DEF Listed, google, calendar, jobVars
  <2>3. ASSUME pc \in Applying PROVE Listed(cur)'
    <3>1. PICK c \in Items : c = cur
      BY <2>1, <2>3
    <3>2. Listed(c)'
      BY <2>2, <2>3, <3>1 DEF SyncInv, PullInv
    <3> QED
      BY <1>1, <3>1, <3>2 DEF Listed, jobVars
  <2>4. \A x \in Ids : (Waiting(x)' <=> Waiting(x)) /\ (InHand(x)' <=> InHand(x))
    BY <1>1 DEF Waiting, InHand, jobVars
  <2> QED
    BY <1>1, <1>5, <1>8, <2>1, <2>2, <2>3, <2>4 DEF SyncInv, PullInv, google, jobVars
<1>10. HandInv'
  <2>1. CASE pc \in Applying
    <3>1. PICK x \in Ids : x = cur.id
      BY <2>1, ItemTypes DEF TypeOK, Holding
    <3>2. HandInv
      BY DEF SyncInv
    <3>3. /\ mapping'[x].exists = mapping[x].exists /\ mapping'[x].etag = mapping[x].etag
          /\ mapping'[x].pending = mapping[x].pending
          /\ mapping[x].dirty \/ mapping[x].deleted => mapping'[x].dirty \/ mapping'[x].deleted
      BY <1>2
    <3> QED
      BY <1>1, <3>1, <3>2, <3>3 DEF HandInv, jobVars
  <2>2. CASE pc \notin Applying
    BY <1>1, <2>2 DEF HandInv, jobVars, Applying, Pulling
  <2> QED
    BY <2>1, <2>2
<1>11. PushInv'
  <2>1. (\A i \in work : i.id \in Ids) /\ (pc = "store" => cur.id \in Ids)
    BY ItemTypes DEF TypeOK, Holding
  <2> QED
    BY <1>1, <1>8, <2>1 DEF SyncInv, PushInv, google, jobVars
<1> QED
  BY <1>3, <1>4, <1>6, <1>7, <1>9, <1>10, <1>11 DEF SyncInv

\* Between jobs the user's choice clears a conflict; if Google's version was chosen, the
\* token has not passed it, so the next list has it.
LEMMA ResolveSafe ==
  ASSUME TypeOK, SyncInv, NEW x \in Ids, NEW choice \in Choices, ResolveConflict(x, choice),
         pc = "idle"
  PROVE  SyncInv'
<1>1. /\ x \in open /\ open' = open \ {x}
      /\ UNCHANGED <<now, edits, faults, google, local, calendar, jobVars>>
  BY DEF ResolveConflict
<1> DEFINE m == mapping[x]
           n == IF choice = "google"
                THEN [m EXCEPT !.conflict = FALSE, !.dirty = FALSE, !.deleted = FALSE,
                               !.etag = 0, !.pending = choice]
                ELSE [m EXCEPT !.conflict = FALSE, !.dirty = TRUE, !.pending = choice]
<1>2. m \in Mappings /\ choice \in Resolutions
  BY CalendarAssumption DEF TypeOK
<1>3. /\ n \in Mappings /\ n.exists = m.exists /\ ~n.conflict /\ n.pending = choice
      /\ n.etag = (IF choice = "google" THEN 0 ELSE m.etag)
  <2> DEFINE g == [m EXCEPT !.conflict = FALSE, !.dirty = FALSE, !.deleted = FALSE,
                               !.etag = 0, !.pending = choice]
             k == [m EXCEPT !.conflict = FALSE, !.dirty = TRUE, !.pending = choice]
  <2> HIDE DEF m
  <2>1. /\ g \in Mappings /\ g.exists = m.exists /\ ~g.conflict /\ g.pending = choice /\ g.etag = 0
        /\ k \in Mappings /\ k.exists = m.exists /\ ~k.conflict /\ k.pending = choice
        /\ k.etag = m.etag
    <3>1. g \in Mappings /\ k \in Mappings
      BY <1>2, ResolvedFields
    <3>2. g.exists = m.exists /\ ~g.conflict /\ g.pending = choice /\ g.etag = 0
      BY <1>2 DEF Mappings
    <3>3. k.exists = m.exists /\ ~k.conflict /\ k.pending = choice /\ k.etag = m.etag
      BY <1>2 DEF Mappings
    <3> QED
      BY <3>1, <3>2, <3>3
  <2>2. n = IF choice = "google" THEN g ELSE k
    OBVIOUS
  <2> HIDE DEF g, k, n
  <2> QED
    BY <2>1, <2>2
<1>4. mapping' = [mapping EXCEPT ![x] = n]
  BY DEF ResolveConflict
<1> HIDE DEF n
<1>5. /\ mapping'[x] = n
      /\ \A y \in Ids : y # x => mapping'[y] = mapping[y]
  BY <1>3, <1>4, OneMapping
<1>6. SafeMapping(x) /\ SafeConflict(x) /\ m.etag \in Nat /\ gver[x] \in Nat /\ token \in Nat
  BY <1>1, <1>2, MappingTypes DEF SyncInv, MappingInv, OpenInv, TypeOK
<1>7. MappingInv'
  <2>1. ASSUME NEW y \in Ids, y # x PROVE SafeMapping(y)'
    BY <1>1, <1>5, <2>1 DEF SyncInv, MappingInv, SafeMapping, google
  <2>2. SafeMapping(x)'
    <3>1. m.exists /\ m.etag # 0 /\ m.etag <= gver[x]
      BY <1>6 DEF SafeMapping, SafeConflict
    <3>2. n.exists /\ n.etag <= gver[x] /\ (n.etag = 0 => n.pending = "google") /\ ~n.conflict
      BY <1>3, <1>6, <3>1
    <3> QED
      BY <1>1, <1>5, <3>2 DEF SafeMapping, google
  <2> QED
    BY <2>1, <2>2 DEF MappingInv
<1>8. OpenInv'
  BY <1>1, <1>5 DEF SyncInv, OpenInv, SafeConflict, google, calendar, TypeOK
<1>9. CoverInv'
  <2>1. ASSUME NEW y \in Ids, y # x, Mapped(y) PROVE Mapped(y)'
    BY <1>1, <1>5, <2>1 DEF Mapped, google
  <2>2. ~expired /\ glive[x] => ~(gver[x] <= token)
    BY <1>6 DEF SafeConflict
  <2> QED
    BY <1>1, <2>1, <2>2 DEF SyncInv, CoverInv, google, calendar
<1>10. ClockInv'
  <2>1. \A y \in Ids : mapping'[y].exists = mapping[y].exists
    BY <1>3, <1>5
  <2> QED
    BY <1>1, <2>1 DEF SyncInv, ClockInv, google, calendar, jobVars
<1>11. PullInv' /\ HandInv' /\ PushInv'
  BY <1>1 DEF PullInv, HandInv, PushInv, Pulling, Applying, jobVars
<1> QED
  BY <1>7, <1>8, <1>9, <1>10, <1>11 DEF SyncInv

\* A statement of the push that writes the mapping of the row in hand.
LEMMA PushWritesMapping ==
  ASSUME TypeOK, SyncInv, pc \in Pushing, pc' \in {"post", "push"}, NEW x \in Ids, x = cur.id,
         NEW n \in Mappings, mapping' = [mapping EXCEPT ![x] = n],
         UNCHANGED <<Rest, local, calendar, inbox, mark, work>>, cur' = NoItem,
         open' \subseteq open, open \subseteq open' \cup {x},
         n.exists \/ n = NoMapping, n.etag <= gver[x], n.exists => n.etag # 0 \/ n.pending = "google",
         n.conflict => x \in open', n.exists => gver[x] # 0,
         x \notin open',
         glive[x] /\ gver[x] <= token => n.exists /\ n.etag = gver[x],
         pc' = "push" => pc \in {"forget", "store"}
  PROVE  TypeOK' /\ SyncInv'
<1>1. /\ mapping' \in [Ids -> Mappings] /\ mapping'[x] = n
      /\ \A y \in Ids : y # x => mapping'[y] = mapping[y]
  BY OneMapping
<1>2. TypeOK'
  BY <1>1 DEF TypeOK, Rest, google, local, calendar, Holding, Applying, Pulling, Pushing
<1>3. MappingInv'
  <2>1. ASSUME NEW y \in Ids, y # x PROVE SafeMapping(y)'
    <3>1. SafeMapping(y) /\ mapping'[y] = mapping[y] /\ (y \in open => y \in open')
      BY <1>1, <2>1 DEF SyncInv, MappingInv
    <3> QED
      BY <3>1 DEF SafeMapping, Rest, google
  <2>2. SafeMapping(x)'
    BY <1>1 DEF SafeMapping, Rest, google
  <2> QED
    BY <2>1, <2>2 DEF MappingInv
<1>4. OpenInv'
  <2> SUFFICES ASSUME NEW y \in open' PROVE SafeConflict(y)'
    BY DEF OpenInv
  <2>1. y \in Ids /\ y # x /\ SafeConflict(y)
    BY DEF TypeOK, SyncInv, OpenInv
  <2> QED
    BY <1>1, <2>1 DEF SafeConflict, Rest, google, calendar
<1>5. CoverInv'
  <2>1. ASSUME NEW y \in Ids, y # x, Mapped(y) PROVE Mapped(y)'
    BY <1>1, <2>1 DEF Mapped, Rest, google
  <2>2. glive[x] /\ gver[x] <= token => Mapped(x)'
    BY <1>1 DEF Mapped, Rest, google
  <2> QED
    BY <2>1, <2>2 DEF SyncInv, CoverInv, Rest, google, calendar
<1>6. ClockInv'
  <2>1. \A y \in Ids : mapping'[y].exists => gver[y] # 0
    BY <1>1 DEF SyncInv, ClockInv
  <2> QED
    BY <2>1 DEF SyncInv, ClockInv, Rest, google, calendar, Pulling, Pushing
<1>7. PullInv' /\ HandInv'
  BY DEF PullInv, HandInv, Pulling, Applying
<1>8. PushInv'
  <2>1. CASE pc' = "post"
    BY <2>1 DEF PushInv
  <2>2. CASE pc' = "push"
    <3>1. ASSUME NEW i \in work
          PROVE  /\ mapping'[i.id].exists
                 /\ i.id \in open' /\ glive[i.id] => i.ver # 0 /\ i.ver < gver[i.id]
      <4>1. i.id \in Ids /\ i.id # x
        BY <2>2, ItemTypes DEF TypeOK, SyncInv, PushInv
      <4> QED
        BY <1>1, <2>2, <4>1 DEF SyncInv, PushInv
    <3>2. \A i, j \in work : i.id = j.id => i = j
      BY <2>2 DEF SyncInv, PushInv
    <3> QED
      BY <2>2, <3>1, <3>2 DEF PushInv, Rest, google
  <2> QED
    BY <2>1, <2>2
<1> QED
  BY <1>2, <1>3, <1>4, <1>5, <1>6, <1>7, <1>8 DEF SyncInv

\* The mapping of a row that was created in Google.
LEMMA InsertMappingSafe ==
  ASSUME TypeOK, SyncInv, InsertMapping
  PROVE  TypeOK' /\ SyncInv'
<1>1. PICK x \in Ids : x = cur.id
  BY ItemTypes DEF TypeOK, InsertMapping, Holding
<1> DEFINE n == NewMapping(cur.event, cur.ver)
<1>2. /\ pc = "insert" /\ pc' = "post" /\ cur' = NoItem /\ ~mapping[x].exists
      /\ mapping' = [mapping EXCEPT ![x] = n]
      /\ UNCHANGED <<Rest, local, open, calendar, inbox, mark, work>>
  BY <1>1 DEF InsertMapping, Goto, Insertable
<1>3. cur.ver \in Nat /\ cur.event \in Events \cup {NoEvent} /\ gver[x] \in Nat
      /\ mark \in Nat /\ token \in Nat
  BY ItemTypes DEF TypeOK
<1>4. n \in Mappings /\ n.exists /\ n.etag = cur.ver /\ ~n.conflict
  BY <1>3, NewMappingFields
<1> HIDE DEF n
<1>5. /\ cur.ver # 0 /\ cur.ver <= gver[x] /\ (cur.ver = gver[x] \/ mark < gver[x])
      /\ token <= mark
  BY <1>1, <1>2 DEF SyncInv, PushInv, ClockInv, Pushing
<1>6. x \notin open
  BY <1>2 DEF SyncInv, OpenInv, SafeConflict
<1>7. pc \in Pushing
  BY <1>2 DEF Pushing
<1>8. gver[x] # 0 /\ (gver[x] <= token => cur.ver = gver[x])
  BY <1>3, <1>5
<1> QED
  BY <1>1, <1>2, <1>4, <1>5, <1>6, <1>7, <1>8, PushWritesMapping

\* The mapping of an event that the push has deleted in Google.
LEMMA ForgetMappingSafe ==
  ASSUME TypeOK, SyncInv, ForgetMapping
  PROVE  TypeOK' /\ SyncInv'
<1>1. PICK x \in Ids : x = cur.id
  BY ItemTypes DEF TypeOK, ForgetMapping, Holding
<1>2. /\ pc = "forget" /\ pc' = "push" /\ cur' = NoItem /\ open' = open \ {x}
      /\ mapping' = [mapping EXCEPT ![x] = NoMapping]
      /\ UNCHANGED <<Rest, local, calendar, inbox, mark, work>>
  BY <1>1 DEF ForgetMapping, Goto
<1>3. ~glive[x] /\ gver[x] \in Nat /\ pc \in Pushing
  BY <1>1, <1>2 DEF SyncInv, PushInv, TypeOK, Pushing
<1>4. 0 <= gver[x]
  BY <1>3
<1> QED
  BY <1>1, <1>2, <1>3, <1>4, NoMappingFields, PushWritesMapping

\* The mapping of an event that the push has written: its version is newer than the token.
LEMMA StorePushedSafe ==
  ASSUME TypeOK, SyncInv, StorePushed
  PROVE  TypeOK' /\ SyncInv'
<1>1. PICK x \in Ids : x = cur.id
  BY ItemTypes DEF TypeOK, StorePushed, Holding
<1> DEFINE n == [mapping[x] EXCEPT !.etag = cur.ver, !.dirty = FALSE]
<1>2. /\ pc = "store" /\ pc' = "push" /\ cur' = NoItem
      /\ UNCHANGED <<Rest, local, open, calendar, inbox, mark, work>>
  BY DEF StorePushed, Goto
<1>3. mapping' = [mapping EXCEPT ![x] = n]
  BY <1>1 DEF StorePushed
<1>4. cur.ver \in Nat /\ mapping[x] \in Mappings /\ gver[x] \in Nat /\ mark \in Nat /\ token \in Nat
  BY ItemTypes DEF TypeOK
<1>5. n \in Mappings /\ n.exists = mapping[x].exists /\ n.etag = cur.ver
      /\ n.conflict = mapping[x].conflict
  BY <1>4, StoredFields
<1> HIDE DEF n
<1>6. /\ cur.ver # 0 /\ cur.ver <= gver[x] /\ mark < gver[x] /\ token <= mark
      /\ mapping[x].exists /\ x \notin open
  BY <1>1, <1>2 DEF SyncInv, PushInv, ClockInv, Pushing
<1>7. SafeMapping(x)
  BY DEF SyncInv, MappingInv
<1>8. ~n.conflict /\ n.exists
  BY <1>5, <1>6, <1>7 DEF SafeMapping
<1>9. gver[x] # 0 /\ ~(gver[x] <= token)
  BY <1>4, <1>6
<1>10. pc \in Pushing
  BY <1>2 DEF Pushing
<1> QED
  BY <1>1, <1>2, <1>3, <1>5, <1>6, <1>8, <1>9, <1>10, PushWritesMapping

\* Rows without a mapping are selected.
LEMMA SelectUnmappedSafe ==
  ASSUME TypeOK, SyncInv, SelectUnmapped
  PROVE  TypeOK' /\ SyncInv'
<1> DEFINE row(e) == [NoItem EXCEPT !.id = e, !.event = e, !.body = body[e]]
<1>1. /\ pc = "unmapped" /\ pc' = "post"
      /\ work' = {row(e) : e \in {d \in home : MappingOf(d) = {}}}
      /\ UNCHANGED <<Rest, local, mapping, open, calendar, inbox, cur, mark>>
  BY DEF SelectUnmapped, Goto
<1>2. \A e \in home : row(e) \in Items
  BY UnmappedFields
<1> HIDE DEF row
<1>3. work' \subseteq Items
  BY <1>1, <1>2
<1>4. TypeOK'
  BY <1>1, <1>3 DEF TypeOK, Rest, google, local, calendar, Holding, Applying, Pulling, Pushing
<1>5. MappingInv' /\ OpenInv' /\ CoverInv'
  BY <1>1, DataFrame DEF Rest
<1>6. ClockInv'
  BY <1>1 DEF SyncInv, ClockInv, Rest, google, calendar, Pulling, Pushing
<1>7. PullInv' /\ HandInv' /\ PushInv'
  BY <1>1 DEF PullInv, HandInv, PushInv, Pulling, Applying
<1> QED
  BY <1>4, <1>5, <1>6, <1>7 DEF SyncInv

\* Marked mappings without a conflict are selected; one with an open conflict whose row
\* does not show it yet has an older version than Google.
LEMMA SelectDirtySafe ==
  ASSUME TypeOK, SyncInv, SelectDirty
  PROVE  TypeOK' /\ SyncInv'
<1> DEFINE row(x) == [NoItem EXCEPT !.id = x, !.map = mapping[x], !.ver = mapping[x].etag,
                    !.event = IF mapping[x].deleted THEN NoEvent ELSE mapping[x].event,
                    !.body = IF mapping[x].event = NoEvent THEN 0 ELSE body[mapping[x].event]]
<1>1. /\ pc = "post" /\ pc' = "push"
      /\ work' = {row(x) : x \in {y \in Ids : Pushable(y)}}
      /\ UNCHANGED <<Rest, local, mapping, open, calendar, inbox, cur, mark>>
  BY DEF SelectDirty, Goto
<1>2. \A x \in Ids : row(x) \in Items /\ row(x).id = x /\ row(x).ver = mapping[x].etag
  BY DirtyFields
<1> HIDE DEF row
<1>3. work' \subseteq Items
  BY <1>1, <1>2
<1>4. TypeOK'
  BY <1>1, <1>3 DEF TypeOK, Rest, google, local, calendar, Holding, Applying, Pulling, Pushing
<1>5. MappingInv' /\ OpenInv' /\ CoverInv'
  BY <1>1, DataFrame DEF Rest
<1>6. ClockInv'
  BY <1>1 DEF SyncInv, ClockInv, Rest, google, calendar, Pulling, Pushing
<1>7. PullInv' /\ HandInv'
  BY <1>1 DEF PullInv, HandInv, Pulling, Applying
<1>8. ASSUME NEW i \in work'
      PROVE  /\ mapping[i.id].exists
             /\ i.id \in open /\ glive[i.id] => i.ver # 0 /\ i.ver < gver[i.id]
  <2>1. PICK x \in Ids : Pushable(x) /\ i = row(x)
    BY <1>1, <1>8
  <2>2. i.id = x /\ i.ver = mapping[x].etag /\ mapping[x].exists
    BY <1>2, <2>1 DEF Pushable
  <2>3. x \in open => SafeConflict(x) /\ SafeMapping(x)
    BY DEF SyncInv, OpenInv, MappingInv
  <2> QED
    BY <2>2, <2>3 DEF SafeConflict, SafeMapping
<1>9. \A i, j \in work' : i.id = j.id => i = j
  BY <1>1, <1>2
<1>10. PushInv'
  BY <1>1, <1>8, <1>9 DEF PushInv, Rest, google
<1> QED
  BY <1>4, <1>5, <1>6, <1>7, <1>10 DEF SyncInv

\* What a write in Google does to the clock, with the job in its push.
LEMMA PushClock ==
  ASSUME TypeOK, SyncInv, pc \in Pushing, pc' \in Pushing, NEW x \in Ids, Writes(x),
         UNCHANGED <<mapping, calendar, mark>>
  PROVE  ClockInv' /\ mark < gver'[x] /\ gver'[x] # 0
<1>1. /\ \A y \in Ids : /\ gver[y] \in Nat /\ gver[y] <= now
                        /\ glive[y] \/ mapping[y].exists => gver[y] # 0
      /\ now \in Nat /\ token \in Nat /\ mark \in Nat /\ token <= now /\ mark <= now
      /\ token <= mark
  BY DEF TypeOK, SyncInv, ClockInv
<1>2. ASSUME NEW y \in Ids
      PROVE  gver'[y] <= now' /\ (glive'[y] \/ mapping'[y].exists => gver'[y] # 0)
  <2>1. CASE y = x
    BY <1>1, <2>1 DEF Writes
  <2>2. CASE y # x
    BY <1>1, <2>2 DEF Writes
  <2> QED
    BY <2>1, <2>2
<1>3. token <= now' /\ mark <= now' /\ token <= mark /\ mark < gver'[x] /\ gver'[x] # 0
  BY <1>1 DEF Writes
<1> QED
  BY <1>2, <1>3 DEF ClockInv, calendar, Pulling, Pushing

\* The rows that a write leaves to be pushed are as safe to push as before.
LEMMA RestOfWork ==
  ASSUME TypeOK, SyncInv, pc = "push", NEW x \in Ids, Writes(x), UNCHANGED <<mapping, open>>,
         NEW i \in work
  PROVE  /\ i.id \in Ids /\ mapping'[i.id].exists
         /\ i.id \in open' /\ glive'[i.id] => i.ver # 0 /\ i.ver < gver'[i.id]
<1>1. PICK y \in Ids : y = i.id
  BY ItemTypes DEF TypeOK
<1>2. i.ver \in Nat /\ gver[y] \in Nat /\ gver[y] <= now /\ now \in Nat
  BY ItemTypes DEF TypeOK, SyncInv, ClockInv
<1>3. /\ mapping[y].exists /\ gver[y] # 0
      /\ y \in open /\ glive[y] => i.ver # 0 /\ i.ver < gver[y]
  BY <1>1 DEF SyncInv, PushInv, ClockInv
<1>4. CASE y = x
  BY <1>1, <1>2, <1>3, <1>4 DEF Writes
<1>5. CASE y # x
  BY <1>1, <1>2, <1>3, <1>5 DEF Writes
<1> QED
  BY <1>4, <1>5

\* A POST makes the event, or finds that Google has it already.
LEMMA PostEventSafe ==
  ASSUME TypeOK, SyncInv, NEW item \in work, PostEvent(item)
  PROVE  TypeOK' /\ SyncInv'
<1>1. PICK x \in Ids : x = item.id
  BY ItemTypes DEF TypeOK
<1>2. /\ pc = "post" /\ pc' = "insert" /\ work' = work \ {item}
      /\ cur' = [item EXCEPT !.ver = gver'[x]]
      /\ UNCHANGED <<edits, faults, local, mapping, open, calendar, inbox, mark>>
  BY <1>1 DEF PostEvent, Goto
<1>3. pc \in Pushing /\ pc' \in Pushing
  BY <1>2 DEF Pushing
<1>4. item \in Items /\ item.body \in Nat
  BY ItemTypes DEF TypeOK
<1>5. /\ gver' \in [Ids -> Nat] /\ glive' \in [Ids -> BOOLEAN] /\ gbody' \in [Ids -> Nat]
      /\ now' \in Nat \ {0}
      /\ MappingInv' /\ OpenInv' /\ CoverInv' /\ ClockInv' /\ gver'[x] # 0
  <2>1. CASE gver[x] = 0
    <3>1. GoogleWrites(x, TRUE, item.body)
      BY <1>1, <2>1 DEF PostEvent
    <3>2. TRUE \in BOOLEAN
      OBVIOUS
    <3>3. Writes(x)
      BY <1>4, <2>1, <3>1, <3>2, WriteFacts
    <3>4. now' \in Nat \ {0}
      BY <1>4, <3>1, <3>2, WriteTypes
    <3> QED
      BY <1>2, <1>3, <3>3, <3>4, WriteData, PushClock DEF Writes
  <2>2. CASE gver[x] # 0
    <3>1. UNCHANGED <<now, google>>
      BY <1>1, <2>2 DEF PostEvent
    <3>2. MappingInv' /\ OpenInv' /\ CoverInv'
      BY <1>2, <3>1, DataFrame
    <3>3. ClockInv'
      BY <1>2, <3>1 DEF SyncInv, ClockInv, google, calendar, Pulling, Pushing
    <3> QED
      BY <2>2, <3>1, <3>2, <3>3 DEF google, TypeOK
  <2> QED
    BY <2>1, <2>2
<1>6. cur' \in Items /\ cur'.id = x /\ cur'.ver = gver'[x]
  BY <1>1, <1>2, <1>4, <1>5, AnsweredFields
<1>7. TypeOK'
  BY <1>2, <1>3, <1>5, <1>6 DEF TypeOK, local, calendar
<1>8. PullInv' /\ HandInv'
  BY <1>2 DEF PullInv, HandInv, Pulling, Applying
<1>9. PushInv'
  BY <1>2, <1>5, <1>6 DEF PushInv
<1> QED
  BY <1>5, <1>7, <1>8, <1>9 DEF SyncInv

\* Google takes the deletion of an event only at the version that was recorded.
LEMMA PushDeleteSafe ==
  ASSUME TypeOK, SyncInv, NEW item \in work, PushDelete(item)
  PROVE  TypeOK' /\ SyncInv' /\ item.id \notin open
<1>1. PICK x \in Ids : x = item.id
  BY ItemTypes DEF TypeOK
<1>2. /\ pc = "push" /\ pc' = "forget" /\ work' = work \ {item} /\ cur' = item
      /\ UNCHANGED <<edits, faults, local, mapping, open, calendar, inbox, mark>>
      /\ Accepts(item) /\ GoogleWrites(x, FALSE, gbody[x])
  BY <1>1 DEF PushDelete, Goto
<1>3. pc \in Pushing /\ pc' \in Pushing /\ item \in Items
  BY <1>2 DEF Pushing, TypeOK
<1>4. FALSE \in BOOLEAN /\ gbody[x] \in Nat
  BY DEF TypeOK
<1>5. Writes(x) /\ now' \in Nat \ {0}
  BY <1>2, <1>4, WriteFacts, WriteTypes
<1>6. ~glive'[x]
  BY <1>2 DEF GoogleWrites, TypeOK
<1>7. TypeOK'
  BY <1>2, <1>3, <1>5 DEF TypeOK, local, calendar, Writes
<1>8. MappingInv' /\ OpenInv' /\ CoverInv' /\ ClockInv' /\ gver'[x] # 0
  BY <1>2, <1>3, <1>5, WriteData, PushClock
<1>9. PullInv' /\ HandInv'
  BY <1>2 DEF PullInv, HandInv, Pulling, Applying
<1>10. \A i, j \in work : i.id = j.id => i = j
  BY <1>2 DEF SyncInv, PushInv
<1>11. \A i \in work : /\ mapping'[i.id].exists
                       /\ i.id \in open' /\ glive'[i.id] => i.ver # 0 /\ i.ver < gver'[i.id]
  BY <1>2, <1>5, RestOfWork
<1>12. PushInv'
  BY <1>1, <1>2, <1>6, <1>8, <1>10, <1>11 DEF PushInv
<1>13. x \notin open
  <2>1. x \in open /\ glive[x] => item.ver # 0 /\ item.ver < gver[x]
    BY <1>1, <1>2 DEF SyncInv, PushInv
  <2>2. gver[x] \in Nat
    BY DEF TypeOK
  <2> QED
    BY <1>1, <1>2, <2>1, <2>2 DEF Accepts
<1> QED
  BY <1>1, <1>7, <1>8, <1>9, <1>12, <1>13 DEF SyncInv

\* The same for the update of an event.
LEMMA PushUpdateSafe ==
  ASSUME TypeOK, SyncInv, NEW item \in work, PushUpdate(item)
  PROVE  TypeOK' /\ SyncInv' /\ item.id \notin open
<1>1. PICK x \in Ids : x = item.id
  BY ItemTypes DEF TypeOK
<1>2. /\ pc = "push" /\ pc' = "store" /\ work' = work \ {item} /\ cur' = [item EXCEPT !.ver = now']
      /\ UNCHANGED <<edits, faults, local, mapping, open, calendar, inbox, mark>>
      /\ Accepts(item) /\ GoogleWrites(x, TRUE, item.body)
  BY <1>1 DEF PushUpdate, Goto
<1>3. pc \in Pushing /\ pc' \in Pushing /\ item \in Items /\ item.body \in Nat
  BY <1>2, ItemTypes DEF Pushing, TypeOK
<1>4. TRUE \in BOOLEAN /\ glive[x]
  BY <1>1, <1>2 DEF Accepts
<1>5. Writes(x) /\ now' \in Nat \ {0}
  BY <1>2, <1>3, <1>4, WriteFacts, WriteTypes
<1>6. cur' \in Items /\ cur'.id = x /\ cur'.ver = now'
  BY <1>1, <1>2, <1>3, <1>5, AnsweredFields
<1>7. TypeOK'
  BY <1>2, <1>3, <1>5, <1>6 DEF TypeOK, local, calendar, Writes
<1>8. MappingInv' /\ OpenInv' /\ CoverInv' /\ ClockInv' /\ gver'[x] # 0 /\ mark < gver'[x]
  BY <1>2, <1>3, <1>5, WriteData, PushClock
<1>9. PullInv' /\ HandInv'
  BY <1>2 DEF PullInv, HandInv, Pulling, Applying
<1>10. \A i, j \in work : i.id = j.id => i = j
  BY <1>2 DEF SyncInv, PushInv
<1>11. \A i \in work : /\ mapping'[i.id].exists
                       /\ i.id \in open' /\ glive'[i.id] => i.ver # 0 /\ i.ver < gver'[i.id]
  BY <1>2, <1>5, RestOfWork
<1>12. x \notin open
  <2>1. x \in open /\ glive[x] => item.ver # 0 /\ item.ver < gver[x]
    BY <1>1, <1>2 DEF SyncInv, PushInv
  <2>2. gver[x] \in Nat
    BY DEF TypeOK
  <2> QED
    BY <1>1, <1>2, <2>1, <2>2 DEF Accepts
<1>13. cur'.ver # 0 /\ cur'.ver <= gver'[x]
  BY <1>5, <1>6 DEF Writes
<1>14. PushInv'
  BY <1>1, <1>2, <1>6, <1>8, <1>10, <1>11, <1>12, <1>13 DEF PushInv
<1> QED
  BY <1>1, <1>7, <1>8, <1>9, <1>12, <1>14 DEF SyncInv

-----------------------------------------------------------------------------
(* The theorems about the token and about conflicts.                       *)

\* Nothing is synchronized at the start.
LEMMA InitSafe == Init => SyncInv
<1> SUFFICES ASSUME Init PROVE SyncInv
  OBVIOUS
<1>1. /\ now = 1 /\ token = 0 /\ mark = 0 /\ pc = "idle" /\ open = {}
      /\ \A x \in Ids : gver[x] = 0 /\ glive[x] = FALSE /\ mapping[x] = NoMapping
  BY DEF Init
<1>2. ClockInv /\ MappingInv
  BY <1>1, NoMappingFields DEF ClockInv, MappingInv, SafeMapping, Pulling, Pushing
<1>3. OpenInv /\ CoverInv
  BY <1>1 DEF OpenInv, CoverInv
<1>4. PullInv /\ HandInv /\ PushInv
  BY <1>1 DEF PullInv, HandInv, PushInv, Pulling, Applying
<1> QED
  BY <1>2, <1>3, <1>4 DEF SyncInv

\* Every step of the job preserves the invariant.
LEMMA JobSafe ==
  ASSUME TypeOK, SyncInv, Job
  PROVE  TypeOK' /\ SyncInv'
<1>1. CASE StartSync \/ PullFully \/ ListChanges \/ \E item \in inbox : ReadMapping(item)
  BY <1>1, ListingTypes, StartSafe, ListSafe, ReadSafe
<1>2. CASE SkipChange \/ OpenConflict \/ MarkConflict \/ KeepLocal
  BY <1>2, SkipSafe, OpenConflictSafe, MarkConflictSafe, KeepLocalSafe
<1>3. CASE ApplyDeletion \/ Unmap \/ UpdateCanonical \/ (\E e \in Events : InsertCanonical(e))
  BY <1>3, ApplyDeletionSafe, UnmapSafe, UpdateCanonicalSafe, InsertCanonicalSafe
<1>4. CASE Relink \/ Baseline \/ Link \/ FinishPull
  BY <1>4, RelinkSafe, BaselineSafe, LinkSafe, FinishPullSafe
<1>5. CASE SelectUnmapped \/ (\E item \in work : PostEvent(item)) \/ InsertMapping \/ SelectDirty
  BY <1>5, SelectUnmappedSafe, PostEventSafe, InsertMappingSafe, SelectDirtySafe
<1>6. CASE (\E item \in work : PushDelete(item) \/ PushUpdate(item)) \/ ForgetMapping \/ StorePushed
  BY <1>6, PushDeleteSafe, PushUpdateSafe, ForgetMappingSafe, StorePushedSafe
<1>7. CASE EndSync \/ FailSync
  BY <1>7, QuitSafe
<1> QED
  BY <1>1, <1>2, <1>3, <1>4, <1>5, <1>6, <1>7 DEF Job

\* So does every other step, if conflicts are resolved between jobs.
LEMMA NextSafe ==
  ASSUME "resolve" \notin BusyOperations, TypeOK, SyncInv, [Next]_vars
  PROVE  TypeOK' /\ SyncInv'
<1>1. CASE Job \/ Fault
  BY <1>1, JobSafe, QuitSafe
<1>2. CASE Elsewhere
  BY <1>2, OthersTypes, ElsewhereSafe
<1>3. CASE User
  <2>1. ASSUME NEW e \in Events, EventRequest(e) PROVE TypeOK' /\ SyncInv'
    BY <2>1, RequestsMark, MarkingSafe
  <2>2. ASSUME NEW x \in Ids, NEW choice \in Choices, ResolveConflict(x, choice)
        PROVE  TypeOK' /\ SyncInv'
    <3>1. pc = "idle"
      BY <2>2 DEF ResolveConflict
    <3> QED
      BY <2>2, <3>1, OthersTypes, ResolveSafe
  <2> QED
    BY <1>3, <2>1, <2>2 DEF User, EventRequest
<1>4. CASE UNCHANGED vars
  <2>1. /\ UNCHANGED <<now, edits, faults, google, local, mapping, open, calendar, jobVars>>
        /\ UNCHANGED <<gver, glive, gbody, body, updated, home, token, expired, policy,
                       pc, inbox, cur, mark, work>>
    BY <1>4 DEF vars, google, local, calendar, jobVars
  <2>2. TypeOK'
    BY <2>1 DEF TypeOK
  <2>3. MappingInv' /\ OpenInv' /\ CoverInv'
    BY <2>1, DataFrame
  <2>4. ClockInv' /\ HandInv'
    BY <2>1 DEF SyncInv, ClockInv, HandInv
  <2>5. PullInv'
    BY <2>1 DEF SyncInv, PullInv, Listed, Mapped, Waiting, InHand
  <2>6. PushInv'
    BY <2>1 DEF SyncInv, PushInv
  <2> QED
    BY <2>2, <2>3, <2>4, <2>5, <2>6 DEF SyncInv
<1> QED
  BY <1>1, <1>2, <1>3, <1>4 DEF Next

\* The inductive invariant, for a user who resolves conflicts between jobs.
THEOREM SyncInvariant ==
  ASSUME "resolve" \notin BusyOperations
  PROVE  Spec => [](TypeOK /\ SyncInv)
<1>1. Init => TypeOK /\ SyncInv
  BY InitTypes, InitSafe
<1>2. TypeOK /\ SyncInv /\ [Next]_vars => (TypeOK /\ SyncInv)'
  BY NextSafe
<1> QED
  BY <1>1, <1>2, PTL DEF Spec

\* Between jobs the stored sync token has passed no change of a living event that is neither
\* applied nor about to be pushed: whatever is edited, cut short or expired meanwhile,
\* an event that Google will not list again is mapped at its current version or marked.
THEOREM TokenNeverPassesAChange ==
  ASSUME "resolve" \notin BusyOperations
  PROVE  Spec => []TokenCoversOnlyApplied
<1>1. TypeOK /\ SyncInv => TokenCoversOnlyApplied
  BY DEF SyncInv, CoverInv, Mapped, TokenCoversOnlyApplied
<1> QED
  BY <1>1, SyncInvariant, PTL

\* Between jobs a mapping that push_calendar and the token wait for has an open conflict row:
\* create_conflict writes the row first, and what forgets the mapping forgets the row.
THEOREM ConflictsAreVisible ==
  ASSUME "resolve" \notin BusyOperations
  PROVE  Spec => []UnresolvedIsVisible
<1>1. SyncInv => UnresolvedIsVisible
  BY DEF SyncInv, MappingInv, SafeMapping, UnresolvedIsVisible
<1> QED
  BY <1>1, SyncInvariant, PTL

-----------------------------------------------------------------------------
(* An event has one mapping.                                               *)

\* A step that links no mapping, imports nothing and takes nothing new in hand.
LEMMA LinkFrame ==
  ASSUME TypeOK, LinkInv,
         \A y \in Ids : mapping'[y].event = mapping[y].event \/ mapping'[y].event = NoEvent,
         \A e \in Events : updated[e] # 0 => updated'[e] # 0,
         \A e \in Events : body'[e] # 0 => body[e] # 0 \/ updated'[e] # 0,
         pc' \notin {"apply", "relink", "link"} \/ UNCHANGED <<pc, cur>>
  PROVE  LinkInv'
<1>1. \A y \in Ids : mapping[y].event \in Events \cup {NoEvent}
  BY MappingTypes DEF TypeOK
<1>2. cur.event \in Events \cup {NoEvent}
  BY ItemTypes DEF TypeOK
<1>3. \A e \in Events : body'[e] # 0 => updated'[e] # 0
  BY DEF LinkInv
<1>4. ASSUME NEW x \in Ids, mapping'[x].event # NoEvent
      PROVE  /\ updated'[mapping'[x].event] # 0
             /\ \A y \in Ids : mapping'[y].event = mapping'[x].event => x = y
  BY <1>1, <1>4 DEF LinkInv
<1>5. ASSUME UNCHANGED <<pc, cur>>, pc = "apply"
      PROVE  /\ cur.event = cur.map.event
             /\ cur.event # NoEvent =>
                  /\ updated'[cur.event] # 0
                  /\ \A x \in Ids : mapping'[x].event = cur.event => x = cur.id
  BY <1>2, <1>5 DEF LinkInv
<1>6. ASSUME UNCHANGED <<pc, cur>>, pc \in {"relink", "link"}
      PROVE  /\ cur.event # NoEvent /\ updated'[cur.event] # 0
             /\ \A x \in Ids : mapping'[x].event # cur.event
  BY <1>2, <1>6 DEF LinkInv
<1>7. CASE pc' \notin {"apply", "relink", "link"}
  BY <1>3, <1>4, <1>7 DEF LinkInv
<1>8. CASE UNCHANGED <<pc, cur>>
  BY <1>3, <1>4, <1>5, <1>6, <1>8 DEF LinkInv
<1> QED
  BY <1>7, <1>8

\* A statement that links the mapping x to an event that has none.
LEMMA LinkOne ==
  ASSUME TypeOK, LinkInv, NEW x \in Ids, NEW e \in Events, updated[e] # 0,
         \A y \in Ids : mapping[y].event # e,
         mapping'[x].event = e, \A y \in Ids : y # x => mapping'[y] = mapping[y],
         UNCHANGED local, pc' \notin {"apply", "relink", "link"}
  PROVE  LinkInv'
<1>1. ASSUME NEW z \in Ids, mapping'[z].event # NoEvent
      PROVE  /\ updated[mapping'[z].event] # 0
             /\ \A y \in Ids : mapping'[y].event = mapping'[z].event => z = y
  <2>1. CASE z = x
    BY <2>1
  <2>2. CASE z # x
    BY <1>1, <2>2 DEF LinkInv
  <2> QED
    BY <2>1, <2>2
<1> QED
  BY <1>1 DEF LinkInv, local

\* Where a mapping may be inserted, no other has its event.
LEMMA InsertableIsFree ==
  ASSUME TypeOK, SyncInv, LinkInv, NEW x \in Ids, NEW e \in Events \cup {NoEvent},
         Insertable(x, e), e # NoEvent
  PROVE  e \in Events /\ updated[e] # 0 /\ \A y \in Ids : mapping[y].event # e
<1>1. e \in Events /\ body[e] # 0 /\ MappingOf(e) = {}
  BY DEF Insertable
<1>2. ASSUME NEW y \in Ids, mapping[y].event = e PROVE FALSE
  <2>1. ~mapping[y].exists
    BY <1>1, <1>2 DEF MappingOf
  <2>2. mapping[y] = NoMapping
    BY <2>1 DEF SyncInv, MappingInv, SafeMapping
  <2> QED
    BY <1>2, <2>2, NoMappingFields
<1> QED
  BY <1>1, <1>2 DEF LinkInv

\* What each step of the job does to events and mappings.
LEMMA JobLinks ==
  ASSUME TypeOK, SyncInv, LinkInv, Job, TypeOK'
  PROVE  LinkInv'
<1>1. ASSUME UNCHANGED <<local, mapping>>, pc' \notin {"apply", "relink", "link"}
      PROVE  LinkInv'
  BY <1>1, LinkFrame DEF local
<1>2. ASSUME NEW n \in Mappings, NEW x \in Ids, mapping' = [mapping EXCEPT ![x] = n],
             n.event = mapping[x].event \/ n.event = NoEvent, UNCHANGED local,
             pc' \notin {"apply", "relink", "link"}
      PROVE  LinkInv'
  <2>1. mapping'[x] = n /\ \A y \in Ids : y # x => mapping'[y] = mapping[y]
    BY <1>2, OneMapping
  <2>2. \A y \in Ids : mapping'[y].event = mapping[y].event \/ mapping'[y].event = NoEvent
    BY <1>2, <2>1
  <2> QED
    BY <1>2, <2>2, LinkFrame DEF local
<1>3. NoMapping \in Mappings /\ NoMapping.event = NoEvent
  BY NoMappingFields
<1>4. pc \in Holding => cur.id \in Ids /\ mapping[cur.id] \in Mappings
  BY ItemTypes DEF TypeOK
<1>5. CASE StartSync \/ PullFully \/ ListChanges \/ SkipChange \/ OpenConflict \/ FinishPull
  <2>1. UNCHANGED <<local, mapping>> /\ pc' \notin {"apply", "relink", "link"}
    BY <1>5 DEF StartSync, PullFully, ListChanges, SkipChange, OpenConflict, FinishPull, Goto, NextItem
  <2> QED
    BY <1>1, <2>1
<1>6. CASE SelectUnmapped \/ (\E item \in work : PostEvent(item)) \/ SelectDirty
           \/ (\E item \in work : PushDelete(item) \/ PushUpdate(item)) \/ EndSync \/ FailSync
  <2>1. UNCHANGED <<local, mapping>> /\ pc' \notin {"apply", "relink", "link"}
    BY <1>6 DEF SelectUnmapped, PostEvent, SelectDirty, PushDelete, PushUpdate, EndSync, FailSync, Goto, Quit
  <2> QED
    BY <1>1, <2>1
<1>7. ASSUME NEW item \in inbox, ReadMapping(item) PROVE LinkInv'
  <2>1. PICK x \in Ids : x = item.id
    BY ItemTypes DEF TypeOK
  <2> DEFINE m == mapping[x]
             at == IF m.event = NoEvent THEN 0 ELSE updated[m.event]
             c == [item EXCEPT !.map = m, !.event = m.event, !.at = at]
  <2>2. cur' = c /\ pc' = "apply" /\ UNCHANGED <<local, mapping>>
    BY <1>7, <2>1 DEF ReadMapping, Goto
  <2>3. item \in Items /\ m.event \in Events \cup {NoEvent}
    BY MappingTypes DEF TypeOK
  <2> HIDE DEF m, at
  <2>4. c.id = item.id /\ c.map = m /\ c.event = m.event
    BY <2>3 DEF Items
  <2>5. cur'.id = x /\ cur'.map = mapping[x] /\ cur'.event = mapping[x].event
    BY <2>1, <2>2, <2>4 DEF m
  <2> QED
    BY <2>2, <2>5 DEF LinkInv, local
<1>8. CASE MarkConflict
  <2> DEFINE n == [mapping[cur.id] EXCEPT !.conflict = TRUE]
  <2>1. pc = "mark" /\ pc' = "pull" /\ mapping' = [mapping EXCEPT ![cur.id] = n] /\ UNCHANGED local
    BY <1>8 DEF MarkConflict, NextItem, Goto
  <2>2. cur.id \in Ids /\ mapping[cur.id] \in Mappings
    BY <1>4, <2>1 DEF Holding, Applying, Pulling
  <2>3. n \in Mappings /\ n.event = mapping[cur.id].event
    BY <2>2, ConflictFields
  <2> HIDE DEF n
  <2> QED
    BY <1>2, <2>1, <2>2, <2>3
<1>9. CASE KeepLocal
  <2> DEFINE n == IF cur.live THEN [mapping[cur.id] EXCEPT !.pending = "none"] ELSE NoMapping
  <2>1. pc = "apply" /\ pc' = "pull" /\ mapping' = [mapping EXCEPT ![cur.id] = n] /\ UNCHANGED local
    BY <1>9 DEF KeepLocal, NextItem, Goto
  <2>2. cur.id \in Ids /\ mapping[cur.id] \in Mappings
    BY <1>4, <2>1 DEF Holding, Applying, Pulling
  <2>3. n \in Mappings /\ (n.event = mapping[cur.id].event \/ n.event = NoEvent)
    BY <1>3, <2>2, PendingFields
  <2> HIDE DEF n
  <2> QED
    BY <1>2, <2>1, <2>2, <2>3
<1>10. CASE Unmap \/ ForgetMapping
  <2>1. pc \in {"unmap", "forget"} /\ pc' \in {"pull", "push"} /\ UNCHANGED local
        /\ mapping' = [mapping EXCEPT ![cur.id] = NoMapping]
    BY <1>10 DEF Unmap, ForgetMapping, NextItem, Goto
  <2>2. cur.id \in Ids
    BY <1>4, <2>1 DEF Holding, Applying, Pulling
  <2> QED
    BY <1>2, <1>3, <2>1, <2>2
<1>11. CASE Baseline
  <2> DEFINE n == [mapping[cur.id] EXCEPT !.etag = cur.ver, !.dirty = FALSE, !.deleted = FALSE,
                                          !.pending = "none"]
  <2>1. pc = "baseline" /\ pc' = "pull" /\ mapping' = [mapping EXCEPT ![cur.id] = n] /\ UNCHANGED local
    BY <1>11 DEF Baseline, NextItem, Goto
  <2>2. cur.id \in Ids /\ mapping[cur.id] \in Mappings /\ cur.ver \in Nat
    BY <1>4, <2>1, ItemTypes DEF Holding, Applying, Pulling, TypeOK
  <2>3. n \in Mappings /\ n.event = mapping[cur.id].event
    BY <2>2, BaselineFields
  <2> HIDE DEF n
  <2> QED
    BY <1>2, <2>1, <2>2, <2>3
<1>12. CASE StorePushed
  <2> DEFINE n == [mapping[cur.id] EXCEPT !.etag = cur.ver, !.dirty = FALSE]
  <2>1. pc = "store" /\ pc' = "push" /\ mapping' = [mapping EXCEPT ![cur.id] = n] /\ UNCHANGED local
    BY <1>12 DEF StorePushed, Goto
  <2>2. cur.id \in Ids /\ mapping[cur.id] \in Mappings /\ cur.ver \in Nat
    BY <1>4, <2>1, ItemTypes DEF Holding, TypeOK
  <2>3. n \in Mappings /\ n.event = mapping[cur.id].event
    BY <2>2, StoredFields
  <2> HIDE DEF n
  <2> QED
    BY <1>2, <2>1, <2>2, <2>3
<1>13. CASE ApplyDeletion
  <2>1. /\ pc' = "unmap" /\ UNCHANGED updated
        /\ \A e \in Events : body'[e] # 0 => body[e] # 0
    BY <1>13 DEF ApplyDeletion, Goto
  <2>2. ASSUME NEW y \in Ids
        PROVE  mapping'[y].event = mapping[y].event \/ mapping'[y].event = NoEvent
    <3>1. mapping[y] \in Mappings
      BY DEF TypeOK
    <3>2. mapping'[y] = mapping[y] \/ mapping'[y] = [mapping[y] EXCEPT !.event = NoEvent]
      BY <1>13 DEF ApplyDeletion
    <3>3. [mapping[y] EXCEPT !.event = NoEvent].event = NoEvent
      BY <3>1, EventFields
    <3> QED
      BY <3>2, <3>3
  <2> QED
    BY <2>1, <2>2, LinkFrame
<1>14. CASE UpdateCanonical
  <2>1. pc' = "baseline" /\ UNCHANGED mapping /\ cur.event \in Events
    BY <1>14, ItemTypes DEF UpdateCanonical, Goto, TypeOK
  <2>2. \A e \in Events : updated[e] # 0 => updated'[e] # 0
    BY <1>14, <2>1 DEF UpdateCanonical, local, TypeOK
  <2>3. \A e \in Events : body'[e] # 0 => body[e] # 0 \/ updated'[e] # 0
    BY <1>14, <2>1 DEF UpdateCanonical, local, TypeOK
  <2> QED
    BY <2>1, <2>2, <2>3, LinkFrame
<1>15. ASSUME NEW e \in Events, InsertCanonical(e) PROVE LinkInv'
  <2>1. /\ pc' \in {"relink", "link"} /\ UNCHANGED mapping /\ updated[e] = 0
        /\ cur' = [cur EXCEPT !.event = e] /\ pc = "apply"
        /\ body' = [body EXCEPT ![e] = cur.body] /\ updated' = [updated EXCEPT ![e] = now]
    BY <1>15 DEF InsertCanonical, Goto
  <2>2. cur \in Items
    BY <2>1 DEF TypeOK, Holding, Applying, Pulling
  <2>3. cur'.event = e
    BY <2>1, <2>2, ImportedFields
  <2>4. updated'[e] # 0 /\ \A d \in Events : d # e => updated'[d] = updated[d] /\ body'[d] = body[d]
    BY <2>1 DEF TypeOK
  <2>5. e # NoEvent /\ \A x \in Ids : mapping[x].event # e
    BY <2>1, CalendarAssumption DEF LinkInv
  <2>6. \A x \in Ids : mapping[x].event \in Events \cup {NoEvent}
    BY MappingTypes DEF TypeOK
  <2> QED
    BY <2>1, <2>3, <2>4, <2>5, <2>6 DEF LinkInv
<1>16. CASE Relink
  <2> DEFINE n == [mapping[cur.id] EXCEPT !.event = cur.event]
  <2>1. pc = "relink" /\ pc' = "baseline" /\ mapping' = [mapping EXCEPT ![cur.id] = n] /\ UNCHANGED local
    BY <1>16 DEF Relink, Goto
  <2>2. PICK x \in Ids : x = cur.id
    BY <1>4, <2>1 DEF Holding, Applying, Pulling
  <2>3. mapping[x] \in Mappings /\ cur.event \in Events \cup {NoEvent}
    BY ItemTypes DEF TypeOK
  <2>4. n \in Mappings /\ n.event = cur.event
    BY <2>2, <2>3, EventFields
  <2> HIDE DEF n
  <2>5. mapping'[x] = n /\ \A y \in Ids : y # x => mapping'[y] = mapping[y]
    BY <2>1, <2>2, <2>4, OneMapping
  <2>6. cur.event \in Events /\ updated[cur.event] # 0 /\ \A y \in Ids : mapping[y].event # cur.event
    BY <2>1, <2>3 DEF LinkInv
  <2> QED
    BY <2>1, <2>4, <2>5, <2>6, LinkOne
<1>17. CASE Link \/ InsertMapping
  <2> DEFINE n == NewMapping(cur.event, cur.ver)
  <2>1. /\ pc \in {"link", "insert"} /\ pc' \in {"pull", "post"}
        /\ mapping' = [mapping EXCEPT ![cur.id] = n]
        /\ UNCHANGED local /\ Insertable(cur.id, cur.event)
    BY <1>17 DEF Link, InsertMapping, NextItem, Goto
  <2>2. PICK x \in Ids : x = cur.id
    BY <1>4, <2>1 DEF Holding, Applying, Pulling
  <2>3. cur.ver \in Nat /\ cur.event \in Events \cup {NoEvent}
    BY ItemTypes DEF TypeOK
  <2>4. n \in Mappings /\ n.event = cur.event
    BY <2>3, NewMappingFields
  <2> HIDE DEF n
  <2>5. mapping'[x] = n /\ \A y \in Ids : y # x => mapping'[y] = mapping[y]
    BY <2>1, <2>2, <2>4, OneMapping
  <2>6. CASE cur.event = NoEvent
    BY <1>2, <2>1, <2>2, <2>4, <2>6
  <2>7. CASE cur.event # NoEvent
    <3>1. /\ cur.event \in Events /\ updated[cur.event] # 0
          /\ \A y \in Ids : mapping[y].event # cur.event
      BY <2>1, <2>2, <2>3, <2>7, InsertableIsFree
    <3> QED
      BY <2>1, <2>4, <2>5, <3>1, LinkOne
  <2> QED
    BY <2>6, <2>7
<1> QED
  BY <1>5, <1>6, <1>7, <1>8, <1>9, <1>10, <1>11, <1>12, <1>13, <1>14, <1>15, <1>16, <1>17 DEF Job

\* Every step keeps the links, with what SyncInvariant gives.
LEMMA NextLinks ==
  ASSUME TypeOK, SyncInv, LinkInv, [Next]_vars, TypeOK'
  PROVE  LinkInv'
<1>1. CASE Job
  BY <1>1, JobLinks
<1>2. CASE Fault \/ Elsewhere \/ UNCHANGED vars
  <2>1. CASE Fault
    <3>1. UNCHANGED <<local, mapping>> /\ pc' = "idle"
      BY <2>1 DEF Fault, Quit, Goto
    <3> QED
      BY <3>1, LinkFrame DEF local
  <2>2. CASE Elsewhere
    <3>1. UNCHANGED <<local, mapping, jobVars>>
      BY <2>2 DEF Elsewhere, TokenExpires, GoogleEdit, GoogleDelete
    <3> QED
      BY <3>1, LinkFrame DEF local, jobVars
  <2>3. CASE UNCHANGED vars
    BY <2>3, LinkFrame DEF vars, local, jobVars
  <2> QED
    BY <1>2, <2>1, <2>2, <2>3
<1>3. ASSUME NEW e \in Events, EventRequest(e) PROVE LinkInv'
  <2>1. Marking
    BY <1>3, RequestsMark
  <2>2. /\ \A y \in Ids : mapping'[y].event = mapping[y].event \/ mapping'[y].event = NoEvent
        /\ UNCHANGED jobVars
        /\ \A d \in Events : (updated[d] # 0 => updated'[d] # 0)
                             /\ (body'[d] # 0 => body[d] # 0 \/ updated'[d] # 0)
    BY <2>1 DEF Marking, Marked
  <2> QED
    BY <2>2, LinkFrame DEF jobVars
<1>4. ASSUME NEW x \in Ids, NEW choice \in Choices, ResolveConflict(x, choice) PROVE LinkInv'
  <2> DEFINE n == IF choice = "google"
                  THEN [mapping[x] EXCEPT !.conflict = FALSE, !.dirty = FALSE, !.deleted = FALSE,
                                          !.etag = 0, !.pending = choice]
                  ELSE [mapping[x] EXCEPT !.conflict = FALSE, !.dirty = TRUE, !.pending = choice]
  <2>1. mapping' = [mapping EXCEPT ![x] = n] /\ UNCHANGED <<local, jobVars>>
    BY <1>4 DEF ResolveConflict
  <2>2. choice \in Resolutions /\ mapping[x] \in Mappings
    BY CalendarAssumption DEF TypeOK
  <2>3. n \in Mappings /\ n.event = mapping[x].event
    BY <2>2, ResolvedFields
  <2> HIDE DEF n
  <2>4. \A y \in Ids : mapping'[y].event = mapping[y].event
    BY <2>1, <2>3, OneMapping
  <2> QED
    BY <2>1, <2>4, LinkFrame DEF local, jobVars
<1> QED
  BY <1>1, <1>2, <1>3, <1>4 DEF Next, User, EventRequest

\* There are no links at the start.
LEMMA InitLinks == Init => LinkInv
<1> SUFFICES ASSUME Init PROVE LinkInv
  OBVIOUS
<1>1. /\ \A e \in Events : body[e] = 0
      /\ \A x \in Ids : mapping[x] = NoMapping
      /\ pc = "idle"
  BY DEF Init
<1> QED
  BY <1>1, NoMappingFields DEF LinkInv

\* The unique constraint on canonical_event_id is never what keeps a job from going on.
LEMMA LinkInvariant ==
  ASSUME "resolve" \notin BusyOperations
  PROVE  Spec => [](TypeOK /\ SyncInv /\ LinkInv)
<1>1. Init => LinkInv
  BY InitLinks
<1>2. TypeOK /\ SyncInv /\ LinkInv /\ [Next]_vars => LinkInv'
  BY NextLinks, NextSafe
<1> QED
  BY <1>1, <1>2, SyncInvariant, PTL DEF Spec

-----------------------------------------------------------------------------
(* Under `ask` a pull leaves local edits alone.                            *)

\* What a request between jobs sees: no job.
LEMMA QuietRequest ==
  ASSUME BusyOperations = {}, User
  PROVE  pc = "idle" /\ pc' = "idle"
BY DEF User, CreateEvent, UpdateEvent, DeleteEvent, MoveAway, MoveInto, ResolveConflict, Request,
       jobVars

\* With requests between jobs the change in hand has the mapping as it is.
LEMMA FreshStep ==
  ASSUME BusyOperations = {}, TypeOK, FreshInv, [Next]_vars
  PROVE  FreshInv'
<1>1. CASE pc' # "apply"
  BY <1>1 DEF FreshInv
<1>2. CASE pc' = "apply" /\ UNCHANGED <<pc, cur, mapping>>
  BY <1>2 DEF FreshInv
<1>3. CASE \E item \in inbox : ReadMapping(item)
  <2>1. PICK item \in inbox : ReadMapping(item)
    BY <1>3
  <2>2. PICK x \in Ids : x = item.id
    BY ItemTypes DEF TypeOK
  <2> DEFINE m == mapping[x]
             at == IF m.event = NoEvent THEN 0 ELSE updated[m.event]
             c == [item EXCEPT !.map = m, !.event = m.event, !.at = at]
  <2>3. cur' = c /\ UNCHANGED mapping
    BY <2>1, <2>2 DEF ReadMapping
  <2>4. item \in Items
    BY DEF TypeOK
  <2> HIDE DEF m, at
  <2>5. c.id = item.id /\ c.map = m
    BY <2>4 DEF Items
  <2> QED
    BY <2>2, <2>3, <2>5 DEF FreshInv, m
<1>4. CASE Elsewhere \/ UNCHANGED vars
  <2>1. UNCHANGED <<pc, cur, mapping>>
    BY <1>4 DEF Elsewhere, TokenExpires, GoogleEdit, GoogleDelete, vars, jobVars
  <2> QED
    BY <1>1, <1>2, <2>1
<1>5. CASE User
  BY <1>1, <1>5, QuietRequest
<1>6. CASE Fault
  BY <1>1, <1>6 DEF Fault, Quit, Goto
<1>7. CASE Job /\ ~(\E item \in inbox : ReadMapping(item))
  <2>1. CASE StartSync \/ PullFully \/ ListChanges \/ SkipChange \/ OpenConflict \/ MarkConflict
             \/ KeepLocal \/ ApplyDeletion \/ Unmap \/ UpdateCanonical \/ Relink \/ Baseline
    BY <1>1, <2>1 DEF StartSync, PullFully, ListChanges, SkipChange, OpenConflict, MarkConflict,
         KeepLocal, ApplyDeletion, Unmap, UpdateCanonical, Relink, Baseline, NextItem, Goto
  <2>2. CASE Link \/ FinishPull \/ SelectUnmapped \/ (\E item \in work : PostEvent(item))
             \/ InsertMapping \/ SelectDirty
             \/ (\E item \in work : PushDelete(item) \/ PushUpdate(item))
             \/ ForgetMapping \/ StorePushed \/ EndSync \/ FailSync
    BY <1>1, <2>2 DEF Link, FinishPull, SelectUnmapped, PostEvent, InsertMapping, SelectDirty,
         PushDelete, PushUpdate, ForgetMapping, StorePushed, EndSync, FailSync, NextItem, Goto, Quit
  <2>3. ASSUME NEW e \in Events, InsertCanonical(e) PROVE FreshInv'
    <3>1. pc' # "apply"
      BY <2>3 DEF InsertCanonical, Goto
    <3> QED
      BY <1>1, <3>1
  <2> QED
    BY <1>7, <2>1, <2>2, <2>3 DEF Job
<1> QED
  BY <1>3, <1>4, <1>5, <1>6, <1>7 DEF Next

\* Only two statements of a job change the content of an event that has a mapping.
LEMMA BodyChanges ==
  ASSUME TypeOK, LinkInv, Next, edits' = edits, NEW x \in Ids, NEW e \in Events,
         mapping[x].event = e, body'[e] # body[e]
  PROVE  /\ ApplyDeletion \/ UpdateCanonical
         /\ pc = "apply" /\ Takes(cur) /\ cur.map.exists /\ cur.event = e /\ cur.id = x
         /\ cur.live \/ ApplyDeletion
<1>1. ~User
  <2>1. ASSUME NEW d \in Events, EventRequest(d) PROVE FALSE
    <3>1. edits' = edits + 1
      BY <2>1, RequestsMark DEF Marking
    <3> QED
      BY <3>1 DEF TypeOK
  <2>2. ASSUME NEW y \in Ids, NEW choice \in Choices, ResolveConflict(y, choice) PROVE FALSE
    <3>1. body' = body
      BY <2>2 DEF ResolveConflict, local
    <3> QED
      BY <3>1
  <2> QED
    BY <2>1, <2>2 DEF User, EventRequest
<1>2. ~Elsewhere /\ ~Fault
  BY DEF Elsewhere, TokenExpires, GoogleEdit, GoogleDelete, Fault, Quit, local
<1>3. ~(\E d \in Events : InsertCanonical(d))
  <2>1. ASSUME NEW d \in Events, InsertCanonical(d) PROVE FALSE
    <3>1. updated[d] = 0 /\ body' = [body EXCEPT ![d] = cur.body]
      BY <2>1 DEF InsertCanonical
    <3>2. d # e
      BY <3>1, CalendarAssumption DEF LinkInv
    <3> QED
      BY <3>1, <3>2 DEF TypeOK
  <2> QED
    BY <2>1
<1>4. Job
  BY <1>1, <1>2 DEF Next
<1>5. ApplyDeletion \/ UpdateCanonical
  <2>1. ASSUME UNCHANGED local PROVE FALSE
    BY <2>1 DEF local
  <2>2. ~(StartSync \/ PullFully \/ ListChanges \/ \E item \in inbox : ReadMapping(item))
    BY <2>1 DEF StartSync, PullFully, ListChanges, ReadMapping
  <2>3. ~(SkipChange \/ OpenConflict \/ MarkConflict \/ KeepLocal \/ Unmap \/ Relink \/ Baseline
          \/ Link \/ FinishPull)
    BY <2>1 DEF SkipChange, OpenConflict, MarkConflict, KeepLocal, Unmap, Relink, Baseline, Link,
         FinishPull
  <2>4. ~(SelectUnmapped \/ (\E item \in work : PostEvent(item)) \/ InsertMapping \/ SelectDirty
          \/ (\E item \in work : PushDelete(item) \/ PushUpdate(item))
          \/ ForgetMapping \/ StorePushed \/ EndSync \/ FailSync)
    BY <2>1 DEF SelectUnmapped, PostEvent, InsertMapping, SelectDirty, PushDelete, PushUpdate,
         ForgetMapping, StorePushed, EndSync, FailSync, Quit
  <2> QED
    BY <1>3, <1>4, <2>2, <2>3, <2>4 DEF Job
<1>6. /\ pc = "apply" /\ Takes(cur) /\ cur.map.exists /\ cur.event = e
      /\ cur.live \/ ApplyDeletion
  <2>1. CASE ApplyDeletion
    <3>1. body'[e] = IF e = cur.event THEN 0 ELSE body[e]
      BY <2>1 DEF ApplyDeletion
    <3> QED
      BY <2>1, <3>1 DEF ApplyDeletion
  <2>2. CASE UpdateCanonical
    <3>1. cur.event \in Events
      BY <2>2, ItemTypes DEF UpdateCanonical, TypeOK
    <3>2. cur.event = e
      BY <2>2, <3>1 DEF UpdateCanonical, local, TypeOK
    <3> QED
      BY <2>2, <3>2 DEF UpdateCanonical
  <2> QED
    BY <1>5, <2>1, <2>2
<1>7. cur.id = x
  BY <1>6, CalendarAssumption DEF LinkInv
<1> QED
  BY <1>5, <1>6, <1>7

\* Under the policy `ask` a pull never replaces or removes an event with an unsent local edit,
\* if requests come between jobs: the edit is seen, and the change becomes a conflict.
THEOREM LocalEditsAreProtected ==
  ASSUME BusyOperations = {}
  PROVE  Spec => AskProtectsLocalEdits
<1>1. Init => FreshInv
  BY DEF Init, FreshInv
<1>2. TypeOK /\ FreshInv /\ [Next]_vars => FreshInv'
  BY FreshStep
<1>3. ASSUME TypeOK, LinkInv, FreshInv, [Next]_vars
      PROVE  [\A x \in Ids :
                mapping[x].exists /\ mapping[x].dirty /\ Effective(mapping[x]) = "ask"
                /\ edits' = edits =>
                    \A e \in Events : mapping[x].event = e => body'[e] = body[e]]_vars
  <2> SUFFICES ASSUME Next, NEW x \in Ids, mapping[x].exists, mapping[x].dirty,
                      Effective(mapping[x]) = "ask", edits' = edits,
                      NEW e \in Events, mapping[x].event = e, body'[e] # body[e]
               PROVE  FALSE
    BY <1>3
  <2>1. pc = "apply" /\ Takes(cur) /\ cur.id = x
    BY <1>3, BodyChanges
  <2>2. cur.map = mapping[x]
    BY <1>3, <2>1 DEF FreshInv
  <2> QED
    BY <2>1, <2>2 DEF Takes, Asks, Contested
<1>4. Spec => [](TypeOK /\ SyncInv /\ LinkInv)
  <2>1. "resolve" \notin BusyOperations
    OBVIOUS
  <2> QED
    BY <2>1, LinkInvariant
<1> QED
  BY <1>1, <1>2, <1>3, <1>4, PTL DEF Spec, AskProtectsLocalEdits

-----------------------------------------------------------------------------
(* No job overwrites a version that a conflict shows.                      *)

\* A mapping marked for deletion that has an event waits for Google's version.
SafeMark(m) == m.pending # "latest" /\ SafeTombstone(m)

\* A step that takes nothing new in hand and keeps every mapping's marks in order.
LEMMA TombstoneFrame ==
  ASSUME TypeOK, TombstoneInv, UNCHANGED policy,
         \A y \in Ids : SafeMark(mapping'[y]),
         \/ pc' \notin {"apply", "relink"}
         \/ /\ UNCHANGED <<pc, cur>>
            /\ \A y \in Ids : mapping[y].event = NoEvent => mapping'[y] = mapping[y]
  PROVE  TombstoneInv'
<1>1. \A y \in Ids : mapping'[y].pending # "latest" /\ SafeTombstone(mapping[y])'
  BY DEF SafeMark, SafeTombstone
<1>2. CASE pc' \notin {"apply", "relink"}
  BY <1>1, <1>2 DEF TombstoneInv
<1>3. CASE pc' \in {"apply", "relink"}
  <2>1. pc \in Holding
    BY <1>3 DEF Holding, Applying, Pulling
  <2>2. PICK x \in Ids : x = cur.id
    BY <2>1, ItemTypes DEF TypeOK
  <2>3. cur' = cur /\ pc' = pc /\ (mapping[x].event = NoEvent => mapping'[x] = mapping[x])
    BY <1>3
  <2>4. pc = "apply" =>
          /\ SafeTombstone(cur.map)'
          /\ cur.event = NoEvent =>
               mapping'[x].event = NoEvent /\ mapping'[x].deleted = cur.map.deleted
    BY <2>2, <2>3 DEF TombstoneInv, SafeTombstone
  <2>5. pc = "relink" =>
          /\ mapping'[x].event = NoEvent
          /\ mapping'[x].deleted /\ policy = "ask" => mapping'[x].pending = "google"
    BY <2>2, <2>3 DEF TombstoneInv
  <2> QED
    BY <1>1, <2>2, <2>3, <2>4, <2>5 DEF TombstoneInv
<1> QED
  BY <1>2, <1>3

\* What each step of the job does to mappings marked for deletion.
LEMMA JobTombstones ==
  ASSUME TypeOK, SyncInv, LinkInv, TombstoneInv, Job
  PROVE  TombstoneInv'
<1>1. \A y \in Ids : SafeMark(mapping[y])
  BY DEF TombstoneInv, SafeMark
<1>2. ASSUME UNCHANGED <<mapping, policy>>, pc' \notin {"apply", "relink"}
      PROVE  TombstoneInv'
  BY <1>1, <1>2, TombstoneFrame
<1>3. ASSUME NEW n \in Mappings, NEW x \in Ids, mapping' = [mapping EXCEPT ![x] = n],
             SafeMark(n), UNCHANGED policy, pc' \notin {"apply", "relink"}
      PROVE  TombstoneInv'
  <2>1. mapping'[x] = n /\ \A y \in Ids : y # x => mapping'[y] = mapping[y]
    BY <1>3, OneMapping
  <2>2. ASSUME NEW y \in Ids PROVE SafeMark(mapping'[y])
    <3>1. mapping'[y] = n \/ mapping'[y] = mapping[y]
      BY <2>1
    <3> QED
      BY <1>1, <1>3, <3>1
  <2> QED
    BY <1>3, <2>2, TombstoneFrame
<1>4. pc \in Holding => cur.id \in Ids /\ mapping[cur.id] \in Mappings
  BY ItemTypes DEF TypeOK
<1>5. CASE StartSync \/ PullFully \/ ListChanges \/ SkipChange \/ OpenConflict \/ FinishPull
           \/ UpdateCanonical
  <2>1. UNCHANGED <<mapping, policy>> /\ pc' \notin {"apply", "relink"}
    BY <1>5 DEF StartSync, PullFully, ListChanges, SkipChange, OpenConflict, FinishPull,
         UpdateCanonical, Goto, NextItem, calendar
  <2> QED
    BY <1>2, <2>1
<1>6. CASE SelectUnmapped \/ (\E item \in work : PostEvent(item)) \/ SelectDirty
           \/ (\E item \in work : PushDelete(item) \/ PushUpdate(item)) \/ EndSync \/ FailSync
  <2>1. UNCHANGED <<mapping, policy>> /\ pc' \notin {"apply", "relink"}
    BY <1>6 DEF SelectUnmapped, PostEvent, SelectDirty, PushDelete, PushUpdate, EndSync, FailSync,
         Goto, Quit, calendar
  <2> QED
    BY <1>2, <2>1
<1>7. ASSUME NEW item \in inbox, ReadMapping(item) PROVE TombstoneInv'
  <2>1. PICK x \in Ids : x = item.id
    BY ItemTypes DEF TypeOK
  <2> DEFINE m == mapping[x]
             at == IF m.event = NoEvent THEN 0 ELSE updated[m.event]
             c == [item EXCEPT !.map = m, !.event = m.event, !.at = at]
  <2>2. cur' = c /\ pc' = "apply" /\ UNCHANGED <<mapping, policy>>
    BY <1>7, <2>1 DEF ReadMapping, Goto, calendar
  <2>3. item \in Items
    BY DEF TypeOK
  <2> HIDE DEF m, at
  <2>4. c.id = item.id /\ c.map = m /\ c.event = m.event
    BY <2>3 DEF Items
  <2>5. cur'.id = x /\ cur'.map = mapping[x] /\ cur'.event = mapping[x].event
    BY <2>1, <2>2, <2>4 DEF m
  <2> QED
    BY <2>2, <2>5 DEF TombstoneInv, SafeTombstone
<1>8. CASE MarkConflict
  <2>1. PICK x \in Ids : x = cur.id
    BY <1>4, <1>8 DEF MarkConflict, Holding, Applying, Pulling
  <2> DEFINE n == [mapping[x] EXCEPT !.conflict = TRUE]
  <2>2. pc' = "pull" /\ mapping' = [mapping EXCEPT ![x] = n] /\ UNCHANGED policy
    BY <1>8, <2>1 DEF MarkConflict, NextItem, Goto, calendar
  <2>3. /\ n \in Mappings /\ n.event = mapping[x].event
        /\ n.deleted = mapping[x].deleted /\ n.pending = mapping[x].pending
    BY ConflictFields DEF TypeOK
  <2> HIDE DEF n
  <2>4. SafeMark(n)
    BY <1>1, <2>3 DEF SafeMark, SafeTombstone
  <2> QED
    BY <1>3, <2>2, <2>3, <2>4
<1>9. CASE KeepLocal
  <2>1. PICK x \in Ids : x = cur.id
    BY <1>4, <1>9 DEF KeepLocal, Holding, Applying, Pulling
  <2> DEFINE n == [mapping[x] EXCEPT !.pending = "none"]
  <2>2. /\ pc' = "pull" /\ pc = "apply" /\ Keeps(cur) /\ UNCHANGED policy
        /\ mapping' = [mapping EXCEPT ![x] = IF cur.live THEN n ELSE NoMapping]
    BY <1>9, <2>1 DEF KeepLocal, NextItem, Goto, calendar
  <2>3. /\ n \in Mappings /\ n.event = mapping[x].event
        /\ n.deleted = mapping[x].deleted /\ n.pending = "none"
    BY PendingFields DEF TypeOK
  <2>4. mapping[x].pending # "google"
    <3>1. cur.map.pending = mapping[x].pending
      BY <2>1, <2>2, InHandFacts DEF Applying, Pulling
    <3> QED
      BY <2>2, <3>1 DEF Keeps, KeepsLocal, Effective
  <2> HIDE DEF n
  <2>5. SafeMark(n) /\ SafeMark(NoMapping)
    BY <1>1, <2>3, <2>4, NoMappingFields DEF SafeMark, SafeTombstone
  <2> QED
    BY <1>3, <2>2, <2>3, <2>5, NoMappingFields
<1>10. CASE Unmap \/ ForgetMapping
  <2>1. pc \in {"unmap", "forget"} /\ pc' \in {"pull", "push"} /\ UNCHANGED policy
        /\ mapping' = [mapping EXCEPT ![cur.id] = NoMapping]
    BY <1>10 DEF Unmap, ForgetMapping, NextItem, Goto, calendar
  <2>2. cur.id \in Ids
    BY <1>4, <2>1 DEF Holding, Applying, Pulling
  <2>3. SafeMark(NoMapping)
    BY NoMappingFields DEF SafeMark, SafeTombstone
  <2> QED
    BY <1>3, <2>1, <2>2, <2>3, NoMappingFields
<1>11. CASE Baseline
  <2>1. PICK x \in Ids : x = cur.id
    BY <1>4, <1>11 DEF Baseline, Holding, Applying, Pulling
  <2> DEFINE n == [mapping[x] EXCEPT !.etag = cur.ver, !.dirty = FALSE, !.deleted = FALSE,
                                     !.pending = "none"]
  <2>2. pc' = "pull" /\ mapping' = [mapping EXCEPT ![x] = n] /\ UNCHANGED policy
    BY <1>11, <2>1 DEF Baseline, NextItem, Goto, calendar
  <2>3. cur.ver \in Nat /\ mapping[x] \in Mappings
    BY ItemTypes DEF TypeOK
  <2>4. n \in Mappings /\ ~n.deleted /\ n.pending = "none"
    BY <2>3, BaselineFields
  <2> HIDE DEF n
  <2>5. SafeMark(n)
    BY <2>4 DEF SafeMark, SafeTombstone
  <2> QED
    BY <1>3, <2>2, <2>4, <2>5
<1>12. CASE StorePushed
  <2>1. PICK x \in Ids : x = cur.id
    BY <1>4, <1>12 DEF StorePushed, Holding
  <2> DEFINE n == [mapping[x] EXCEPT !.etag = cur.ver, !.dirty = FALSE]
  <2>2. pc' = "push" /\ mapping' = [mapping EXCEPT ![x] = n] /\ UNCHANGED policy
    BY <1>12, <2>1 DEF StorePushed, Goto, calendar
  <2>3. cur.ver \in Nat /\ mapping[x] \in Mappings
    BY ItemTypes DEF TypeOK
  <2>4. /\ n \in Mappings /\ n.event = mapping[x].event
        /\ n.deleted = mapping[x].deleted /\ n.pending = mapping[x].pending
    BY <2>3, StoredFields
  <2> HIDE DEF n
  <2>5. SafeMark(n)
    BY <1>1, <2>4 DEF SafeMark, SafeTombstone
  <2> QED
    BY <1>3, <2>2, <2>4, <2>5
<1>13. CASE ApplyDeletion
  <2>1. pc' = "unmap" /\ UNCHANGED policy
    BY <1>13 DEF ApplyDeletion, Goto, calendar
  <2>2. ASSUME NEW y \in Ids PROVE SafeMark(mapping'[y])
    <3> DEFINE n == [mapping[y] EXCEPT !.event = NoEvent]
    <3>1. mapping'[y] = mapping[y] \/ mapping'[y] = n
      BY <1>13 DEF ApplyDeletion
    <3>2. n.event = NoEvent /\ n.pending = mapping[y].pending
      BY EventFields DEF TypeOK
    <3> HIDE DEF n
    <3> QED
      BY <1>1, <3>1, <3>2 DEF SafeMark, SafeTombstone
  <2> QED
    BY <2>1, <2>2, TombstoneFrame
<1>14. ASSUME NEW e \in Events, InsertCanonical(e) PROVE TombstoneInv'
  <2>1. /\ pc' = (IF cur.map.exists THEN "relink" ELSE "link") /\ UNCHANGED <<mapping, policy>>
        /\ cur' = [cur EXCEPT !.event = e] /\ pc = "apply" /\ Takes(cur) /\ cur.live
        /\ cur.map.exists => cur.event = NoEvent
    BY <1>14 DEF InsertCanonical, Goto, calendar
  <2>2. PICK x \in Ids : x = cur.id
    BY <1>4, <2>1 DEF Holding, Applying, Pulling
  <2>3. CASE ~cur.map.exists
    BY <1>2, <2>1, <2>3
  <2>4. CASE cur.map.exists
    <3>1. cur'.id = x
      BY <2>1, <2>2, ImportedFields DEF TypeOK, Holding, Applying, Pulling
    <3>2. mapping[x].event = NoEvent /\ mapping[x].deleted = cur.map.deleted
      BY <2>1, <2>2, <2>4 DEF TombstoneInv
    <3>3. cur.map.pending = mapping[x].pending /\ cur.map \in Mappings
      BY <2>1, <2>2, InHandFacts DEF Applying, Pulling
    <3>4. cur.map.pending \in Resolutions \cup {"none"} /\ cur.map.pending # "latest"
      BY <3>3, MappingTypes DEF TombstoneInv
    <3>5. cur.map.deleted /\ policy = "ask" => cur.map.pending = "google"
      BY <2>1, <2>4, <3>4 DEF Takes, Asks, Keeps, Known, Contested, KeepsLocal, Effective, Resolutions
    <3>6. mapping[x].deleted /\ policy = "ask" => mapping[x].pending = "google"
      BY <3>2, <3>3, <3>5
    <3> QED
      BY <2>1, <2>4, <3>1, <3>2, <3>6 DEF TombstoneInv, SafeTombstone
  <2> QED
    BY <2>3, <2>4
<1>15. CASE Relink
  <2>1. PICK x \in Ids : x = cur.id
    BY <1>4, <1>15 DEF Relink, Holding, Applying, Pulling
  <2> DEFINE n == [mapping[x] EXCEPT !.event = cur.event]
  <2>2. pc = "relink" /\ pc' = "baseline" /\ mapping' = [mapping EXCEPT ![x] = n] /\ UNCHANGED policy
    BY <1>15, <2>1 DEF Relink, Goto, calendar
  <2>3. cur.event \in Events \cup {NoEvent} /\ mapping[x] \in Mappings
    BY ItemTypes DEF TypeOK
  <2>4. n \in Mappings /\ n.deleted = mapping[x].deleted /\ n.pending = mapping[x].pending
    BY <2>3, EventFields
  <2> HIDE DEF n
  <2>5. mapping[x].deleted /\ policy = "ask" => mapping[x].pending = "google"
    BY <2>1, <2>2 DEF TombstoneInv
  <2>6. SafeMark(n)
    BY <1>1, <2>4, <2>5 DEF SafeMark, SafeTombstone
  <2> QED
    BY <1>3, <2>2, <2>4, <2>6
<1>16. CASE Link \/ InsertMapping
  <2> DEFINE n == NewMapping(cur.event, cur.ver)
  <2>1. /\ pc \in {"link", "insert"} /\ pc' \in {"pull", "post"}
        /\ mapping' = [mapping EXCEPT ![cur.id] = n] /\ UNCHANGED policy
    BY <1>16 DEF Link, InsertMapping, NextItem, Goto, calendar
  <2>2. cur.id \in Ids
    BY <1>4, <2>1 DEF Holding, Applying, Pulling
  <2>3. cur.ver \in Nat /\ cur.event \in Events \cup {NoEvent}
    BY ItemTypes DEF TypeOK
  <2>4. n \in Mappings /\ ~n.deleted /\ n.pending = "none"
    BY <2>3, NewMappingFields
  <2> HIDE DEF n
  <2>5. SafeMark(n)
    BY <2>4 DEF SafeMark, SafeTombstone
  <2> QED
    BY <1>3, <2>1, <2>2, <2>4, <2>5
<1> QED
  BY <1>5, <1>6, <1>7, <1>8, <1>9, <1>10, <1>11, <1>12, <1>13, <1>14, <1>15, <1>16 DEF Job

\* So does every other step, if no conflict is resolved by the later time stamp.
LEMMA NextTombstones ==
  ASSUME "resolve" \notin BusyOperations, "latest" \notin Choices,
         TypeOK, SyncInv, LinkInv, TombstoneInv, [Next]_vars
  PROVE  TombstoneInv'
<1>1. \A y \in Ids : SafeMark(mapping[y])
  BY DEF TombstoneInv, SafeMark
<1>2. CASE Job
  BY <1>2, JobTombstones
<1>3. CASE Fault
  <2>1. UNCHANGED <<mapping, policy>> /\ pc' = "idle"
    BY <1>3 DEF Fault, Quit, Goto, calendar
  <2> QED
    BY <1>1, <2>1, TombstoneFrame
<1>4. CASE Elsewhere \/ UNCHANGED vars
  <2>1. UNCHANGED <<mapping, policy, pc, cur>>
    <3>1. CASE TokenExpires
      BY <3>1 DEF TokenExpires, jobVars
    <3>2. CASE \E x \in Ids : GoogleEdit(x) \/ GoogleDelete(x)
      BY <3>2 DEF GoogleEdit, GoogleDelete, calendar, jobVars
    <3>3. CASE UNCHANGED vars
      BY <3>3 DEF vars, calendar, jobVars
    <3> QED
      BY <1>4, <3>1, <3>2, <3>3 DEF Elsewhere
  <2> QED
    BY <1>1, <2>1, TombstoneFrame
<1>5. ASSUME NEW e \in Events, EventRequest(e) PROVE TombstoneInv'
  <2>1. Marking
    BY <1>5, RequestsMark
  <2>2. UNCHANGED <<policy, pc, cur>>
    BY <2>1 DEF Marking, calendar, jobVars
  <2>3. \A y \in Ids : mapping[y].event = NoEvent => mapping'[y] = mapping[y]
    BY <2>1 DEF Marking, Marked
  <2>4. ASSUME NEW y \in Ids PROVE SafeMark(mapping'[y])
    <3>1. /\ mapping'[y].pending = mapping[y].pending
          /\ mapping'[y].event = mapping[y].event \/ mapping'[y].event = NoEvent
          /\ mapping'[y].deleted /\ mapping'[y].event # NoEvent => mapping[y].deleted
      BY <2>1 DEF Marking, Marked
    <3>2. SafeMark(mapping[y])
      BY <1>1
    <3> QED
      BY <3>1, <3>2 DEF SafeMark, SafeTombstone
  <2> QED
    BY <2>2, <2>3, <2>4, TombstoneFrame
<1>6. ASSUME NEW x \in Ids, NEW choice \in Choices, ResolveConflict(x, choice) PROVE TombstoneInv'
  <2> DEFINE m == mapping[x]
             g == [m EXCEPT !.conflict = FALSE, !.dirty = FALSE, !.deleted = FALSE,
                            !.etag = 0, !.pending = choice]
             k == [m EXCEPT !.conflict = FALSE, !.dirty = TRUE, !.pending = choice]
             n == IF choice = "google" THEN g ELSE k
  <2>1. /\ mapping' = [mapping EXCEPT ![x] = n] /\ x \in open /\ pc = "idle"
        /\ UNCHANGED <<policy, pc>>
    BY <1>6 DEF ResolveConflict, calendar, jobVars
  <2>2. choice \in Resolutions /\ choice # "latest" /\ m \in Mappings
    <3>1. choice \in Resolutions
      BY CalendarAssumption
    <3>2. choice # "latest"
      BY "latest" \notin Choices
    <3>3. m \in Mappings
      BY DEF TypeOK
    <3> QED
      BY <3>1, <3>2, <3>3
  <2>3. policy = "ask" /\ m.pending = "none" /\ SafeMark(m)
    BY <1>1, <2>1 DEF SyncInv, OpenInv, SafeConflict
  <2> HIDE DEF m
  <2>4. /\ g \in Mappings /\ ~g.deleted /\ g.pending = choice
        /\ k \in Mappings /\ k.deleted = m.deleted /\ k.event = m.event /\ k.pending = choice
    <3>1. g \in Mappings /\ k \in Mappings
      BY <2>2, ResolvedFields
    <3>2. ~g.deleted /\ g.pending = choice
      BY <2>2 DEF Mappings
    <3>3. k.deleted = m.deleted /\ k.event = m.event /\ k.pending = choice
      BY <2>2 DEF Mappings
    <3> QED
      BY <3>1, <3>2, <3>3
  <2> HIDE DEF g, k
  <2>5. n \in Mappings
    BY <2>4
  <2>6. SafeMark(n)
    <3>1. SafeMark(g)
      BY <2>2, <2>4 DEF SafeMark, SafeTombstone
    <3>2. SafeMark(k)
      BY <2>2, <2>3, <2>4 DEF SafeMark, SafeTombstone
    <3> QED
      BY <3>1, <3>2
  <2> HIDE DEF n
  <2>7. mapping'[x] = n /\ \A y \in Ids : y # x => mapping'[y] = mapping[y]
    BY <2>1, <2>5, OneMapping
  <2>8. ASSUME NEW y \in Ids PROVE SafeMark(mapping'[y])
    <3>1. mapping'[y] = n \/ mapping'[y] = mapping[y]
      BY <2>7
    <3> QED
      BY <1>1, <2>6, <3>1
  <2>9. pc' \notin {"apply", "relink"} /\ UNCHANGED policy
    BY <2>1
  <2> QED
    BY <2>8, <2>9, TombstoneFrame
<1> QED
  BY <1>2, <1>3, <1>4, <1>5, <1>6 DEF Next, User, EventRequest

\* Nothing is marked at the start.
LEMMA InitTombstones == Init => TombstoneInv
<1> SUFFICES ASSUME Init PROVE TombstoneInv
  OBVIOUS
<1>1. pc = "idle" /\ \A x \in Ids : mapping[x] = NoMapping
  BY DEF Init
<1> QED
  BY <1>1, NoMappingFields DEF TombstoneInv, SafeTombstone

\* Only a push writes to Google in a job, and it leaves events with a conflict alone.
LEMMA PushRespectsConflicts ==
  ASSUME TypeOK, SyncInv, Next, edits' = edits, NEW x \in Ids, x \in open
  PROVE  gver'[x] = gver[x]
<1>1. ASSUME NEW e \in Events, EventRequest(e) PROVE gver' = gver
  BY <1>1, RequestsMark DEF Marking, google
<1>2. ASSUME NEW y \in Ids, NEW choice \in Choices, ResolveConflict(y, choice) PROVE gver' = gver
  BY <1>2 DEF ResolveConflict, google
<1>3. CASE Fault
  BY <1>3 DEF Fault, Quit, google
<1>4. CASE Elsewhere
  <2>1. CASE TokenExpires
    BY <2>1 DEF TokenExpires, google
  <2>2. ASSUME NEW y \in Ids, GoogleEdit(y) \/ GoogleDelete(y) PROVE FALSE
    <3>1. edits' = edits + 1
      BY <2>2 DEF GoogleEdit, GoogleDelete, Edit
    <3> QED
      BY <3>1 DEF TypeOK
  <2> QED
    BY <1>4, <2>1, <2>2 DEF Elsewhere
<1>5. ASSUME NEW item \in work, PostEvent(item) PROVE gver'[x] = gver[x]
  <2>1. CASE gver[item.id] = 0
    <3>1. gver[x] # 0
      BY DEF SyncInv, OpenInv, SafeConflict, ClockInv
    <3>2. gver' = [gver EXCEPT ![item.id] = now']
      BY <1>5, <2>1 DEF PostEvent, GoogleWrites
    <3> QED
      BY <2>1, <3>1, <3>2 DEF TypeOK
  <2>2. CASE gver[item.id] # 0
    BY <1>5, <2>2 DEF PostEvent, google
  <2> QED
    BY <2>1, <2>2
<1>6. ASSUME NEW item \in work, PushDelete(item) \/ PushUpdate(item) PROVE gver'[x] = gver[x]
  <2>1. item.id \notin open
    BY <1>6, PushDeleteSafe, PushUpdateSafe
  <2>2. gver' = [gver EXCEPT ![item.id] = now']
    BY <1>6 DEF PushDelete, PushUpdate, GoogleWrites
  <2> QED
    BY <2>1, <2>2 DEF TypeOK
<1>7. ASSUME Rest' = Rest PROVE gver' = gver
  BY <1>7 DEF Rest, google
<1>8. CASE StartSync \/ PullFully \/ ListChanges \/ \E item \in inbox : ReadMapping(item)
  BY <1>7, <1>8 DEF StartSync, PullFully, ListChanges, ReadMapping
<1>9. CASE SkipChange \/ OpenConflict \/ MarkConflict \/ KeepLocal
  BY <1>7, <1>9 DEF SkipChange, OpenConflict, MarkConflict, KeepLocal
<1>10. CASE ApplyDeletion \/ Unmap \/ UpdateCanonical \/ (\E e \in Events : InsertCanonical(e))
  BY <1>7, <1>10 DEF ApplyDeletion, Unmap, UpdateCanonical, InsertCanonical
<1>11. CASE Relink \/ Baseline \/ Link \/ FinishPull
  BY <1>7, <1>11 DEF Relink, Baseline, Link, FinishPull
<1>12. CASE SelectUnmapped \/ InsertMapping \/ SelectDirty \/ ForgetMapping \/ StorePushed
  BY <1>7, <1>12 DEF SelectUnmapped, InsertMapping, SelectDirty, ForgetMapping, StorePushed
<1>13. CASE EndSync \/ FailSync
  BY <1>13 DEF EndSync, FailSync, Quit, google
<1> QED
  BY <1>1, <1>2, <1>3, <1>4, <1>5, <1>6, <1>8, <1>9, <1>10, <1>11, <1>12, <1>13
     DEF Next, User, EventRequest, Job

\* A pull leaves the event of an open conflict alone, also when Google cancels it.
LEMMA PullRespectsConflicts ==
  ASSUME TypeOK, SyncInv, LinkInv, TombstoneInv, Next, edits' = edits, NEW x \in Ids, x \in open,
         NEW e \in Events, mapping[x].event = e
  PROVE  body'[e] = body[e]
<1> SUFFICES ASSUME body'[e] # body[e] PROVE FALSE
  OBVIOUS
<1>1. /\ pc = "apply" /\ Takes(cur) /\ cur.map.exists /\ cur.event = e /\ cur.id = x
  BY BodyChanges
<1>2. Effective(cur.map) = "ask" /\ ~cur.live
  BY <1>1, OpenAsks
<1>3. policy = "ask" /\ cur.map.pending = "none"
  <2>1. policy = "ask" /\ mapping[x].pending = "none"
    BY DEF SyncInv, OpenInv, SafeConflict
  <2>2. cur.map.pending = mapping[x].pending
    BY <1>1, InHandFacts DEF Applying, Pulling
  <2> QED
    BY <2>1, <2>2
<1>4. ~cur.map.dirty
  BY <1>1, <1>2 DEF Takes, Asks, Known, Contested
<1>5. cur.map.deleted
  BY <1>1, <1>4 DEF SyncInv, HandInv, Applying, Pulling
<1>6. SafeTombstone(cur.map) /\ cur.map.event = e /\ e # NoEvent
  <2>1. SafeTombstone(cur.map)
    BY <1>1 DEF TombstoneInv
  <2>2. cur.map.event = e
    BY <1>1 DEF LinkInv
  <2> QED
    BY <2>1, <2>2, CalendarAssumption
<1> QED
  BY <1>3, <1>5, <1>6 DEF SafeTombstone

\* While a conflict is shown to the user no job changes either version of the event: neither
\* a push, which has the older version, nor a pull, which asks again, nor the pull of a
\* cancellation.  Choosing "latest" is left out because an import that it leads to can be
\* interrupted with the mapping linked and still marked for deletion.
THEOREM ConflictsBlockOverwriting ==
  ASSUME "resolve" \notin BusyOperations, "latest" \notin Choices
  PROVE  Spec => ConflictBlocksOverwrite
<1>1. Init => TombstoneInv
  BY InitTombstones
<1>2. TypeOK /\ SyncInv /\ LinkInv /\ TombstoneInv /\ [Next]_vars => TombstoneInv'
  BY NextTombstones
<1>3. ASSUME TypeOK, SyncInv, LinkInv, TombstoneInv, [Next]_vars
      PROVE  [\A x \in Ids :
                x \in open /\ edits' = edits =>
                    /\ gver'[x] = gver[x]
                    /\ \A e \in Events : mapping[x].event = e => body'[e] = body[e]]_vars
  BY <1>3, PushRespectsConflicts, PullRespectsConflicts
<1>4. Spec => [](TypeOK /\ SyncInv /\ LinkInv)
  BY LinkInvariant
<1> QED
  BY <1>1, <1>2, <1>3, <1>4, PTL DEF Spec, ConflictBlocksOverwrite

-----------------------------------------------------------------------------
(* What the mappings call synchronized is equal on both sides.             *)

\* The places of a job.
LEMMA Places ==
  /\ "pull" \in Pulling /\ Applying \subseteq Pulling /\ Applying \subseteq Holding
  /\ {"apply", "mark", "unmap", "baseline", "relink", "link"} \subseteq Applying
  /\ {"unmapped", "post", "insert", "push", "forget", "store"} \subseteq Pushing
  /\ {"idle", "list"} \cap (Pulling \cup Pushing) = {} /\ Pulling \cap Pushing = {}
  /\ "pull" \notin Applying
BY DEF Pulling, Applying, Pushing, Holding

\* A step that changes no content and at most unlinks mappings.
LEMMA HomeFrame ==
  ASSUME HomeInv, UNCHANGED <<body, home, gver, gbody>>,
         \A x \in Ids : \/ mapping'[x].event = mapping[x].event
                        \/ mapping'[x].event \in home \cup {NoEvent}
  PROVE  HomeInv'
BY DEF HomeInv

\* Where nothing else changes, a mapping that is not written to still agrees.
LEMMA AgreesFrame ==
  ASSUME NEW x \in Ids, Agrees(x), UNCHANGED <<body, home, gver, glive, gbody>>,
         mapping'[x] = mapping[x]
  PROVE  Agrees(x)'
BY DEF Agrees

\* A job that starts or ends leaves no promise behind.
LEMMA OutsideJob ==
  ASSUME SettledInv, UNCHANGED <<local, mapping, google>>, pc' \in {"idle", "list"}
  PROVE  SettledInv'
<1>1. UNCHANGED <<body, home, gver, glive, gbody, mapping>>
  BY DEF local, google
<1>2. HomeInv' /\ \A x \in Ids : Agrees(x)'
  BY <1>1, HomeFrame, AgreesFrame DEF SettledInv
<1>3. ContentInv' /\ PostedInv' /\ WorkInv'
  BY Places DEF ContentInv, PostedInv, WorkInv
<1> QED
  BY <1>2, <1>3 DEF SettledInv

\* The change in hand is done with: its mapping is written, or left alone.
LEMMA DoneInHand ==
  ASSUME TypeOK, SettledInv, pc \in Applying, pc' = "pull", UNCHANGED <<local, google, inbox>>,
         NEW x \in Ids, x = cur.id, \A y \in Ids : y # x => mapping'[y] = mapping[y],
         mapping'[x].event = mapping[x].event \/ mapping'[x].event \in home \cup {NoEvent},
         glive[x] => mapping'[x].exists,
         Agrees(x)'
  PROVE  SettledInv'
<1>1. UNCHANGED <<body, home, gver, glive, gbody, inbox>>
  BY DEF local, google
<1>2. HomeInv'
  BY <1>1, HomeFrame DEF SettledInv
<1>3. \A y \in Ids : Agrees(y)'
  BY <1>1, AgreesFrame DEF SettledInv
<1>4. ContentInv'
  BY <1>1, Places DEF SettledInv, ContentInv, Seen
<1>5. PostedInv'
  <2> SUFFICES ASSUME NEW y \in Events, glive[y], y # x PROVE mapping'[y].exists \/ Waiting(y)'
    BY <1>1, Places DEF PostedInv, Ids
  <2>1. mapping[y].exists \/ Waiting(y) \/ InHand(y)
    BY Places DEF SettledInv, PostedInv
  <2>2. ~InHand(y)
    BY DEF InHand
  <2> QED
    BY <1>1, <2>1, <2>2 DEF Waiting, Ids
<1>6. WorkInv'
  BY DEF WorkInv
<1> QED
  BY <1>2, <1>3, <1>4, <1>5, <1>6 DEF SettledInv

\* The steps after which the change in hand is done with.
LEMMA DoneSettles ==
  ASSUME TypeOK, SyncInv, LinkInv, FreshInv, SettledInv,
         SkipChange \/ MarkConflict \/ KeepLocal \/ Unmap \/ Baseline \/ Link
  PROVE  SettledInv'
<1>1. pc \in Applying /\ pc' = "pull" /\ UNCHANGED <<local, google, inbox>>
  BY Places DEF SkipChange, MarkConflict, KeepLocal, Unmap, Baseline, Link, NextItem, Goto, Rest
<1>2. PICK x \in Ids : x = cur.id
  BY <1>1, Places, ItemTypes DEF TypeOK
<1>3. PICK m \in Mappings : m = mapping[x]
  BY DEF TypeOK
<1>4. /\ cur \in Items /\ cur.ver \in Nat /\ (cur.live \/ ~glive[x])
      /\ cur.map.exists = m.exists /\ cur.map.etag = m.etag
      /\ SafeMapping(x) /\ glive[x] \in BOOLEAN /\ gver[x] \in Nat
      /\ cur.event \in Events \cup {NoEvent}
  BY <1>1, <1>2, <1>3, InHandFacts, ItemTypes DEF TypeOK
<1>5. Agrees(x) /\ Seen(cur)
  BY <1>1 DEF SettledInv, ContentInv
<1>6. UNCHANGED <<body, home, gver, glive, gbody, inbox>>
  BY <1>1 DEF local, google
<1>7. ASSUME NEW n \in Mappings, mapping' = [mapping EXCEPT ![x] = n],
             n.event = m.event \/ n.event \in home \cup {NoEvent},
             glive[x] => n.exists,
             n.exists /\ ~n.dirty /\ ~n.deleted /\ glive[x] /\ n.etag = gver[x] =>
                 n.event \in home /\ body[n.event] = gbody[x]
      PROVE  SettledInv'
  <2>1. mapping'[x] = n /\ \A y \in Ids : y # x => mapping'[y] = mapping[y]
    BY <1>7, OneMapping
  <2>2. Agrees(x)'
    BY <1>6, <1>7, <2>1 DEF Agrees
  <2>3. mapping'[x].event = mapping[x].event \/ mapping'[x].event \in home \cup {NoEvent}
    BY <1>3, <1>7, <2>1
  <2>4. glive[x] => mapping'[x].exists
    BY <1>7, <2>1
  <2> QED
    BY <1>1, <1>2, <2>1, <2>2, <2>3, <2>4, DoneInHand
<1>8. CASE SkipChange
  <2>1. UNCHANGED mapping /\ (Known(cur) \/ (~cur.live /\ ~cur.map.exists))
    BY <1>8 DEF SkipChange
  <2>2. glive[x] => m.exists
    BY <1>4, <2>1 DEF Known
  <2>3. Agrees(x)'
    BY <1>5, <1>6, <2>1, AgreesFrame
  <2> QED
    BY <1>1, <1>2, <1>3, <2>1, <2>2, <2>3, DoneInHand
<1>9. ASSUME NEW n \in Mappings, mapping' = [mapping EXCEPT ![x] = n],
             n.exists = m.exists, n.event = m.event, n.etag = m.etag, n.dirty = m.dirty,
             n.deleted = m.deleted, m.exists
      PROVE  SettledInv'
  <2>1. n.exists /\ ~n.dirty /\ ~n.deleted /\ glive[x] /\ n.etag = gver[x] =>
            n.event \in home /\ body[n.event] = gbody[x]
    BY <1>3, <1>5, <1>9 DEF Agrees
  <2> QED
    BY <1>7, <1>9, <2>1
<1>10. CASE MarkConflict
  <2> DEFINE n == [m EXCEPT !.conflict = TRUE]
  <2>1. mapping' = [mapping EXCEPT ![x] = n] /\ pc = "mark"
    BY <1>2, <1>3, <1>10 DEF MarkConflict
  <2>2. m.exists
    BY <1>2, <1>3, <2>1 DEF SyncInv, HandInv, OpenInv, SafeConflict
  <2>3. n \in Mappings /\ n.exists = m.exists /\ n.event = m.event /\ n.etag = m.etag
        /\ n.dirty = m.dirty /\ n.deleted = m.deleted
    BY ConflictFields
  <2> HIDE DEF n
  <2> QED
    BY <1>9, <2>1, <2>2, <2>3
<1>11. NoMapping \in Mappings /\ ~NoMapping.exists /\ NoMapping.event = NoEvent
  BY NoMappingFields
<1>12. CASE KeepLocal
  <2>1. Keeps(cur)
    BY <1>12 DEF KeepLocal
  <2>2. CASE cur.live
    <3> DEFINE n == [m EXCEPT !.pending = "none"]
    <3>1. mapping' = [mapping EXCEPT ![x] = n]
      BY <1>2, <1>3, <1>12, <2>2 DEF KeepLocal
    <3>2. m.exists
      BY <1>4, <2>1 DEF Keeps, Contested
    <3>3. n \in Mappings /\ n.exists = m.exists /\ n.event = m.event /\ n.etag = m.etag
          /\ n.dirty = m.dirty /\ n.deleted = m.deleted
      BY PendingFields
    <3> HIDE DEF n
    <3> QED
      BY <1>9, <3>1, <3>2, <3>3
  <2>3. CASE ~cur.live
    <3>1. mapping' = [mapping EXCEPT ![x] = NoMapping]
      BY <1>2, <1>12, <2>3 DEF KeepLocal
    <3> QED
      BY <1>4, <1>7, <1>11, <2>3, <3>1
  <2> QED
    BY <2>2, <2>3
<1>13. CASE Unmap
  <2>1. mapping' = [mapping EXCEPT ![x] = NoMapping] /\ pc = "unmap"
    BY <1>2, <1>13 DEF Unmap
  <2>2. ~cur.live
    BY <2>1 DEF SyncInv, HandInv
  <2> QED
    BY <1>4, <1>7, <1>11, <2>1, <2>2
<1>14. CASE Baseline
  <2> DEFINE n == [m EXCEPT !.etag = cur.ver, !.dirty = FALSE, !.deleted = FALSE, !.pending = "none"]
  <2>1. pc = "baseline"
    BY <1>14 DEF Baseline
  <2>2. mapping' = [mapping EXCEPT ![x] = n]
    BY <1>2, <1>3, <1>14 DEF Baseline
  <2>3. n \in Mappings /\ n.exists = m.exists /\ n.event = m.event /\ n.etag = cur.ver
    BY <1>4, BaselineFields
  <2> HIDE DEF n
  <2>4. m.exists /\ m.event = cur.event /\ cur.event \in home /\ body[cur.event] = cur.body
    BY <1>2, <1>3, <1>4, <2>1 DEF SettledInv, ContentInv, SyncInv, HandInv
  <2>5. n.etag = gver[x] => n.event \in home /\ body[n.event] = gbody[x]
    BY <1>2, <1>5, <2>3, <2>4 DEF Seen
  <2>6. n.event \in home \cup {NoEvent} /\ n.exists
    BY <2>3, <2>4
  <2>7. n.exists /\ ~n.dirty /\ ~n.deleted /\ glive[x] /\ n.etag = gver[x] =>
            n.event \in home /\ body[n.event] = gbody[x]
    BY <2>5
  <2> QED
    BY <1>7, <2>2, <2>3, <2>6, <2>7
<1>15. CASE Link
  <2> DEFINE n == NewMapping(cur.event, cur.ver)
  <2>1. pc = "link"
    BY <1>15 DEF Link
  <2>2. mapping' = [mapping EXCEPT ![x] = n]
    BY <1>2, <1>15 DEF Link
  <2>3. n \in Mappings /\ n.exists /\ n.event = cur.event /\ n.etag = cur.ver
    BY <1>4, NewMappingFields
  <2> HIDE DEF n
  <2>4. cur.event \in home /\ body[cur.event] = cur.body
    BY <2>1 DEF SettledInv, ContentInv
  <2>5. n.etag = gver[x] => n.event \in home /\ body[n.event] = gbody[x]
    BY <1>2, <1>5, <2>3, <2>4 DEF Seen
  <2>6. n.event \in home \cup {NoEvent} /\ n.exists
    BY <2>3, <2>4
  <2>7. n.exists /\ ~n.dirty /\ ~n.deleted /\ glive[x] /\ n.etag = gver[x] =>
            n.event \in home /\ body[n.event] = gbody[x]
    BY <2>5
  <2> QED
    BY <1>7, <2>2, <2>3, <2>6, <2>7
<1> QED
  BY <1>8, <1>10, <1>12, <1>13, <1>14, <1>15

\* The change in hand becomes a conflict: nothing is written to either side.
LEMMA OpenConflictSettles ==
  ASSUME SettledInv, OpenConflict
  PROVE  SettledInv'
<1>1. /\ pc = "apply" /\ pc' = "mark" /\ UNCHANGED <<body, home, gver, glive, gbody, mapping, inbox, cur>>
  BY DEF OpenConflict, Goto, Rest, local, google
<1>2. HomeInv' /\ \A x \in Ids : Agrees(x)'
  BY <1>1, HomeFrame, AgreesFrame DEF SettledInv
<1>3. ContentInv'
  BY <1>1, Places DEF SettledInv, ContentInv, Seen
<1>4. PostedInv' /\ WorkInv'
  BY <1>1, Places DEF SettledInv, PostedInv, WorkInv, Waiting, InHand
<1> QED
  BY <1>2, <1>3, <1>4 DEF SettledInv

\* The mapping of a listed change is read.
LEMMA ReadSettles ==
  ASSUME TypeOK, SettledInv, NEW item \in inbox, ReadMapping(item)
  PROVE  SettledInv'
<1>1. /\ pc = "pull" /\ pc' = "apply" /\ inbox' = inbox \ {item}
      /\ UNCHANGED <<body, home, gver, glive, gbody, mapping>>
  BY DEF ReadMapping, Goto, Rest, local, google
<1>2. PICK x \in Ids : x = item.id
  BY ItemTypes DEF TypeOK
<1> DEFINE m == mapping[x]
           at == IF m.event = NoEvent THEN 0 ELSE updated[m.event]
           c == [item EXCEPT !.map = m, !.event = m.event, !.at = at]
<1>3. cur' = c
  BY <1>2 DEF ReadMapping
<1>4. item \in Items
  BY DEF TypeOK
<1> HIDE DEF m, at
<1>5. c.id = item.id /\ c.ver = item.ver /\ c.body = item.body
  BY <1>4 DEF Items
<1>6. cur'.id = x /\ cur'.ver = item.ver /\ cur'.body = item.body
  BY <1>2, <1>3, <1>5
<1>7. HomeInv' /\ \A y \in Ids : Agrees(y)'
  BY <1>1, HomeFrame, AgreesFrame DEF SettledInv
<1>8. ContentInv'
  <2>1. Seen(item)
    BY <1>1, Places DEF SettledInv, ContentInv
  <2>2. Seen(cur)'
    BY <1>1, <1>2, <1>6, <2>1 DEF Seen
  <2>3. \A i \in inbox' : Seen(i)'
    BY <1>1, Places DEF SettledInv, ContentInv, Seen
  <2> QED
    BY <1>1, <2>2, <2>3 DEF ContentInv
<1>9. PostedInv'
  <2> SUFFICES ASSUME NEW y \in Events, glive[y]
               PROVE  mapping[y].exists \/ Waiting(y)' \/ InHand(y)'
    BY <1>1, Places DEF PostedInv
  <2>1. mapping[y].exists \/ Waiting(y)
    BY <1>1, Places DEF SettledInv, PostedInv, InHand
  <2>2. Waiting(y) => y = x \/ Waiting(y)'
    BY <1>1, <1>2 DEF Waiting
  <2>3. y = x => InHand(y)'
    BY <1>1, <1>6, Places DEF InHand
  <2> QED
    BY <2>1, <2>2, <2>3
<1>10. WorkInv'
  BY <1>1 DEF WorkInv
<1> QED
  BY <1>7, <1>8, <1>9, <1>10 DEF SettledInv

\* A list shows every change since the token with its content, and every own event that
\* lacks a mapping.
LEMMA ListSettles ==
  ASSUME TypeOK, SyncInv, SettledInv, ListChanges
  PROVE  SettledInv'
<1>1. /\ pc = "list" /\ pc' = "pull" /\ (mark = 0 \/ ~expired)
      /\ UNCHANGED <<body, home, gver, glive, gbody, mapping>>
  BY DEF ListChanges, Goto, Rest, local, google
<1> DEFINE i(x) == [NoItem EXCEPT !.id = x, !.ver = gver[x], !.live = glive[x], !.body = gbody[x]]
<1>2. inbox' = {i(x) : x \in {y \in Ids : gver[y] > mark}}
  BY DEF ListChanges
<1>3. \A x \in Ids : i(x).id = x /\ i(x).ver = gver[x] /\ i(x).body = gbody[x]
  BY ListedFields
<1> HIDE DEF i
<1>4. \A x \in Ids : gver[x] \in Nat /\ mark \in Nat /\ token \in Nat
  BY DEF TypeOK
<1>5. HomeInv' /\ \A y \in Ids : Agrees(y)'
  BY <1>1, HomeFrame, AgreesFrame DEF SettledInv
<1>6. ContentInv'
  <2>1. ASSUME NEW item \in inbox' PROVE Seen(item)'
    <3>1. PICK x \in Ids : gver[x] > mark /\ item = i(x)
      BY <1>2
    <3>2. gbody[x] # 0
      BY <1>4, <3>1 DEF SettledInv, HomeInv
    <3> QED
      BY <1>1, <1>3, <3>1, <3>2 DEF Seen
  <2> QED
    BY <1>1, <2>1, Places DEF ContentInv
<1>7. PostedInv'
  <2> SUFFICES ASSUME NEW y \in Events, glive[y], ~mapping[y].exists PROVE Waiting(y)'
    BY <1>1, Places DEF PostedInv
  <2>1. y \in Ids /\ gver[y] # 0
    BY DEF SyncInv, ClockInv, Ids
  <2>2. gver[y] > mark
    <3>1. CASE mark = 0
      BY <1>4, <2>1, <3>1
    <3>2. CASE mark # 0
      <4>1. mark = token /\ ~expired
        BY <1>1, <3>2 DEF SyncInv, ClockInv
      <4>2. ~(gver[y] <= token)
        BY <2>1, <4>1 DEF SyncInv, CoverInv, Mapped
      <4> QED
        BY <1>4, <2>1, <4>1, <4>2
    <3> QED
      BY <3>1, <3>2
  <2>3. i(y) \in inbox'
    BY <1>2, <2>1, <2>2
  <2> QED
    BY <1>3, <2>1, <2>3 DEF Waiting
<1>8. WorkInv'
  BY <1>1 DEF WorkInv
<1> QED
  BY <1>5, <1>6, <1>7, <1>8 DEF SettledInv

\* Every own event of Google is mapped when the push begins.
LEMMA FinishSettles ==
  ASSUME SettledInv, FinishPull
  PROVE  SettledInv'
<1>1. /\ pc = "pull" /\ pc' = "unmapped" /\ inbox = {}
      /\ UNCHANGED <<body, home, gver, glive, gbody, mapping>>
  BY DEF FinishPull, Goto, Rest, local, google
<1>2. HomeInv' /\ \A y \in Ids : Agrees(y)'
  BY <1>1, HomeFrame, AgreesFrame DEF SettledInv
<1>3. ContentInv' /\ WorkInv'
  BY <1>1, Places DEF ContentInv, WorkInv
<1>4. PostedInv'
  BY <1>1, Places DEF SettledInv, PostedInv, Waiting, InHand
<1> QED
  BY <1>2, <1>3, <1>4 DEF SettledInv

\* The change in hand has the event of its mapping, and no other mapping has it.
LEMMA EventInHand ==
  ASSUME TypeOK, LinkInv, FreshInv, SettledInv, pc = "apply", NEW x \in Ids, x = cur.id
  PROVE  /\ cur.map = mapping[x] /\ cur.event = mapping[x].event
         /\ cur.event # NoEvent =>
               /\ cur.event \in home /\ cur.event \in Events /\ body[cur.event] # 0
               /\ \A y \in Ids : mapping[y].event = cur.event => y = x
<1>1. cur.map = mapping[x] /\ cur.event = mapping[x].event
  BY DEF FreshInv, LinkInv
<1>2. cur.event # NoEvent => cur.event \in home /\ body[cur.event] # 0
  BY <1>1 DEF SettledInv, HomeInv
<1>3. home \subseteq Events
  BY DEF TypeOK
<1> QED
  BY <1>1, <1>2, <1>3 DEF LinkInv

\* An event cancelled in Google goes, and its mapping no longer names it.
LEMMA DeletionSettles ==
  ASSUME TypeOK, SyncInv, LinkInv, FreshInv, SettledInv, ApplyDeletion
  PROVE  SettledInv'
<1>1. /\ pc = "apply" /\ pc' = "unmap" /\ ~cur.live
      /\ home' = home \ {cur.event} /\ UNCHANGED <<gver, glive, gbody, inbox, cur>>
      /\ body' = [e \in Events |-> IF e = cur.event THEN 0 ELSE body[e]]
  BY DEF ApplyDeletion, Goto, Rest, google
<1>2. PICK x \in Ids : x = cur.id
  BY <1>1, Places, ItemTypes DEF TypeOK
<1>3. ~glive[x] /\ glive[x] \in BOOLEAN
  BY <1>1, <1>2, Places, InHandFacts DEF TypeOK
<1>4. ASSUME NEW y \in Ids
      PROVE  /\ mapping'[y] = mapping[y] \/ mapping'[y].event = NoEvent
             /\ mapping'[y].exists = mapping[y].exists
             /\ y # x => mapping'[y] = mapping[y]
             /\ mapping'[y].event # NoEvent =>
                  mapping'[y].event = mapping[y].event /\ mapping[y].event # cur.event
  <2>1. mapping[y] \in Mappings
    BY DEF TypeOK
  <2> DEFINE n == [mapping[y] EXCEPT !.event = NoEvent]
  <2>2. n.event = NoEvent /\ n.exists = mapping[y].exists
    BY <2>1, EventFields
  <2>3. mapping'[y] = IF cur.event # NoEvent /\ y \in MappingOf(cur.event) THEN n ELSE mapping[y]
    BY DEF ApplyDeletion
  <2> HIDE DEF n
  <2>4. y \in MappingOf(cur.event) => mapping[y].event = cur.event
    BY DEF MappingOf
  <2>5. mapping[y].event # NoEvent => mapping[y].exists
    BY NoMappingFields DEF SyncInv, MappingInv, SafeMapping
  <2>6. mapping[y].event = cur.event /\ cur.event # NoEvent => y \in MappingOf(cur.event) /\ y = x
    BY <1>1, <1>2, <2>5, EventInHand DEF MappingOf
  <2> QED
    BY <2>2, <2>3, <2>4, <2>6
<1>5. HomeInv'
  <2>1. \A e \in home' : body'[e] # 0
    BY <1>1 DEF SettledInv, HomeInv, TypeOK
  <2>2. \A y \in Ids : mapping'[y].event # NoEvent => mapping'[y].event \in home'
    BY <1>1, <1>4 DEF SettledInv, HomeInv
  <2> QED
    BY <1>1, <2>1, <2>2 DEF SettledInv, HomeInv
<1>6. ASSUME NEW y \in Ids PROVE Agrees(y)'
  <2>1. CASE y = x
    BY <1>1, <1>3, <2>1 DEF Agrees
  <2>2. CASE y # x
    <3>1. mapping'[y] = mapping[y] /\ Agrees(y)
      BY <1>4, <2>2 DEF SettledInv
    <3>2. mapping[y].event # cur.event \/ mapping[y].event = NoEvent
      BY <1>4, <3>1
    <3>3. NoEvent \notin home /\ home \subseteq Events
      BY CalendarAssumption DEF TypeOK
    <3>4. mapping[y].event \in home =>
            mapping[y].event \in home' /\ body'[mapping[y].event] = body[mapping[y].event]
      BY <1>1, <3>2, <3>3
    <3> QED
      BY <1>1, <3>1, <3>4 DEF Agrees
  <2> QED
    BY <2>1, <2>2
<1>7. ContentInv'
  BY <1>1, Places DEF SettledInv, ContentInv, Seen
<1>8. PostedInv'
  BY <1>1, <1>4, Places DEF SettledInv, PostedInv, Waiting, InHand, Ids
<1>9. WorkInv'
  BY <1>1 DEF WorkInv
<1> QED
  BY <1>5, <1>6, <1>7, <1>8, <1>9 DEF SettledInv

\* Content written to an event that no other mapping has, and that is in the calendar then.
LEMMA ContentWritten ==
  ASSUME TypeOK, SettledInv, NEW x \in Ids, NEW e \in Events, NEW b \in Nat, b # 0,
         \A y \in Ids : mapping[y].event = e => y = x,
         body'[e] = b, \A d \in Events : d # e => body'[d] = body[d], home' = home \cup {e},
         UNCHANGED <<gver, glive, gbody, mapping>>
  PROVE  /\ HomeInv' /\ \A y \in Ids : y # x => Agrees(y)'
         /\ e \in home' /\ body'[e] = b
<1>1. body'[e] = b /\ \A d \in Events : d # e => body'[d] = body[d]
  OBVIOUS
<1>2. home \subseteq Events
  BY DEF TypeOK
<1>3. HomeInv'
  BY <1>1, <1>2 DEF SettledInv, HomeInv
<1>4. ASSUME NEW y \in Ids, y # x PROVE Agrees(y)'
  <2>1. mapping[y].event # e /\ Agrees(y)
    BY <1>4 DEF SettledInv
  <2>2. mapping[y].event \in home =>
          mapping[y].event \in home' /\ body'[mapping[y].event] = body[mapping[y].event]
    BY <1>1, <1>2, <2>1
  <2> QED
    BY <2>1, <2>2 DEF Agrees
<1> QED
  BY <1>1, <1>3, <1>4

\* What stays of the pull's promises while the change in hand is written.
LEMMA HandStays ==
  ASSUME SettledInv, pc \in Applying, pc' \in Applying, UNCHANGED <<gver, glive, gbody, inbox>>,
         \A y \in Ids : mapping'[y].exists = mapping[y].exists,
         cur'.id = cur.id, cur'.ver = cur.ver, cur'.body = cur.body,
         pc' \in {"relink", "link", "baseline"} => cur'.event \in home' /\ body'[cur'.event] = cur'.body,
         pc' = "baseline" => mapping'[cur'.id].event = cur'.event
  PROVE  ContentInv' /\ PostedInv' /\ WorkInv'
<1>1. pc \in Pulling /\ pc' \in Pulling /\ pc' \notin Pushing
  BY Places
<1>2. Seen(cur)'
  BY DEF SettledInv, ContentInv, Seen
<1>3. \A i \in inbox' : Seen(i)'
  BY <1>1 DEF SettledInv, ContentInv, Seen
<1>4. ContentInv'
  BY <1>2, <1>3 DEF ContentInv
<1>5. PostedInv'
  BY <1>1 DEF SettledInv, PostedInv, Waiting, InHand, Ids
<1>6. WorkInv'
  BY <1>1, Places DEF WorkInv
<1> QED
  BY <1>4, <1>5, <1>6

\* Google's content is written to the event of the change in hand.
LEMMA UpdateSettles ==
  ASSUME TypeOK, SyncInv, LinkInv, FreshInv, SettledInv, UpdateCanonical
  PROVE  SettledInv'
<1>1. /\ pc = "apply" /\ pc' = "baseline" /\ cur.event # NoEvent /\ Takes(cur) /\ cur.live
      /\ cur.map.exists /\ UNCHANGED <<gver, glive, gbody, mapping, inbox, cur>>
  BY DEF UpdateCanonical, Goto, Rest, google
<1>2. PICK x \in Ids : x = cur.id
  BY <1>1, Places, ItemTypes DEF TypeOK
<1>3. PICK e \in Events : e = cur.event
  BY <1>1, <1>2, EventInHand
<1>4. /\ cur.map = mapping[x] /\ mapping[x].event = e /\ body[e] # 0
      /\ \A y \in Ids : mapping[y].event = e => y = x
  BY <1>1, <1>2, <1>3, EventInHand
<1>5. body' = [body EXCEPT ![e] = cur.body] /\ home' = home \cup {e}
  BY <1>3, <1>4 DEF UpdateCanonical
<1>6. Seen(cur) /\ cur.body # 0 /\ cur.body \in Nat
  BY <1>1, Places, ItemTypes DEF SettledInv, ContentInv, Seen, TypeOK
<1>7. /\ HomeInv' /\ \A y \in Ids : y # x => Agrees(y)'
      /\ e \in home' /\ body'[e] = cur.body
  <2>1. PICK b \in Nat : b = cur.body
    BY <1>6
  <2>2. /\ b # 0 /\ body'[e] = b /\ \A d \in Events : d # e => body'[d] = body[d]
        /\ home' = home \cup {e} /\ UNCHANGED <<gver, glive, gbody, mapping>>
        /\ \A y \in Ids : mapping[y].event = e => y = x
    BY <1>1, <1>4, <1>5, <1>6, <2>1 DEF TypeOK
  <2>3. /\ HomeInv' /\ \A y \in Ids : y # x => Agrees(y)'
        /\ e \in home' /\ body'[e] = b
    BY <2>2, ContentWritten
  <2> QED
    BY <2>1, <2>3
<1>8. Agrees(x)'
  <2>1. cur.map.etag # cur.ver
    BY <1>1 DEF Takes, Known
  <2>2. /\ mapping[x].etag <= cur.ver /\ cur.ver <= gver[x]
        /\ cur.ver \in Nat /\ gver[x] \in Nat /\ mapping[x] \in Mappings
    BY <1>1, <1>2, Places, InHandFacts
  <2>3. mapping[x].etag \in Nat
    BY <2>2, MappingTypes
  <2>4. mapping[x].etag # gver[x]
    BY <1>4, <2>1, <2>2, <2>3
  <2> QED
    BY <1>1, <2>4 DEF Agrees
<1>9. ContentInv' /\ PostedInv' /\ WorkInv'
  <2>1. cur'.event \in home' /\ body'[cur'.event] = cur'.body /\ mapping'[cur'.id].event = cur'.event
    BY <1>1, <1>2, <1>3, <1>4, <1>7
  <2> QED
    BY <1>1, <2>1, Places, HandStays
<1> QED
  BY <1>7, <1>8, <1>9 DEF SettledInv

\* Google's event is imported under a new id.
LEMMA ImportSettles ==
  ASSUME TypeOK, SyncInv, LinkInv, FreshInv, SettledInv, NEW e \in Events, InsertCanonical(e)
  PROVE  SettledInv'
<1>1. /\ pc = "apply" /\ pc' \in {"relink", "link"} /\ updated[e] = 0
      /\ body' = [body EXCEPT ![e] = cur.body] /\ home' = home \cup {e}
      /\ cur' = [cur EXCEPT !.event = e]
      /\ UNCHANGED <<gver, glive, gbody, mapping, inbox>>
  BY DEF InsertCanonical, Goto, Rest, google
<1>2. PICK x \in Ids : x = cur.id
  BY <1>1, Places, ItemTypes DEF TypeOK
<1>3. cur \in Items /\ cur.body \in Nat
  BY <1>1, Places, ItemTypes DEF TypeOK
<1>4. cur'.id = cur.id /\ cur'.ver = cur.ver /\ cur'.body = cur.body /\ cur'.event = e
  BY <1>1, <1>3, ImportedFields
<1>5. \A y \in Ids : mapping[y].event # e
  BY <1>1, CalendarAssumption DEF LinkInv
<1>6. cur.body # 0
  BY <1>1, Places DEF SettledInv, ContentInv, Seen
<1>7. /\ HomeInv' /\ \A y \in Ids : y # x => Agrees(y)'
      /\ e \in home' /\ body'[e] = cur.body
  <2>1. PICK b \in Nat : b = cur.body
    BY <1>3
  <2>2. /\ b # 0 /\ body'[e] = b /\ \A d \in Events : d # e => body'[d] = body[d]
        /\ home' = home \cup {e} /\ UNCHANGED <<gver, glive, gbody, mapping>>
        /\ \A y \in Ids : mapping[y].event = e => y = x
    BY <1>1, <1>5, <1>6, <2>1 DEF TypeOK
  <2>3. /\ HomeInv' /\ \A y \in Ids : y # x => Agrees(y)'
        /\ e \in home' /\ body'[e] = b
    BY <2>2, ContentWritten
  <2> QED
    BY <2>1, <2>3
<1>8. Agrees(x)'
  <2>1. Agrees(x) /\ mapping[x].event # e /\ home \subseteq Events
    BY <1>5 DEF SettledInv, TypeOK
  <2>2. mapping[x].event \in home =>
          mapping[x].event \in home' /\ body'[mapping[x].event] = body[mapping[x].event]
    BY <1>1, <2>1 DEF TypeOK
  <2> QED
    BY <1>1, <2>1, <2>2 DEF Agrees
<1>9. pc \in Applying /\ pc' \in Applying /\ pc' # "baseline"
  BY <1>1, Places
<1>10. cur'.event \in home' /\ body'[cur'.event] = cur'.body
  BY <1>4, <1>7
<1>11. ContentInv' /\ PostedInv' /\ WorkInv'
  BY <1>1, <1>4, <1>9, <1>10, HandStays
<1> QED
  BY <1>7, <1>8, <1>11 DEF SettledInv

\* The mapping of a deleted event gets the imported one.
LEMMA RelinkSettles ==
  ASSUME TypeOK, SyncInv, SettledInv, Relink
  PROVE  SettledInv'
<1>1. pc = "relink" /\ pc' = "baseline" /\ UNCHANGED <<body, home, gver, glive, gbody, inbox, cur>>
  BY DEF Relink, Goto, Rest, local, google
<1>2. PICK x \in Ids : x = cur.id
  BY <1>1, Places, ItemTypes DEF TypeOK
<1>3. PICK m \in Mappings : m = mapping[x]
  BY DEF TypeOK
<1>4. /\ cur.event \in home /\ body[cur.event] = cur.body /\ Seen(cur)
      /\ cur.event \in Events
  BY <1>1, Places DEF SettledInv, ContentInv, TypeOK
<1> DEFINE n == [m EXCEPT !.event = cur.event]
<1>5. mapping' = [mapping EXCEPT ![x] = n]
  BY <1>2, <1>3 DEF Relink
<1>6. n \in Mappings /\ n.exists = m.exists /\ n.event = cur.event /\ n.etag = m.etag
  BY <1>4, EventFields
<1> HIDE DEF n
<1>7. mapping'[x] = n /\ \A y \in Ids : y # x => mapping'[y] = mapping[y]
  BY <1>5, <1>6, OneMapping
<1>8. HomeInv'
  BY <1>1, <1>4, <1>6, <1>7, HomeFrame DEF SettledInv
<1>9. Agrees(x)'
  <2>1. /\ m.etag <= cur.ver /\ cur.ver <= gver[x] /\ cur.ver \in Nat /\ gver[x] \in Nat
    BY <1>1, <1>2, <1>3, Places, InHandFacts
  <2>2. m.etag \in Nat
    BY MappingTypes
  <2>3. m.etag = gver[x] => cur.ver = gver[x]
    BY <2>1, <2>2
  <2>4. m.etag = gver[x] => body[cur.event] = gbody[x]
    BY <1>2, <1>4, <2>3 DEF Seen
  <2> QED
    BY <1>1, <1>4, <1>6, <1>7, <2>4 DEF Agrees
<1>10. \A y \in Ids : Agrees(y)'
  BY <1>1, <1>7, <1>9, AgreesFrame DEF SettledInv
<1>11. ContentInv' /\ PostedInv' /\ WorkInv'
  <2>1. \A y \in Ids : mapping'[y].exists = mapping[y].exists
    BY <1>3, <1>6, <1>7
  <2>2. cur'.event \in home' /\ body'[cur'.event] = cur'.body /\ mapping'[cur'.id].event = cur'.event
    BY <1>1, <1>2, <1>4, <1>6, <1>7
  <2> QED
    BY <1>1, <2>1, <2>2, Places, HandStays
<1> QED
  BY <1>8, <1>10, <1>11 DEF SettledInv

-----------------------------------------------------------------------------
\* A write in Google: what is known of the event is of an earlier version.
LEMMA WriteSettles ==
  ASSUME TypeOK, SyncInv, SettledInv, NEW x \in Ids, Writes(x), UNCHANGED <<local, mapping>>,
         gbody'[x] # 0, \A y \in Ids : y # x => gbody'[y] = gbody[y]
  PROVE  HomeInv' /\ \A y \in Ids : Agrees(y)'
<1>1. UNCHANGED <<body, home, mapping>>
  BY DEF local
<1>2. HomeInv'
  BY <1>1 DEF SettledInv, HomeInv, Writes
<1>3. ASSUME NEW y \in Ids PROVE Agrees(y)'
  <2>1. CASE y = x
    <3>1. mapping[x].etag <= gver[x] /\ gver[x] <= now
      BY DEF SyncInv, MappingInv, SafeMapping, ClockInv
    <3>2. mapping[x].etag \in Nat /\ gver[x] \in Nat /\ now \in Nat
      BY MappingTypes DEF TypeOK
    <3>3. mapping[x].etag # gver'[x]
      BY <3>1, <3>2 DEF Writes
    <3> QED
      BY <1>1, <2>1, <3>3 DEF Agrees
  <2>2. CASE y # x
    BY <1>1, <2>2 DEF SettledInv, Agrees, Writes
  <2> QED
    BY <2>1, <2>2
<1> QED
  BY <1>2, <1>3

\* Google's users write at any time, to no event that Prosepect is still to create.
LEMMA GoogleUserSettles ==
  ASSUME TypeOK, SyncInv, SettledInv, NEW x \in Ids, Writes(x),
         UNCHANGED <<local, mapping, pc, inbox, cur, work>>,
         gbody'[x] # 0, \A y \in Ids : y # x => gbody'[y] = gbody[y],
         glive'[x] => glive[x] \/ x \notin Events
  PROVE  SettledInv'
<1>1. HomeInv' /\ \A y \in Ids : Agrees(y)'
  BY WriteSettles
<1>2. UNCHANGED <<body, home, mapping>>
  BY DEF local
<1>3. \A y \in Ids : gver[y] \in Nat /\ gver[y] <= now
  BY DEF TypeOK, SyncInv, ClockInv
<1>4. now \in Nat /\ gver'[x] = now + 1
  BY DEF TypeOK, Writes
<1>5. ASSUME NEW i \in Items, i.ver <= gver[i.id] PROVE i.id = x => i.ver # gver'[i.id]
  <2>1. i.ver \in Nat /\ i.id \in Ids
    BY ItemTypes
  <2> QED
    BY <1>3, <1>4, <1>5, <2>1
<1>6. ASSUME NEW i \in Items, i.ver <= gver[i.id], Seen(i) PROVE Seen(i)'
  <2>1. i.id \in Ids
    BY ItemTypes
  <2>2. CASE i.id = x
    BY <1>5, <1>6, <2>2 DEF Seen
  <2>3. CASE i.id # x
    BY <1>6, <2>1, <2>3 DEF Seen, Writes
  <2> QED
    BY <2>2, <2>3
<1>7. ContentInv'
  <2>1. ASSUME pc \in Pulling, NEW i \in inbox PROVE Seen(i)'
    <3>1. i \in Items /\ i.ver <= gver[i.id] /\ Seen(i)
      BY <2>1 DEF TypeOK, SyncInv, PullInv, Listed, SettledInv, ContentInv
    <3> QED
      BY <1>6, <3>1
  <2>2. ASSUME pc \in Applying PROVE Seen(cur)'
    <3>1. cur \in Items /\ cur.ver <= gver[cur.id] /\ Seen(cur)
      BY <2>2, Places DEF TypeOK, SyncInv, PullInv, Listed, SettledInv, ContentInv
    <3>2. PICK i \in Items : i = cur
      BY <3>1
    <3>3. Seen(i)'
      BY <1>6, <3>1, <3>2
    <3> QED
      BY <3>2, <3>3 DEF Seen
  <2> QED
    BY <1>2, <2>1, <2>2 DEF SettledInv, ContentInv
<1>8. PostedInv'
  BY <1>2 DEF SettledInv, PostedInv, Waiting, InHand, Writes, Ids
<1>9. WorkInv'
  <2>1. ASSUME pc \in {"insert", "store"}
        PROVE  /\ cur.ver = gver'[cur.id] => cur.ver = gver[cur.id] /\ gbody'[cur.id] = gbody[cur.id]
               /\ cur.ver = gver'[cur.id] => glive'[cur.id] = glive[cur.id]
    <3>1. cur \in Items /\ cur.ver <= gver[cur.id] /\ cur.id \in Ids
      BY <2>1, ItemTypes DEF TypeOK, Holding, SyncInv, PushInv
    <3> QED
      BY <1>5, <3>1 DEF Writes
  <2> QED
    BY <1>2, <2>1 DEF SettledInv, WorkInv
<1> QED
  BY <1>1, <1>7, <1>8, <1>9 DEF SettledInv

\* The rows without a mapping are read to be posted.
LEMMA SelectUnmappedSettles ==
  ASSUME TypeOK, SettledInv, SelectUnmapped
  PROVE  SettledInv'
<1>1. pc = "unmapped" /\ pc' = "post" /\ UNCHANGED <<body, home, gver, glive, gbody, mapping>>
  BY DEF SelectUnmapped, Goto, Rest, local, google
<1> DEFINE i(e) == [NoItem EXCEPT !.id = e, !.event = e, !.body = body[e]]
<1>2. work' = {i(e) : e \in {d \in home : MappingOf(d) = {}}}
  BY DEF SelectUnmapped
<1>3. \A e \in home : i(e).id = e /\ i(e).event = e /\ i(e).body = body[e]
  BY UnmappedFields
<1> HIDE DEF i
<1>4. HomeInv' /\ \A y \in Ids : Agrees(y)'
  BY <1>1, HomeFrame, AgreesFrame DEF SettledInv
<1>5. ContentInv' /\ PostedInv'
  BY <1>1, Places DEF SettledInv, ContentInv, PostedInv
<1>6. WorkInv'
  BY <1>1, <1>2, <1>3 DEF WorkInv
<1> QED
  BY <1>4, <1>5, <1>6 DEF SettledInv

\* The marked mappings are read to be pushed, with the content of their events.
LEMMA SelectDirtySettles ==
  ASSUME TypeOK, SettledInv, SelectDirty
  PROVE  SettledInv'
<1>1. pc = "post" /\ pc' = "push" /\ UNCHANGED <<body, home, gver, glive, gbody, mapping>>
  BY DEF SelectDirty, Goto, Rest, local, google
<1> DEFINE i(x) == [NoItem EXCEPT !.id = x, !.map = mapping[x], !.ver = mapping[x].etag,
                    !.event = IF mapping[x].deleted THEN NoEvent ELSE mapping[x].event,
                    !.body = IF mapping[x].event = NoEvent THEN 0 ELSE body[mapping[x].event]]
<1>2. work' = {i(x) : x \in {y \in Ids : Pushable(y)}}
  BY DEF SelectDirty
<1>3. \A x \in Ids :
        /\ i(x).id = x
        /\ i(x).event # NoEvent => i(x).event = mapping[x].event /\ i(x).body = body[i(x).event]
  BY DirtyFields
<1> HIDE DEF i
<1>4. HomeInv' /\ \A y \in Ids : Agrees(y)'
  BY <1>1, HomeFrame, AgreesFrame DEF SettledInv
<1>5. ContentInv' /\ PostedInv'
  BY <1>1, Places DEF SettledInv, ContentInv, PostedInv
<1>6. WorkInv'
  BY <1>1, <1>2, <1>3 DEF WorkInv
<1> QED
  BY <1>4, <1>5, <1>6 DEF SettledInv

\* What a write in Google does to the contents.
LEMMA WriteBody ==
  ASSUME TypeOK, NEW x \in Ids, NEW live, NEW content, GoogleWrites(x, live, content)
  PROVE  /\ gbody'[x] = content /\ gver'[x] = now' /\ glive'[x] = live
         /\ \A y \in Ids : y # x => gbody'[y] = gbody[y]
BY DEF GoogleWrites, TypeOK

\* An event is created in Google, or its id is taken there and already has a mapping.
LEMMA PostSettles ==
  ASSUME TypeOK, SyncInv, SettledInv, NEW item \in work, PostEvent(item)
  PROVE  SettledInv'
<1>1. /\ pc = "post" /\ pc' = "insert" /\ work' = work \ {item}
      /\ cur' = [item EXCEPT !.ver = gver'[item.id]]
      /\ UNCHANGED <<local, body, home, mapping>>
  BY DEF PostEvent, Goto, local
<1>2. item \in Items /\ item.id \in Ids /\ item.event \in Events \cup {NoEvent} /\ item.body \in Nat
  BY ItemTypes DEF TypeOK
<1>3. item.id = item.event /\ item.event \in home /\ item.body = body[item.event]
  BY <1>1 DEF SettledInv, WorkInv
<1>4. PICK x \in Ids : x = item.id
  BY <1>2
<1>5. x \in Events /\ item.body # 0 /\ item.body = body[x] /\ x \in home
  BY <1>3, <1>4 DEF SettledInv, HomeInv, TypeOK
<1>6. ASSUME NEW v \in Nat, v = gver'[x]
      PROVE  cur'.id = x /\ cur'.ver = v /\ cur'.event = x
  BY <1>1, <1>2, <1>3, <1>4, <1>6, AnsweredFields
<1>7. ContentInv'
  BY <1>1, Places DEF ContentInv
<1>8. CASE gver[x] = 0
  <2>1. GoogleWrites(x, TRUE, item.body)
    BY <1>4, <1>8 DEF PostEvent
  <2>2. Writes(x)
    BY <1>2, <1>8, <2>1, WriteFacts
  <2>3. gbody'[x] = item.body /\ gver'[x] \in Nat /\ \A y \in Ids : y # x => gbody'[y] = gbody[y]
    <3>1. gbody'[x] = item.body /\ \A y \in Ids : y # x => gbody'[y] = gbody[y]
      BY <2>1, WriteBody
    <3> QED
      BY <2>2, <3>1 DEF Writes
  <2>4. HomeInv' /\ \A y \in Ids : Agrees(y)'
    BY <1>1, <1>5, <2>2, <2>3, WriteSettles
  <2>5. cur'.id = x /\ cur'.event = x
    BY <1>6, <2>3
  <2>6. PostedInv'
    BY <1>1, <2>2, <2>5, Places DEF SettledInv, PostedInv, Writes, Ids
  <2>7. WorkInv'
    BY <1>1, <1>5, <2>3, <2>5 DEF SettledInv, WorkInv
  <2> QED
    BY <1>7, <2>4, <2>6, <2>7 DEF SettledInv
<1>9. CASE gver[x] # 0
  <2>1. UNCHANGED <<gver, glive, gbody>>
    BY <1>4, <1>9 DEF PostEvent, google
  <2>2. HomeInv' /\ \A y \in Ids : Agrees(y)'
    BY <1>1, <2>1, HomeFrame, AgreesFrame DEF SettledInv
  <2>3. cur'.id = x /\ cur'.event = x
    BY <1>6, <2>1 DEF TypeOK
  <2>4. glive[x] => mapping[x].exists
    BY <1>1, <1>5, Places DEF SettledInv, PostedInv
  <2>5. PostedInv'
    BY <1>1, <2>1, Places DEF SettledInv, PostedInv
  <2>6. WorkInv'
    BY <1>1, <1>5, <2>1, <2>3, <2>4 DEF SettledInv, WorkInv
  <2> QED
    BY <1>7, <2>2, <2>5, <2>6 DEF SettledInv
<1> QED
  BY <1>8, <1>9

\* A posted event gets its mapping.
LEMMA InsertSettles ==
  ASSUME TypeOK, SyncInv, SettledInv, InsertMapping
  PROVE  SettledInv'
<1>1. /\ pc = "insert" /\ pc' = "post" /\ Insertable(cur.id, cur.event)
      /\ UNCHANGED <<body, home, gver, glive, gbody, work>>
  BY DEF InsertMapping, Goto, Rest, local, google
<1>2. PICK x \in Ids : x = cur.id
  BY <1>1, ItemTypes DEF TypeOK, Holding
<1> DEFINE n == NewMapping(cur.event, cur.ver)
<1>3. mapping' = [mapping EXCEPT ![x] = n]
  BY <1>2 DEF InsertMapping
<1>4. n \in Mappings /\ n.exists /\ n.event = cur.event /\ n.etag = cur.ver
  <2>1. cur.event \in Events \cup {NoEvent} /\ cur.ver \in Nat
    BY ItemTypes DEF TypeOK
  <2> QED
    BY <2>1, NewMappingFields
<1> HIDE DEF n
<1>5. mapping'[x] = n /\ \A y \in Ids : y # x => mapping'[y] = mapping[y]
  BY <1>3, <1>4, OneMapping
<1>6. /\ cur.event \in home /\ ~mapping[x].exists
      /\ cur.ver = gver[x] /\ glive[x] => gbody[x] = body[cur.event]
  BY <1>1, <1>2 DEF SettledInv, WorkInv, Insertable
<1>7. HomeInv'
  BY <1>1, <1>4, <1>5, <1>6, HomeFrame DEF SettledInv
<1>8. Agrees(x)'
  BY <1>1, <1>4, <1>5, <1>6 DEF Agrees
<1>9. \A y \in Ids : Agrees(y)'
  BY <1>1, <1>5, <1>8, AgreesFrame DEF SettledInv
<1>10. ContentInv'
  BY <1>1, Places DEF ContentInv
<1>11. PostedInv'
  BY <1>1, <1>2, <1>4, <1>5, Places DEF SettledInv, PostedInv, Ids
<1>12. WorkInv'
  BY <1>1 DEF SettledInv, WorkInv
<1> QED
  BY <1>7, <1>9, <1>10, <1>11, <1>12 DEF SettledInv

\* A write of the push in Google.
LEMMA PushSettles ==
  ASSUME TypeOK, SyncInv, SettledInv, NEW item \in work, PushDelete(item) \/ PushUpdate(item)
  PROVE  SettledInv'
<1>1. /\ pc = "push" /\ pc' \in {"forget", "store"} /\ work' = work \ {item}
      /\ UNCHANGED <<local, body, home, mapping>> /\ Accepts(item)
  BY DEF PushDelete, PushUpdate, Goto, local
<1>2. /\ item \in Items /\ item.id \in Ids /\ item.event \in Events \cup {NoEvent}
      /\ item.body \in Nat
  BY ItemTypes DEF TypeOK
<1>3. PICK x \in Ids : x = item.id
  BY <1>2
<1>4. glive[x] /\ gver[x] # 0 /\ gbody[x] # 0 /\ gbody[x] \in Nat /\ mapping[x].exists
  BY <1>1, <1>3 DEF Accepts, SyncInv, ClockInv, PushInv, SettledInv, HomeInv, TypeOK
<1>5. ContentInv'
  BY <1>1, Places DEF ContentInv
<1>6. ASSUME Writes(x) PROVE PostedInv'
  BY <1>1, <1>4, <1>6, Places DEF SettledInv, PostedInv, Writes, Ids
<1>7. \A i \in work' : i.event # NoEvent =>
          mapping[i.id].event = i.event /\ i.body = body[i.event]
  BY <1>1 DEF SettledInv, WorkInv
<1>8. CASE PushDelete(item)
  <2>1. GoogleWrites(x, FALSE, gbody[x]) /\ pc' = "forget"
    BY <1>3, <1>8 DEF PushDelete, Goto
  <2>2. Writes(x)
    BY <1>4, <2>1, WriteFacts
  <2>3. gbody'[x] = gbody[x] /\ \A y \in Ids : y # x => gbody'[y] = gbody[y]
    BY <2>1, WriteBody
  <2>4. HomeInv' /\ \A y \in Ids : Agrees(y)'
    BY <1>1, <1>4, <2>2, <2>3, WriteSettles
  <2>5. WorkInv'
    BY <1>1, <1>7, <2>1 DEF WorkInv
  <2> QED
    BY <1>5, <1>6, <2>2, <2>4, <2>5 DEF SettledInv
<1>9. CASE PushUpdate(item)
  <2>1. GoogleWrites(x, TRUE, item.body) /\ pc' = "store" /\ item.event # NoEvent
    BY <1>3, <1>9 DEF PushUpdate, Goto
  <2>2. Writes(x)
    BY <1>2, <1>4, <2>1, WriteFacts
  <2>3. gbody'[x] = item.body /\ \A y \in Ids : y # x => gbody'[y] = gbody[y]
    BY <2>1, WriteBody
  <2>4. /\ mapping[x].event = item.event /\ item.event \in home /\ item.body = body[item.event]
        /\ item.body # 0
    BY <1>1, <1>3, <2>1 DEF SettledInv, WorkInv, HomeInv
  <2>5. HomeInv' /\ \A y \in Ids : Agrees(y)'
    BY <1>1, <2>2, <2>3, <2>4, WriteSettles
  <2>6. cur'.id = x
    <3>1. PICK v \in Nat : v = now'
      BY <1>2, <2>1, WriteTypes
    <3>2. cur' = [item EXCEPT !.ver = v]
      BY <1>9, <3>1 DEF PushUpdate
    <3> QED
      BY <1>2, <1>3, <3>2, AnsweredFields
  <2>7. WorkInv'
    BY <1>1, <1>7, <2>1, <2>3, <2>4, <2>6 DEF WorkInv
  <2> QED
    BY <1>5, <1>6, <2>2, <2>5, <2>7 DEF SettledInv
<1> QED
  BY <1>8, <1>9

\* After a DELETE the mapping goes, after a PUT it gets the new version.
LEMMA PushedSettles ==
  ASSUME TypeOK, SyncInv, SettledInv, ForgetMapping \/ StorePushed
  PROVE  SettledInv'
<1>1. /\ pc \in {"forget", "store"} /\ pc' = "push"
      /\ UNCHANGED <<body, home, gver, glive, gbody, work>>
  BY DEF ForgetMapping, StorePushed, Goto, Rest, local, google
<1>2. PICK x \in Ids : x = cur.id
  BY <1>1, ItemTypes DEF TypeOK, Holding
<1>3. ASSUME NEW n \in Mappings, mapping' = [mapping EXCEPT ![x] = n],
             n.event = mapping[x].event \/ n.event = NoEvent,
             glive[x] => n.exists,
             n.exists /\ ~n.dirty /\ ~n.deleted /\ glive[x] /\ n.etag = gver[x] =>
                 n.event \in home /\ body[n.event] = gbody[x]
      PROVE  SettledInv'
  <2>1. mapping'[x] = n /\ \A y \in Ids : y # x => mapping'[y] = mapping[y]
    BY <1>3, OneMapping
  <2>2. HomeInv'
    BY <1>1, <1>3, <2>1, HomeFrame DEF SettledInv
  <2>3. Agrees(x)'
    BY <1>1, <1>3, <2>1 DEF Agrees
  <2>4. \A y \in Ids : Agrees(y)'
    BY <1>1, <2>1, <2>3, AgreesFrame DEF SettledInv
  <2>5. ContentInv'
    BY <1>1, Places DEF ContentInv
  <2>6. PostedInv'
    BY <1>1, <1>3, <2>1, Places DEF SettledInv, PostedInv, Ids
  <2>7. \A i \in work : i.id \in Ids /\ i.id # x
    BY <1>1, <1>2, ItemTypes DEF SyncInv, PushInv, TypeOK
  <2>8. WorkInv'
    BY <1>1, <2>1, <2>7 DEF SettledInv, WorkInv
  <2> QED
    BY <2>2, <2>4, <2>5, <2>6, <2>8 DEF SettledInv
<1>4. CASE ForgetMapping
  <2>1. mapping' = [mapping EXCEPT ![x] = NoMapping] /\ ~glive[x]
    BY <1>2, <1>4 DEF ForgetMapping, SyncInv, PushInv
  <2> QED
    BY <1>3, <2>1, NoMappingFields
<1>5. CASE StorePushed
  <2>1. PICK m \in Mappings : m = mapping[x]
    BY DEF TypeOK
  <2> DEFINE n == [m EXCEPT !.etag = cur.ver, !.dirty = FALSE]
  <2>2. mapping' = [mapping EXCEPT ![x] = n] /\ pc = "store"
    BY <1>2, <1>5, <2>1 DEF StorePushed
  <2>3. n \in Mappings /\ n.exists = m.exists /\ n.event = m.event /\ n.etag = cur.ver
    BY ItemTypes, StoredFields DEF TypeOK
  <2> HIDE DEF n
  <2>4. m.exists /\ m.event \in home /\ (cur.ver = gver[x] => gbody[x] = body[m.event])
    BY <1>2, <2>1, <2>2 DEF SettledInv, WorkInv, SyncInv, PushInv
  <2>5. n.etag = gver[x] => n.event \in home /\ body[n.event] = gbody[x]
    BY <2>3, <2>4
  <2> QED
    BY <1>3, <2>1, <2>2, <2>3, <2>4, <2>5
<1> QED
  BY <1>4, <1>5

\* Between jobs, only the contents and the mappings matter.
LEMMA BetweenJobs ==
  ASSUME pc' = "idle", HomeInv', \A y \in Ids : Agrees(y)'
  PROVE  SettledInv'
<1>1. ContentInv' /\ PostedInv' /\ WorkInv'
  BY Places DEF ContentInv, PostedInv, WorkInv
<1> QED
  BY <1>1 DEF SettledInv

\* A mapping that a request does not mark is not one of the event.
LEMMA NotOfEvent ==
  ASSUME SyncInv, NEW e \in Events, NEW y \in Ids, y \notin MappingOf(e)
  PROVE  mapping[y].event # e
BY NoMappingFields, CalendarAssumption DEF SyncInv, MappingInv, SafeMapping, MappingOf

\* An event is created, edited or moved into the calendar, and its mapping marked.
LEMMA ChangeSettles ==
  ASSUME TypeOK, SyncInv, SettledInv, NEW e \in Events, MarkChanged(e), UNCHANGED google,
         body'[e] # 0, \A d \in Events : d # e => body'[d] = body[d], home' = home \cup {e}
  PROVE  HomeInv' /\ \A y \in Ids : Agrees(y)'
<1>1. UNCHANGED <<gver, glive, gbody>> /\ home \subseteq Events
  BY DEF google, TypeOK
<1>2. ASSUME NEW y \in Ids
      PROVE  /\ mapping'[y].event = mapping[y].event
             /\ mapping'[y].dirty \/ (mapping'[y] = mapping[y] /\ mapping[y].event # e)
  <2>1. mapping[y] \in Mappings
    BY DEF TypeOK
  <2> DEFINE c == [mapping[y] EXCEPT !.dirty = TRUE, !.deleted = FALSE]
  <2>2. c.event = mapping[y].event /\ c.dirty
    BY <2>1, MarkedFields
  <2>3. mapping'[y] = IF y \in MappingOf(e) THEN c ELSE mapping[y]
    BY DEF MarkChanged
  <2> HIDE DEF c
  <2> QED
    BY <2>2, <2>3, NotOfEvent
<1>3. HomeInv'
  BY <1>1, <1>2 DEF SettledInv, HomeInv
<1>4. ASSUME NEW y \in Ids PROVE Agrees(y)'
  <2>1. CASE mapping'[y].dirty
    BY <2>1 DEF Agrees
  <2>2. CASE mapping'[y] = mapping[y] /\ mapping[y].event # e
    <3>1. Agrees(y)
      BY DEF SettledInv
    <3>2. mapping[y].event \in home =>
            mapping[y].event \in home' /\ body'[mapping[y].event] = body[mapping[y].event]
      BY <1>1, <2>2
    <3> QED
      BY <1>1, <2>2, <3>1, <3>2 DEF Agrees
  <2> QED
    BY <1>2, <2>1, <2>2
<1> QED
  BY <1>3, <1>4

\* An event is deleted or moved away, and its mapping unlinked and marked.
LEMMA RemovalSettles ==
  ASSUME TypeOK, SyncInv, SettledInv, NEW e \in Events, MarkDeleted(e), UNCHANGED google,
         \A d \in Events : d # e => body'[d] = body[d], home' = home \ {e}
  PROVE  HomeInv' /\ \A y \in Ids : Agrees(y)'
<1>1. UNCHANGED <<gver, glive, gbody>> /\ home \subseteq Events
  BY DEF google, TypeOK
<1>2. ASSUME NEW y \in Ids
      PROVE  \/ mapping'[y].deleted /\ mapping'[y].event = NoEvent
             \/ mapping'[y] = mapping[y] /\ mapping[y].event # e
  <2>1. mapping[y] \in Mappings
    BY DEF TypeOK
  <2> DEFINE c == [mapping[y] EXCEPT !.dirty = FALSE, !.deleted = TRUE, !.event = NoEvent]
  <2>2. c.event = NoEvent /\ c.deleted
    BY <2>1, MarkedFields
  <2>3. mapping'[y] = IF y \in MappingOf(e) THEN c ELSE mapping[y]
    BY DEF MarkDeleted
  <2> HIDE DEF c
  <2> QED
    BY <2>2, <2>3, NotOfEvent
<1>3. HomeInv'
  BY <1>1, <1>2 DEF SettledInv, HomeInv
<1>4. ASSUME NEW y \in Ids PROVE Agrees(y)'
  <2>1. CASE mapping'[y].deleted
    BY <2>1 DEF Agrees
  <2>2. CASE mapping'[y] = mapping[y] /\ mapping[y].event # e
    <3>1. Agrees(y)
      BY DEF SettledInv
    <3>2. mapping[y].event \in home =>
            mapping[y].event \in home' /\ body'[mapping[y].event] = body[mapping[y].event]
      BY <1>1, <2>2
    <3> QED
      BY <1>1, <2>2, <3>1, <3>2 DEF Agrees
  <2> QED
    BY <1>2, <2>1, <2>2
<1> QED
  BY <1>3, <1>4

\* A resolved conflict leaves a mark, or forgets the recorded version.
LEMMA ResolutionSettles ==
  ASSUME TypeOK, SyncInv, SettledInv, NEW x \in Ids, NEW choice \in Choices,
         ResolveConflict(x, choice)
  PROVE  HomeInv' /\ \A y \in Ids : Agrees(y)'
<1>1. UNCHANGED <<body, home, gver, glive, gbody>>
  BY DEF ResolveConflict, local, google
<1>2. PICK m \in Mappings : m = mapping[x]
  BY DEF TypeOK
<1> DEFINE g == [m EXCEPT !.conflict = FALSE, !.dirty = FALSE, !.deleted = FALSE, !.etag = 0,
                          !.pending = choice]
           d == [m EXCEPT !.conflict = FALSE, !.dirty = TRUE, !.pending = choice]
           n == IF choice = "google" THEN g ELSE d
<1>3. mapping' = [mapping EXCEPT ![x] = n]
  BY <1>2 DEF ResolveConflict
<1>4. choice \in Resolutions
  BY CalendarAssumption
<1>5. /\ g \in Mappings /\ d \in Mappings /\ g.event = m.event /\ g.etag = 0 /\ g.exists = m.exists
      /\ d.event = m.event /\ d.dirty
  <2>1. g \in Mappings /\ d \in Mappings
    BY <1>4, ResolvedFields
  <2>2. g.event = m.event /\ g.etag = 0 /\ g.exists = m.exists
    BY DEF Mappings
  <2>3. d.event = m.event /\ d.dirty
    BY DEF Mappings
  <2> QED
    BY <2>1, <2>2, <2>3
<1> HIDE DEF g, d
<1>6. n \in Mappings /\ n.event = m.event /\ ((n.etag = 0 /\ n.exists = m.exists) \/ n.dirty)
  BY <1>5
<1> HIDE DEF n
<1>7. mapping'[x] = n /\ \A y \in Ids : y # x => mapping'[y] = mapping[y]
  BY <1>3, <1>6, OneMapping
<1>8. HomeInv'
  BY <1>1, <1>2, <1>6, <1>7, HomeFrame DEF SettledInv
<1>9. Agrees(x)'
  <2>1. m.exists => gver[x] # 0
    BY <1>2 DEF SyncInv, ClockInv
  <2> QED
    BY <1>1, <1>6, <1>7, <2>1 DEF Agrees
<1> QED
  BY <1>1, <1>7, <1>8, <1>9, AgreesFrame DEF SettledInv

\* Requests between jobs keep what is settled.
LEMMA UserSettles ==
  ASSUME BusyOperations = {}, TypeOK, SyncInv, SettledInv, User
  PROVE  SettledInv'
<1>1. pc' = "idle"
  BY QuietRequest
<1>2. ASSUME NEW e \in Events, CreateEvent(e) \/ UpdateEvent(e) \/ MoveInto(e)
      PROVE  HomeInv' /\ \A y \in Ids : Agrees(y)'
  <2>1. MarkChanged(e) /\ UNCHANGED google
    BY <1>2 DEF CreateEvent, UpdateEvent, MoveInto, Request
  <2>2. now' = now + 1 /\ now \in Nat
    BY <1>2 DEF CreateEvent, UpdateEvent, MoveInto, Edit, TypeOK
  <2>3. body'[e] # 0 /\ \A d \in Events : d # e => body'[d] = body[d]
    BY <1>2, <2>2 DEF CreateEvent, UpdateEvent, MoveInto, TypeOK
  <2>4. home' = home \cup {e}
    BY <1>2 DEF CreateEvent, UpdateEvent, MoveInto
  <2> QED
    BY <2>1, <2>3, <2>4, ChangeSettles
<1>3. ASSUME NEW e \in Events, DeleteEvent(e) \/ MoveAway(e)
      PROVE  HomeInv' /\ \A y \in Ids : Agrees(y)'
  <2>1. MarkDeleted(e) /\ UNCHANGED google /\ home' = home \ {e}
    BY <1>3 DEF DeleteEvent, MoveAway, Request
  <2>2. \A d \in Events : d # e => body'[d] = body[d]
    BY <1>3 DEF DeleteEvent, MoveAway, TypeOK
  <2> QED
    BY <2>1, <2>2, RemovalSettles
<1>4. HomeInv' /\ \A y \in Ids : Agrees(y)'
  BY <1>2, <1>3, ResolutionSettles DEF User
<1> QED
  BY <1>1, <1>4, BetweenJobs

\* Google's users, and its token, at any time.
LEMMA ElsewhereSettles ==
  ASSUME TypeOK, SyncInv, SettledInv, Elsewhere
  PROVE  SettledInv'
<1>1. CASE TokenExpires
  <2>1. UNCHANGED <<gver, glive, gbody, body, home, mapping, pc, inbox, cur, work>>
    BY <1>1 DEF TokenExpires, google, local, jobVars
  <2>2. HomeInv' /\ \A y \in Ids : Agrees(y)'
    BY <2>1, HomeFrame, AgreesFrame DEF SettledInv
  <2>3. ContentInv' /\ PostedInv'
    BY <2>1 DEF SettledInv, ContentInv, PostedInv, Seen, Waiting, InHand
  <2>4. WorkInv'
    BY <2>1 DEF SettledInv, WorkInv
  <2> QED
    BY <2>2, <2>3, <2>4 DEF SettledInv
<1>2. ASSUME NEW x \in Ids, GoogleEdit(x) \/ GoogleDelete(x) PROVE SettledInv'
  <2>1. UNCHANGED <<local, mapping, pc, inbox, cur, work>>
    BY <1>2 DEF GoogleEdit, GoogleDelete, jobVars
  <2>2. CASE GoogleEdit(x)
    <3>1. GoogleWrites(x, TRUE, now + 1) /\ (glive[x] \/ (x \in Foreign /\ gver[x] = 0))
      BY <2>2 DEF GoogleEdit
    <3>2. now + 1 \in Nat /\ now + 1 # 0
      BY DEF TypeOK
    <3>3. Writes(x)
      BY <3>1, <3>2, WriteFacts
    <3>4. PICK b \in Nat : b = now + 1 /\ GoogleWrites(x, TRUE, b)
      BY <3>1, <3>2
    <3>5. gbody'[x] = b /\ \A y \in Ids : y # x => gbody'[y] = gbody[y]
      BY <3>4, WriteBody
    <3>6. glive[x] \/ x \notin Events
      BY <3>1, CalendarAssumption
    <3> QED
      BY <2>1, <3>2, <3>3, <3>4, <3>5, <3>6, GoogleUserSettles
  <2>3. CASE GoogleDelete(x)
    <3>1. GoogleWrites(x, FALSE, gbody[x]) /\ glive[x]
      BY <2>3 DEF GoogleDelete
    <3>2. gbody[x] \in Nat /\ gbody[x] # 0
      BY <3>1 DEF TypeOK, SyncInv, ClockInv, SettledInv, HomeInv
    <3>3. Writes(x)
      BY <3>1, <3>2, WriteFacts
    <3>4. PICK b \in Nat : b = gbody[x] /\ GoogleWrites(x, FALSE, b)
      BY <3>1, <3>2
    <3>5. gbody'[x] = b /\ \A y \in Ids : y # x => gbody'[y] = gbody[y]
      BY <3>4, WriteBody
    <3> QED
      BY <2>1, <3>1, <3>2, <3>3, <3>4, <3>5, GoogleUserSettles
  <2> QED
    BY <1>2, <2>2, <2>3
<1> QED
  BY <1>1, <1>2 DEF Elsewhere

\* Every step keeps what is settled, with requests between jobs.
LEMMA NextSettles ==
  ASSUME BusyOperations = {}, TypeOK, SyncInv, LinkInv, FreshInv, SettledInv, [Next]_vars
  PROVE  SettledInv'
<1>1. CASE StartSync \/ PullFully \/ EndSync \/ FailSync \/ Fault
  <2>1. UNCHANGED <<local, mapping, google>> /\ pc' \in {"idle", "list"}
    BY <1>1 DEF StartSync, PullFully, EndSync, FailSync, Fault, Quit, Goto, Rest
  <2> QED
    BY <2>1, OutsideJob
<1>2. CASE SkipChange \/ MarkConflict \/ KeepLocal \/ Unmap \/ Baseline \/ Link
  BY <1>2, DoneSettles
<1>3. CASE ListChanges \/ (\E item \in inbox : ReadMapping(item)) \/ OpenConflict \/ FinishPull
  BY <1>3, ListSettles, ReadSettles, OpenConflictSettles, FinishSettles
<1>4. CASE ApplyDeletion \/ UpdateCanonical \/ (\E e \in Events : InsertCanonical(e)) \/ Relink
  BY <1>4, DeletionSettles, UpdateSettles, ImportSettles, RelinkSettles
<1>5. CASE SelectUnmapped \/ (\E item \in work : PostEvent(item)) \/ InsertMapping \/ SelectDirty
  BY <1>5, SelectUnmappedSettles, PostSettles, InsertSettles, SelectDirtySettles
<1>6. CASE (\E item \in work : PushDelete(item) \/ PushUpdate(item)) \/ ForgetMapping \/ StorePushed
  BY <1>6, PushSettles, PushedSettles
<1>7. CASE User \/ Elsewhere
  BY <1>7, UserSettles, ElsewhereSettles
<1>8. CASE UNCHANGED vars
  <2>1. UNCHANGED <<gver, glive, gbody, body, home, mapping, pc, inbox, cur, work>>
    BY <1>8 DEF vars, google, local, jobVars
  <2>2. HomeInv' /\ \A y \in Ids : Agrees(y)'
    BY <2>1, HomeFrame, AgreesFrame DEF SettledInv
  <2>3. ContentInv' /\ PostedInv'
    BY <2>1 DEF SettledInv, ContentInv, PostedInv, Seen, Waiting, InHand
  <2>4. WorkInv'
    BY <2>1 DEF SettledInv, WorkInv
  <2> QED
    BY <2>2, <2>3, <2>4 DEF SettledInv
<1> QED
  BY <1>1, <1>2, <1>3, <1>4, <1>5, <1>6, <1>7, <1>8 DEF Next, Job

\* Nothing is settled at the start.
LEMMA InitSettles == Init => SettledInv
<1> SUFFICES ASSUME Init PROVE SettledInv
  OBVIOUS
<1>1. /\ \A x \in Ids : mapping[x] = NoMapping /\ gver[x] = 0 /\ ~glive[x]
      /\ home = {} /\ pc = "idle"
  BY DEF Init
<1>2. HomeInv /\ \A x \in Ids : Agrees(x)
  BY <1>1, NoMappingFields DEF HomeInv, Agrees
<1>3. ContentInv /\ PostedInv /\ WorkInv
  BY <1>1, Places DEF ContentInv, PostedInv, WorkInv
<1> QED
  BY <1>2, <1>3 DEF SettledInv

\* What the mappings call synchronized is equal on both sides, whatever fails in whatever
\* job and whatever happens in Google meanwhile, if the user's requests come between jobs.
THEOREM SettledMappingsDoAgree ==
  ASSUME BusyOperations = {}
  PROVE  Spec => []SettledMappingsAgree
<1>1. Init => SettledInv /\ FreshInv
  BY InitSettles DEF Init, FreshInv
<1>2. TypeOK /\ SyncInv /\ LinkInv /\ SettledInv /\ FreshInv /\ [Next]_vars => SettledInv' /\ FreshInv'
  BY NextSettles, FreshStep
<1>3. SettledInv => SettledMappingsAgree
  BY DEF SettledInv, Agrees, SettledMappingsAgree
<1>4. Spec => [](TypeOK /\ SyncInv /\ LinkInv)
  <2>1. "resolve" \notin BusyOperations
    OBVIOUS
  <2> QED
    BY <2>1, LinkInvariant
<1> QED
  BY <1>1, <1>2, <1>3, <1>4, PTL DEF Spec

-----------------------------------------------------------------------------
(* No event is in the calendar twice.                                      *)

\* What is in hand is linked, or created in Google, only at three places.
Linking == {"relink", "link", "insert"}

\* A step that changes neither side, nor a mapping.
LEMMA CopyFrame ==
  ASSUME SingleInv, pc \notin Linking,
         UNCHANGED <<now, body, home, updated, gver, glive, gbody, mapping>>
  PROVE  TimesInv' /\ CopiesInv' /\ OwnInv'
<1>1. TimesInv'
  BY DEF SingleInv, TimesInv
<1>2. CopiesInv'
  BY DEF SingleInv, CopiesInv, Belongs, Linking
<1>3. OwnInv'
  BY DEF SingleInv, OwnInv, Linking
<1> QED
  BY <1>1, <1>2, <1>3

\* Outside the pull and the creation of events nothing more is promised.
LEMMA CopyElsewhere ==
  ASSUME pc' \notin Pulling, pc' \notin {"post", "insert"}
  PROVE  CreateInv' /\ PendingInv'
BY Places DEF CreateInv, PendingInv

\* Every insertion of a mapping succeeds.
LEMMA LinksSucceed ==
  ASSUME TypeOK, SyncInv, LinkInv, SettledInv, SingleInv, pc \in Linking
  PROVE  /\ pc \in {"link", "insert"} => Insertable(cur.id, cur.event)
         /\ pc = "relink" => body[cur.event] # 0
<1>1. PICK x \in Ids : x = cur.id
  BY ItemTypes, Places DEF TypeOK, Linking, Holding
<1>2. cur.event \in home /\ body[cur.event] # 0
  BY DEF Linking, SettledInv, ContentInv, WorkInv, HomeInv
<1>3. cur.event # NoEvent /\ cur.event \in Events
  BY <1>2, CalendarAssumption DEF TypeOK
<1>4. pc \in {"link", "insert"} => MappingOf(cur.event) = {}
  BY DEF LinkInv, SingleInv, CreateInv, MappingOf
<1>5. pc = "link" => ~mapping[x].exists
  BY <1>1, Places, InHandFacts DEF SyncInv, HandInv
<1>6. pc = "insert" => ~mapping[x].exists
  BY <1>1, <1>2, <1>3 DEF SingleInv, CreateInv, OwnInv
<1> QED
  BY <1>1, <1>2, <1>4, <1>5, <1>6 DEF Insertable

\* A job starts, ends, or is refused by Google.
LEMMA OutsideCopies ==
  ASSUME TypeOK, SyncInv, LinkInv, SettledInv, SingleInv,
         StartSync \/ PullFully \/ EndSync \/ FailSync
  PROVE  SingleInv'
<1>1. UNCHANGED <<now, body, home, updated, gver, glive, gbody, mapping>> /\ pc' \in {"idle", "list"}
  BY DEF StartSync, PullFully, EndSync, FailSync, Quit, Goto, Rest, google, local
<1>2. pc \notin Linking
  BY LinksSucceed DEF StartSync, PullFully, EndSync, FailSync, Linking
<1> QED
  BY <1>1, <1>2, CopyFrame, CopyElsewhere, Places DEF SingleInv

\* Every listed change has a content of its own.
LEMMA ListCopies ==
  ASSUME TypeOK, SyncInv, SingleInv, ListChanges
  PROVE  SingleInv'
<1>1. /\ pc = "list" /\ pc' = "pull"
      /\ UNCHANGED <<now, body, home, updated, gver, glive, gbody, mapping>>
  BY DEF ListChanges, Goto, Rest, local, google
<1> DEFINE i(x) == [NoItem EXCEPT !.id = x, !.ver = gver[x], !.live = glive[x], !.body = gbody[x]]
<1>2. inbox' = {i(x) : x \in {y \in Ids : gver[y] > mark}}
  BY DEF ListChanges
<1>3. \A x \in Ids : i(x).id = x /\ i(x).live = glive[x] /\ i(x).body = gbody[x]
  BY ListedFields
<1> HIDE DEF i
<1>4. TimesInv' /\ CopiesInv' /\ OwnInv'
  BY <1>1, CopyFrame DEF Linking
<1>5. CreateInv'
  BY <1>1 DEF CreateInv
<1>6. ASSUME NEW item \in inbox' PROVE SafeCopy(item)'
  <2>1. PICK x \in Ids : item = i(x)
    BY <1>2
  <2>2. item.id = x /\ item.live = glive[x] /\ item.body = gbody[x]
    BY <1>3, <2>1
  <2>3. item.body <= now
    BY <2>2 DEF SingleInv, TimesInv
  <2>4. glive[x] /\ x \in Events => mapping[x].exists
    BY <1>1 DEF SingleInv, OwnInv
  <2>5. \A e \in home : glive[x] /\ body[e] = gbody[x] => mapping[x].event = e
    BY <1>1 DEF SingleInv, CopiesInv, Belongs
  <2>6. \A y \in Ids : glive[x] /\ glive[y] /\ gbody[y] = gbody[x] => y = x
    BY DEF SingleInv, CopiesInv
  <2> QED
    BY <1>1, <2>2, <2>3, <2>4, <2>5, <2>6 DEF SafeCopy
<1>7. ASSUME NEW k \in inbox', NEW j \in inbox', k.id = j.id \/ (k.live /\ j.live /\ k.body = j.body)
      PROVE  k = j
  <2>1. PICK x \in Ids : k = i(x)
    BY <1>2
  <2>2. PICK y \in Ids : j = i(y)
    BY <1>2
  <2>3. x = y
    BY <1>3, <1>7, <2>1, <2>2 DEF SingleInv, CopiesInv
  <2> QED
    BY <2>1, <2>2, <2>3
<1>8. PendingInv'
  BY <1>1, <1>6, <1>7, Places DEF PendingInv
<1> QED
  BY <1>4, <1>5, <1>8 DEF SingleInv

\* The mapping of a listed change is read.
LEMMA ReadCopies ==
  ASSUME TypeOK, SingleInv, NEW item \in inbox, ReadMapping(item)
  PROVE  SingleInv'
<1>1. /\ pc = "pull" /\ pc' = "apply" /\ inbox' = inbox \ {item}
      /\ UNCHANGED <<now, body, home, updated, gver, glive, gbody, mapping>>
  BY DEF ReadMapping, Goto, Rest, local, google
<1>2. PICK x \in Ids : x = item.id
  BY ItemTypes DEF TypeOK
<1> DEFINE m == mapping[x]
           at == IF m.event = NoEvent THEN 0 ELSE updated[m.event]
           c == [item EXCEPT !.map = m, !.event = m.event, !.at = at]
<1>3. cur' = c
  BY <1>2 DEF ReadMapping
<1>4. item \in Items
  BY DEF TypeOK
<1> HIDE DEF m, at
<1>5. c.id = item.id /\ c.live = item.live /\ c.body = item.body
  BY <1>4 DEF Items
<1>6. cur'.id = item.id /\ cur'.live = item.live /\ cur'.body = item.body
  BY <1>3, <1>5
<1>7. TimesInv' /\ CopiesInv' /\ OwnInv'
  BY <1>1, CopyFrame DEF Linking
<1>8. CreateInv'
  BY <1>1 DEF CreateInv
<1>9. PendingInv'
  <2>1. \A i \in inbox : SafeCopy(i)
    BY <1>1, Places DEF SingleInv, PendingInv
  <2>2. \A i \in inbox' : SafeCopy(i)'
    BY <1>1, <2>1 DEF SafeCopy
  <2>3. SafeCopy(cur)'
    BY <1>1, <1>6, <2>1 DEF SafeCopy
  <2>4. \A i, j \in inbox : i.id = j.id \/ (i.live /\ j.live /\ i.body = j.body) => i = j
    BY <1>1, Places DEF SingleInv, PendingInv
  <2>5. \A i \in inbox' : i.id # cur'.id /\ ~(i.live /\ cur'.live /\ i.body = cur'.body)
    BY <1>1, <1>6, <2>4
  <2> QED
    BY <1>1, <2>2, <2>3, <2>4, <2>5 DEF PendingInv
<1> QED
  BY <1>7, <1>8, <1>9 DEF SingleInv

\* Nothing is written: a conflict is opened, or the pull ends.
LEMMA IdleCopies ==
  ASSUME SingleInv, OpenConflict \/ FinishPull
  PROVE  SingleInv'
<1>1. /\ UNCHANGED <<now, body, home, updated, gver, glive, gbody, mapping, inbox, cur>>
      /\ (pc = "apply" /\ pc' = "mark") \/ (pc = "pull" /\ pc' = "unmapped")
  BY DEF OpenConflict, FinishPull, Goto, Rest, local, google
<1>2. TimesInv' /\ CopiesInv' /\ OwnInv'
  BY <1>1, CopyFrame DEF Linking
<1>3. CreateInv'
  BY <1>1 DEF CreateInv
<1>4. PendingInv'
  BY <1>1, Places DEF SingleInv, PendingInv, SafeCopy
<1> QED
  BY <1>2, <1>3, <1>4 DEF SingleInv

\* The change in hand is done with: its mapping is written, or left alone.
LEMMA DoneCopies ==
  ASSUME TypeOK, SingleInv, pc \in Applying, pc' = "pull",
         UNCHANGED <<now, body, home, updated, gver, glive, gbody, inbox>>,
         NEW x \in Ids, x = cur.id, \A y \in Ids : y # x => mapping'[y] = mapping[y],
         \A e \in home : glive[x] /\ Belongs(x, e) => mapping'[x].event = e,
         x \in Events /\ glive[x] => mapping'[x].exists,
         x \in home /\ mapping'[x].exists => mapping'[x].event = x
  PROVE  SingleInv'
<1>1. pc # "insert" /\ pc' \notin Linking
  BY DEF Applying, Pulling, Linking
<1>2. TimesInv'
  BY DEF SingleInv, TimesInv
<1>3. CopiesInv'
  <2>1. ASSUME NEW e \in home, NEW y \in Ids, glive[y], body[e] = gbody[y]
        PROVE  mapping'[y].event = e
    BY <2>1 DEF SingleInv, CopiesInv, Belongs
  <2> QED
    BY <2>1 DEF SingleInv, CopiesInv, Belongs
<1>4. OwnInv'
  BY <1>1 DEF SingleInv, OwnInv, Ids, TypeOK
<1>5. CreateInv'
  BY DEF CreateInv
<1>6. ASSUME NEW i \in inbox PROVE SafeCopy(i)'
  <2>1. SafeCopy(i) /\ i.id # x
    BY Places DEF SingleInv, PendingInv
  <2>2. i.id \in Ids
    BY ItemTypes DEF TypeOK
  <2> QED
    BY <2>1, <2>2 DEF SafeCopy
<1>7. PendingInv'
  BY <1>6, Places DEF SingleInv, PendingInv
<1> QED
  BY <1>2, <1>3, <1>4, <1>5, <1>7 DEF SingleInv

\* The steps after which the change in hand is done with.
LEMMA DoneSteps ==
  ASSUME TypeOK, SyncInv, LinkInv, SettledInv, SingleInv,
         SkipChange \/ MarkConflict \/ KeepLocal \/ Unmap \/ Baseline \/ Link
  PROVE  SingleInv'
<1>1. /\ pc \in Applying /\ pc' = "pull"
      /\ UNCHANGED <<now, body, home, updated, gver, glive, gbody, inbox>>
  BY Places DEF SkipChange, MarkConflict, KeepLocal, Unmap, Baseline, Link, NextItem, Goto, Rest,
       local, google
<1>2. PICK x \in Ids : x = cur.id
  BY <1>1, Places, ItemTypes DEF TypeOK
<1>3. PICK m \in Mappings : m = mapping[x]
  BY DEF TypeOK
<1>4. /\ cur \in Items /\ cur.ver \in Nat /\ (cur.live \/ ~glive[x])
      /\ cur.map.exists = m.exists /\ cur.event \in Events \cup {NoEvent}
  BY <1>1, <1>2, <1>3, InHandFacts, ItemTypes DEF TypeOK
<1>5. x \in Events /\ glive[x] => m.exists
  BY <1>1, <1>3, Places DEF SingleInv, OwnInv, Applying, Pulling
<1>6. x \in home /\ m.exists => m.event = x
  BY <1>3 DEF SingleInv, OwnInv
<1>7. NoMapping \in Mappings /\ ~NoMapping.exists /\ NoMapping.event = NoEvent
  BY NoMappingFields
<1>8. ASSUME pc \notin Linking, NEW n \in Mappings, mapping' = [mapping EXCEPT ![x] = n],
             \/ n.event = m.event /\ n.exists = m.exists
             \/ ~n.exists /\ ~glive[x]
      PROVE  SingleInv'
  <2>1. mapping'[x] = n /\ \A y \in Ids : y # x => mapping'[y] = mapping[y]
    BY <1>8, OneMapping
  <2>2. \A e \in home : glive[x] /\ Belongs(x, e) => mapping'[x].event = e
    BY <1>3, <1>8, <2>1 DEF Belongs, Linking
  <2>3. x \in Events /\ glive[x] => mapping'[x].exists
    BY <1>5, <1>8, <2>1
  <2>4. x \in home /\ mapping'[x].exists => mapping'[x].event = x
    BY <1>6, <1>8, <2>1
  <2> QED
    BY <1>1, <1>2, <2>1, <2>2, <2>3, <2>4, DoneCopies
<1>9. CASE SkipChange
  <2>1. UNCHANGED mapping /\ pc = "apply"
    BY <1>9 DEF SkipChange
  <2>2. mapping' = [mapping EXCEPT ![x] = m]
    BY <1>3, <2>1 DEF TypeOK
  <2> QED
    BY <1>8, <2>1, <2>2 DEF Linking
<1>10. CASE MarkConflict
  <2> DEFINE n == [m EXCEPT !.conflict = TRUE]
  <2>1. mapping' = [mapping EXCEPT ![x] = n] /\ pc = "mark"
    BY <1>2, <1>3, <1>10 DEF MarkConflict
  <2>2. n \in Mappings /\ n.exists = m.exists /\ n.event = m.event
    BY ConflictFields
  <2> HIDE DEF n
  <2> QED
    BY <1>8, <2>1, <2>2 DEF Linking
<1>11. CASE KeepLocal
  <2>1. pc \notin Linking
    BY <1>11 DEF KeepLocal, Linking
  <2>2. CASE cur.live
    <3> DEFINE n == [m EXCEPT !.pending = "none"]
    <3>1. mapping' = [mapping EXCEPT ![x] = n]
      BY <1>2, <1>3, <1>11, <2>2 DEF KeepLocal
    <3>2. n \in Mappings /\ n.exists = m.exists /\ n.event = m.event
      BY PendingFields
    <3> HIDE DEF n
    <3> QED
      BY <1>8, <2>1, <3>1, <3>2
  <2>3. CASE ~cur.live
    <3>1. mapping' = [mapping EXCEPT ![x] = NoMapping]
      BY <1>2, <1>11, <2>3 DEF KeepLocal
    <3> QED
      BY <1>4, <1>7, <1>8, <2>1, <2>3, <3>1
  <2> QED
    BY <2>2, <2>3
<1>12. CASE Unmap
  <2>1. mapping' = [mapping EXCEPT ![x] = NoMapping] /\ pc = "unmap"
    BY <1>2, <1>12 DEF Unmap
  <2>2. ~cur.live
    BY <2>1 DEF SyncInv, HandInv
  <2> QED
    BY <1>4, <1>7, <1>8, <2>1, <2>2 DEF Linking
<1>13. CASE Baseline
  <2> DEFINE n == [m EXCEPT !.etag = cur.ver, !.dirty = FALSE, !.deleted = FALSE, !.pending = "none"]
  <2>1. mapping' = [mapping EXCEPT ![x] = n] /\ pc = "baseline"
    BY <1>2, <1>3, <1>13 DEF Baseline
  <2>2. n \in Mappings /\ n.exists = m.exists /\ n.event = m.event
    BY <1>4, BaselineFields
  <2> HIDE DEF n
  <2> QED
    BY <1>8, <2>1, <2>2 DEF Linking
<1>14. CASE Link
  <2> DEFINE n == NewMapping(cur.event, cur.ver)
  <2>1. mapping' = [mapping EXCEPT ![x] = n] /\ pc = "link"
    BY <1>2, <1>14 DEF Link
  <2>2. n \in Mappings /\ n.exists /\ n.event = cur.event
    BY <1>4, NewMappingFields
  <2> HIDE DEF n
  <2>3. mapping'[x] = n /\ \A y \in Ids : y # x => mapping'[y] = mapping[y]
    BY <2>1, <2>2, OneMapping
  <2>4. ~m.exists /\ x \notin Events
    BY <1>2, <1>4, <2>1 DEF SyncInv, HandInv, SingleInv, PendingInv
  <2>5. m.event = NoEvent
    BY <1>3, <1>7, <2>4 DEF SyncInv, MappingInv, SafeMapping
  <2>6. NoEvent \notin home /\ x \notin home
    BY <2>4, CalendarAssumption DEF TypeOK
  <2>7. \A e \in home : glive[x] /\ Belongs(x, e) => mapping'[x].event = e
    BY <1>3, <2>2, <2>3, <2>5, <2>6 DEF Belongs
  <2> QED
    BY <1>1, <1>2, <2>2, <2>3, <2>4, <2>6, <2>7, DoneCopies
<1> QED
  BY <1>9, <1>10, <1>11, <1>12, <1>13, <1>14

\* An event cancelled in Google goes, and its mapping no longer names it.
LEMMA DeletionCopies ==
  ASSUME TypeOK, SyncInv, LinkInv, FreshInv, SettledInv, SingleInv, ApplyDeletion
  PROVE  SingleInv'
<1>1. /\ pc = "apply" /\ pc' = "unmap"
      /\ home' = home \ {cur.event} /\ UNCHANGED <<now, updated, gver, glive, gbody, inbox, cur>>
      /\ body' = [e \in Events |-> IF e = cur.event THEN 0 ELSE body[e]]
  BY DEF ApplyDeletion, Goto, Rest, google
<1>2. PICK x \in Ids : x = cur.id
  BY <1>1, Places, ItemTypes DEF TypeOK
<1>3. ASSUME NEW y \in Ids
      PROVE  /\ mapping'[y].exists = mapping[y].exists
             /\ \A e \in home' : mapping[y].event = e => mapping'[y].event = e
             /\ y # x => mapping'[y] = mapping[y]
  <2>1. mapping[y] \in Mappings
    BY DEF TypeOK
  <2> DEFINE n == [mapping[y] EXCEPT !.event = NoEvent]
  <2>2. n.event = NoEvent /\ n.exists = mapping[y].exists
    BY <2>1, EventFields
  <2>3. mapping'[y] = IF cur.event # NoEvent /\ y \in MappingOf(cur.event) THEN n ELSE mapping[y]
    BY DEF ApplyDeletion
  <2> HIDE DEF n
  <2>4. y \in MappingOf(cur.event) => mapping[y].event = cur.event
    BY DEF MappingOf
  <2>5. cur.event # NoEvent /\ y \in MappingOf(cur.event) => y = x
    BY <1>1, <1>2, <2>4, EventInHand
  <2> QED
    BY <1>1, <2>2, <2>3, <2>4, <2>5
<1>4. /\ home' \subseteq home /\ home' \subseteq Events
      /\ \A e \in Events : e \in home' => body'[e] = body[e]
  BY <1>1 DEF TypeOK
<1>5. TimesInv'
  <2>1. \A e \in Events : body'[e] = 0 \/ body'[e] = body[e]
    BY <1>1
  <2>2. now \in Nat /\ \A e \in Events : body[e] \in Nat
    BY DEF TypeOK
  <2> QED
    BY <1>1, <2>1, <2>2 DEF SingleInv, TimesInv
<1>6. CopiesInv'
  <2>1. ASSUME NEW e \in home', NEW y \in Ids, glive[y], body'[e] = gbody[y] PROVE mapping'[y].event = e
    <3>1. mapping[y].event = e
      BY <1>1, <1>4, <2>1 DEF SingleInv, CopiesInv, Belongs
    <3> QED
      BY <1>3, <3>1
  <2>2. \A d, e \in home' : body'[d] = body'[e] => d = e
    BY <1>4 DEF SingleInv, CopiesInv
  <2> QED
    BY <1>1, <2>1, <2>2 DEF SingleInv, CopiesInv, Belongs
<1>7. OwnInv'
  <2>1. \A y \in home' : mapping'[y].exists => mapping'[y].event = y
    <3> SUFFICES ASSUME NEW y \in home', mapping'[y].exists PROVE mapping'[y].event = y
      OBVIOUS
    <3>1. y \in home /\ y \in Ids
      BY <1>4 DEF Ids
    <3>2. mapping[y].event = y
      BY <1>3, <3>1 DEF SingleInv, OwnInv
    <3> QED
      BY <1>3, <3>1, <3>2
  <2> QED
    BY <1>1, <1>3, <2>1 DEF SingleInv, OwnInv, Ids
<1>8. CreateInv'
  BY <1>1 DEF CreateInv
<1>9. PendingInv'
  <2>1. ASSUME NEW i \in inbox PROVE SafeCopy(i)'
    <3>1. SafeCopy(i) /\ i.id # x /\ i.id \in Ids
      BY <1>1, <1>2, Places, ItemTypes DEF SingleInv, PendingInv, TypeOK
    <3>2. mapping'[i.id] = mapping[i.id]
      BY <1>3, <3>1
    <3> QED
      BY <1>1, <1>4, <3>1, <3>2 DEF SafeCopy
  <2> QED
    BY <1>1, <2>1, Places DEF SingleInv, PendingInv
<1> QED
  BY <1>5, <1>6, <1>7, <1>8, <1>9 DEF SingleInv

\* Google's content is written to an event that is the only one with it then.
LEMMA UpdateCopies ==
  ASSUME TypeOK, SyncInv, LinkInv, FreshInv, SettledInv, SingleInv, UpdateCanonical
  PROVE  SingleInv'
<1>1. /\ pc = "apply" /\ pc' = "baseline" /\ cur.event # NoEvent /\ cur.live
      /\ UNCHANGED <<now, gver, glive, gbody, mapping, inbox, cur>>
  BY DEF UpdateCanonical, Goto, Rest, google
<1>2. PICK x \in Ids : x = cur.id
  BY <1>1, Places, ItemTypes DEF TypeOK
<1>3. PICK e \in Events : e = cur.event
  BY <1>1, <1>2, EventInHand
<1>4. mapping[x].event = e /\ body[e] # 0 /\ e \in home
  BY <1>1, <1>2, <1>3, EventInHand
<1>5. PICK b \in Nat : b = cur.body
  BY ItemTypes DEF TypeOK
<1>6. /\ body'[e] = b /\ home' = home /\ updated'[e] = now
      /\ \A d \in Events : d # e => body'[d] = body[d] /\ updated'[d] = updated[d]
  <2>1. /\ body' = [body EXCEPT ![e] = b] /\ updated' = [updated EXCEPT ![e] = now]
        /\ home' = home \cup {e}
    BY <1>3, <1>4, <1>5 DEF UpdateCanonical
  <2> QED
    BY <1>4, <2>1 DEF TypeOK
<1>7. SafeCopy(cur)
  BY <1>1 DEF SingleInv, PendingInv
<1>8. /\ \A d \in home : body[d] = b => d = e
      /\ \A y \in Ids : glive[y] /\ gbody[y] = b => y = x
      /\ b <= now
  BY <1>1, <1>2, <1>4, <1>5, <1>7 DEF SafeCopy
<1>9. home \subseteq Events /\ now # 0
  BY DEF TypeOK
<1>10. TimesInv'
  BY <1>1, <1>6, <1>8 DEF SingleInv, TimesInv
<1>11. CopiesInv'
  <2>1. \A c, d \in home : body'[c] = body'[d] => c = d
    BY <1>6, <1>8, <1>9 DEF SingleInv, CopiesInv
  <2>2. ASSUME NEW d \in home, NEW y \in Ids, glive[y], body'[d] = gbody[y] PROVE mapping[y].event = d
    <3>1. CASE d = e
      BY <1>4, <1>6, <1>8, <2>2, <3>1
    <3>2. CASE d # e
      BY <1>1, <1>6, <1>9, <2>2, <3>2 DEF SingleInv, CopiesInv, Belongs
    <3> QED
      BY <3>1, <3>2
  <2> QED
    BY <1>1, <1>6, <2>1, <2>2 DEF SingleInv, CopiesInv, Belongs
<1>12. OwnInv'
  BY <1>1, <1>6, <1>9 DEF SingleInv, OwnInv
<1>13. CreateInv'
  BY <1>1 DEF CreateInv
<1>14. PendingInv'
  <2>1. ASSUME NEW i \in inbox PROVE SafeCopy(i)'
    <3>1. SafeCopy(i) /\ (i.live => i.body # b)
      BY <1>1, <1>5, Places DEF SingleInv, PendingInv
    <3> QED
      BY <1>1, <1>6, <1>9, <3>1 DEF SafeCopy
  <2> QED
    BY <1>1, <2>1, Places DEF SingleInv, PendingInv
<1> QED
  BY <1>10, <1>11, <1>12, <1>13, <1>14 DEF SingleInv

\* Google's event is imported under a new id only where no event has its content.
LEMMA ImportCopies ==
  ASSUME TypeOK, SyncInv, LinkInv, FreshInv, SettledInv, SingleInv,
         NEW e \in Events, InsertCanonical(e)
  PROVE  SingleInv'
<1>1. /\ pc = "apply" /\ cur.live /\ updated[e] = 0 /\ (cur.map.exists => cur.event = NoEvent)
      /\ home' = home \cup {e} /\ cur' = [cur EXCEPT !.event = e]
      /\ UNCHANGED <<now, gver, glive, gbody, mapping, inbox>>
      /\ pc' = IF cur.map.exists THEN "relink" ELSE "link"
  BY DEF InsertCanonical, Goto, Rest, google
<1>2. PICK x \in Ids : x = cur.id
  BY <1>1, Places, ItemTypes DEF TypeOK
<1>3. cur \in Items /\ cur.body \in Nat
  BY <1>1, Places, ItemTypes DEF TypeOK
<1>4. cur'.id = x /\ cur'.live = cur.live /\ cur'.body = cur.body /\ cur'.event = e
  BY <1>1, <1>2, <1>3, ImportedFields
<1>5. PICK b \in Nat : b = cur.body
  BY <1>3
<1>6. /\ body'[e] = b /\ updated'[e] = now
      /\ \A d \in Events : d # e => body'[d] = body[d] /\ updated'[d] = updated[d]
  <2>1. body' = [body EXCEPT ![e] = b] /\ updated' = [updated EXCEPT ![e] = now]
    BY <1>5 DEF InsertCanonical
  <2> QED
    BY <2>1 DEF TypeOK
<1>7. home \subseteq Events /\ now # 0 /\ NoEvent \notin home
  BY CalendarAssumption DEF TypeOK
<1>8. mapping[x].event = NoEvent /\ (mapping[x].exists <=> cur.map.exists)
  <2>1. cur.map = mapping[x] /\ cur.event = mapping[x].event
    BY <1>1, <1>2, EventInHand
  <2>2. ~mapping[x].exists => mapping[x].event = NoEvent
    BY NoMappingFields DEF SyncInv, MappingInv, SafeMapping
  <2> QED
    BY <1>1, <2>1, <2>2
<1>9. /\ \A d \in home : body[d] # b
      /\ \A y \in Ids : glive[y] /\ gbody[y] = b => y = x
      /\ b <= now
      /\ x \in Events => mapping[x].exists
  <2>1. SafeCopy(cur)
    BY <1>1 DEF SingleInv, PendingInv
  <2> QED
    BY <1>1, <1>2, <1>5, <1>7, <1>8, <2>1 DEF SafeCopy
<1>10. TimesInv'
  BY <1>1, <1>6, <1>9 DEF SingleInv, TimesInv
<1>11. pc' \in {"relink", "link"}
  BY <1>1
<1>12. CopiesInv'
  <2>1. \A c, d \in home' : body'[c] = body'[d] => c = d
    BY <1>1, <1>6, <1>7, <1>9 DEF SingleInv, CopiesInv
  <2>2. ASSUME NEW d \in home', NEW y \in Ids, glive[y], body'[d] = gbody[y] PROVE Belongs(y, d)'
    <3>1. CASE d = e
      BY <1>4, <1>6, <1>9, <1>11, <2>2, <3>1 DEF Belongs
    <3>2. CASE d # e
      <4>1. d \in home /\ body[d] = gbody[y]
        BY <1>1, <1>6, <1>7, <2>2, <3>2
      <4>2. mapping[y].event = d
        BY <1>1, <2>2, <4>1 DEF SingleInv, CopiesInv, Belongs
      <4> QED
        BY <1>1, <4>2 DEF Belongs
    <3> QED
      BY <3>1, <3>2
  <2> QED
    BY <1>1, <2>1, <2>2 DEF SingleInv, CopiesInv
<1>13. OwnInv'
  <2>1. ~mapping[e].exists
    BY <1>1 DEF SingleInv, OwnInv, SyncInv, ClockInv, Ids
  <2>2. \A y \in Events : gver[y] # 0 => updated'[y] # 0
    BY <1>6, <1>7 DEF SingleInv, OwnInv
  <2> QED
    BY <1>1, <2>1, <2>2 DEF SingleInv, OwnInv
<1>14. CreateInv'
  BY <1>11 DEF CreateInv
<1>15. PendingInv'
  <2>1. ASSUME NEW i \in inbox PROVE SafeCopy(i)'
    <3>1. SafeCopy(i) /\ (i.live => i.body # b)
      BY <1>1, <1>5, Places DEF SingleInv, PendingInv
    <3> QED
      BY <1>1, <1>6, <1>7, <3>1 DEF SafeCopy
  <2>2. \A i \in inbox : i.id # cur'.id /\ ~(i.live /\ cur'.live /\ i.body = cur'.body)
    BY <1>1, <1>2, <1>4, Places DEF SingleInv, PendingInv
  <2>3. pc' = "link" => cur'.id \notin Events
    BY <1>1, <1>4, <1>8, <1>9
  <2>4. pc' = "relink" => mapping'[cur'.id].event = NoEvent
    BY <1>1, <1>4, <1>8
  <2>5. \A i, j \in inbox : i.id = j.id \/ (i.live /\ j.live /\ i.body = j.body) => i = j
    BY <1>1, Places DEF SingleInv, PendingInv
  <2> QED
    BY <1>1, <1>11, <2>1, <2>2, <2>3, <2>4, <2>5 DEF PendingInv
<1> QED
  BY <1>10, <1>12, <1>13, <1>14, <1>15 DEF SingleInv

\* The mapping of a deleted event gets the imported one.
LEMMA RelinkCopies ==
  ASSUME TypeOK, SyncInv, SingleInv, Relink
  PROVE  SingleInv'
<1>1. /\ pc = "relink" /\ pc' = "baseline"
      /\ UNCHANGED <<now, body, home, updated, gver, glive, gbody, inbox, cur>>
  BY DEF Relink, Goto, Rest, local, google
<1>2. PICK x \in Ids : x = cur.id
  BY <1>1, Places, ItemTypes DEF TypeOK
<1>3. PICK m \in Mappings : m = mapping[x]
  BY DEF TypeOK
<1>4. cur.event \in Events \cup {NoEvent}
  BY ItemTypes DEF TypeOK
<1> DEFINE n == [m EXCEPT !.event = cur.event]
<1>5. mapping' = [mapping EXCEPT ![x] = n]
  BY <1>2, <1>3 DEF Relink
<1>6. n \in Mappings /\ n.exists = m.exists /\ n.event = cur.event
  BY <1>4, EventFields
<1> HIDE DEF n
<1>7. mapping'[x] = n /\ \A y \in Ids : y # x => mapping'[y] = mapping[y]
  BY <1>5, <1>6, OneMapping
<1>8. m.event = NoEvent /\ NoEvent \notin home /\ home \subseteq Events
  BY <1>1, <1>2, <1>3, CalendarAssumption DEF SingleInv, PendingInv, TypeOK
<1>9. m.exists
  BY <1>1, <1>2, <1>3, Places, InHandFacts DEF SyncInv, HandInv
<1>10. TimesInv'
  BY <1>1 DEF SingleInv, TimesInv
<1>11. CopiesInv'
  <2>1. ASSUME NEW e \in home, NEW y \in Ids, glive[y], body[e] = gbody[y] PROVE mapping'[y].event = e
    <3>1. Belongs(y, e)
      BY <2>1 DEF SingleInv, CopiesInv
    <3>2. CASE y = x
      BY <1>2, <1>3, <1>6, <1>7, <1>8, <3>1, <3>2 DEF Belongs
    <3>3. CASE y # x
      BY <1>2, <1>7, <3>1, <3>3 DEF Belongs
    <3> QED
      BY <3>2, <3>3
  <2> QED
    BY <1>1, <2>1 DEF SingleInv, CopiesInv, Belongs
<1>12. OwnInv'
  <2>1. x \notin home
    BY <1>3, <1>8, <1>9 DEF SingleInv, OwnInv
  <2>2. \A y \in Ids : mapping'[y].exists = mapping[y].exists
    BY <1>3, <1>6, <1>7
  <2> QED
    BY <1>1, <1>7, <1>8, <2>1, <2>2 DEF SingleInv, OwnInv, Ids
<1>13. CreateInv'
  BY <1>1 DEF CreateInv
<1>14. PendingInv'
  <2>1. ASSUME NEW i \in inbox PROVE SafeCopy(i)'
    <3>1. SafeCopy(i) /\ i.id # x /\ i.id \in Ids
      BY <1>1, <1>2, Places, ItemTypes DEF SingleInv, PendingInv, TypeOK
    <3>2. mapping'[i.id] = mapping[i.id]
      BY <1>7, <3>1
    <3> QED
      BY <1>1, <3>1, <3>2 DEF SafeCopy
  <2> QED
    BY <1>1, <2>1, Places DEF SingleInv, PendingInv
<1> QED
  BY <1>10, <1>11, <1>12, <1>13, <1>14 DEF SingleInv

\* The rows of either loop of the push are read.
LEMMA SelectCopies ==
  ASSUME TypeOK, SyncInv, SingleInv, SelectUnmapped \/ SelectDirty
  PROVE  SingleInv'
<1>1. /\ pc \in {"unmapped", "post"} /\ pc' \in {"post", "push"}
      /\ UNCHANGED <<now, body, home, updated, gver, glive, gbody, mapping>>
  BY DEF SelectUnmapped, SelectDirty, Goto, Rest, local, google
<1>2. TimesInv' /\ CopiesInv' /\ OwnInv'
  BY <1>1, CopyFrame DEF Linking
<1>3. PendingInv'
  BY <1>1, Places DEF PendingInv
<1>4. CASE SelectUnmapped
  <2> DEFINE i(e) == [NoItem EXCEPT !.id = e, !.event = e, !.body = body[e]]
  <2>1. work' = {i(e) : e \in {d \in home : MappingOf(d) = {}}}
    BY <1>4 DEF SelectUnmapped
  <2>2. \A e \in home : i(e).event = e
    BY UnmappedFields
  <2> HIDE DEF i
  <2>3. ASSUME NEW e \in home, MappingOf(e) = {}, NEW x \in Ids PROVE mapping[x].event # e
    BY <2>3, NotOfEvent DEF TypeOK
  <2>4. \A item \in work', x \in Ids : mapping'[x].event # item.event
    BY <1>1, <2>1, <2>2, <2>3
  <2>5. \A j, k \in work' : j.event = k.event => j = k
    BY <2>1, <2>2
  <2>6. pc' = "post"
    BY <1>4 DEF SelectUnmapped, Goto
  <2>7. CreateInv'
    BY <2>4, <2>5, <2>6 DEF CreateInv
  <2> QED
    BY <1>2, <1>3, <2>7 DEF SingleInv
<1>5. CASE SelectDirty
  <2>1. CreateInv'
    BY <1>5 DEF SelectDirty, Goto, CreateInv
  <2> QED
    BY <1>2, <1>3, <2>1 DEF SingleInv
<1> QED
  BY <1>4, <1>5

\* A write in Google of a content that no other event there has.
LEMMA WriteCopies ==
  ASSUME TypeOK, SyncInv, SingleInv, NEW x \in Ids, Writes(x),
         UNCHANGED <<body, home, updated, mapping>>,
         gbody'[x] <= now + 1, \A y \in Ids : y # x => gbody'[y] = gbody[y],
         \A y \in Ids : y # x /\ glive'[x] /\ glive[y] => gbody[y] # gbody'[x],
         \A e \in home : glive'[x] /\ body[e] = gbody'[x] => Belongs(x, e)',
         \A y \in Ids, e \in home : y # x /\ glive[y] /\ Belongs(y, e) => Belongs(y, e)',
         x \in Events => updated[x] # 0,
         \A y \in Events : glive'[y] => mapping[y].exists \/ (pc' = "insert" /\ cur'.id = y)
  PROVE  TimesInv' /\ CopiesInv' /\ OwnInv'
<1>1. /\ now' = now + 1 /\ now \in Nat
      /\ \A y \in Ids : y # x => gver'[y] = gver[y] /\ glive'[y] = glive[y]
      /\ home \subseteq Events /\ Events \subseteq Ids
      /\ \A y \in Ids : gbody[y] \in Nat
      /\ \A e \in Events : body[e] \in Nat
  BY DEF TypeOK, Writes, Ids
<1>2. TimesInv'
  BY <1>1 DEF SingleInv, TimesInv
<1>3. CopiesInv'
  <2>1. \A d, e \in home : body[d] = body[e] => d = e
    BY DEF SingleInv, CopiesInv
  <2>2. ASSUME NEW y \in Ids, NEW z \in Ids, glive'[y], glive'[z], gbody'[y] = gbody'[z] PROVE y = z
    BY <1>1, <2>2 DEF SingleInv, CopiesInv
  <2>3. ASSUME NEW e \in home, NEW y \in Ids, glive'[y], body[e] = gbody'[y] PROVE Belongs(y, e)'
    BY <1>1, <2>3 DEF SingleInv, CopiesInv
  <2> QED
    BY <2>1, <2>2, <2>3 DEF CopiesInv
<1>4. OwnInv'
  BY <1>1 DEF SingleInv, OwnInv
<1> QED
  BY <1>2, <1>3, <1>4

\* Google's users write what was nowhere before, or delete.
LEMMA GoogleUserCopies ==
  ASSUME TypeOK, SyncInv, SingleInv, NEW x \in Ids, Writes(x),
         UNCHANGED <<body, home, updated, mapping, pc, inbox, cur, work>>,
         gbody'[x] <= now + 1, \A y \in Ids : y # x => gbody'[y] = gbody[y],
         glive'[x] => gbody'[x] = now + 1,
         x \in Events => glive[x]
  PROVE  SingleInv'
<1>1. /\ now' = now + 1 /\ now \in Nat
      /\ \A y \in Ids : gbody[y] \in Nat /\ gbody[y] <= now
      /\ \A e \in home : body[e] \in Nat /\ body[e] <= now
      /\ \A y \in Ids : y # x => glive'[y] = glive[y]
      /\ Events \subseteq Ids
  BY DEF TypeOK, Writes, SingleInv, TimesInv, Ids
<1>2. \A y \in Ids : glive'[x] => gbody[y] # gbody'[x]
  BY <1>1
<1>3. \A e \in home : glive'[x] => body[e] # gbody'[x]
  BY <1>1
<1>4. \A y \in Ids, e \in home : Belongs(y, e) => Belongs(y, e)'
  BY DEF Belongs
<1>5. x \in Events => updated[x] # 0
  BY DEF SyncInv, ClockInv, SingleInv, OwnInv
<1>6. \A y \in Events : glive'[y] => mapping[y].exists \/ (pc' = "insert" /\ cur'.id = y)
  BY <1>1 DEF SingleInv, OwnInv
<1>7. TimesInv' /\ CopiesInv' /\ OwnInv'
  BY <1>2, <1>3, <1>4, <1>5, <1>6, WriteCopies
<1>8. CreateInv'
  BY DEF SingleInv, CreateInv
<1>9. ASSUME NEW i \in Items, SafeCopy(i) PROVE SafeCopy(i)'
  <2>1. i.body \in Nat /\ i.body <= now
    BY <1>9, ItemTypes DEF SafeCopy
  <2>2. i.body <= now' /\ (glive'[x] => gbody'[x] # i.body)
    BY <1>1, <2>1
  <2> QED
    BY <1>1, <1>9, <2>2 DEF SafeCopy
<1>10. PendingInv'
  <2>1. pc \in Pulling => \A i \in inbox : SafeCopy(i)'
    BY <1>9 DEF SingleInv, PendingInv, TypeOK
  <2>2. ASSUME pc = "apply" PROVE SafeCopy(cur)'
    <3>1. PICK i \in Items : i = cur /\ SafeCopy(i)
      BY <2>2, Places DEF SingleInv, PendingInv, TypeOK
    <3>2. SafeCopy(i)'
      BY <1>9, <3>1
    <3> QED
      BY <3>1, <3>2 DEF SafeCopy
  <2> QED
    BY <2>1, <2>2 DEF SingleInv, PendingInv
<1> QED
  BY <1>7, <1>8, <1>10 DEF SingleInv

\* Google's users, and its token, at any time.
LEMMA ElsewhereCopies ==
  ASSUME TypeOK, SyncInv, SingleInv, Elsewhere \/ UNCHANGED vars
  PROVE  SingleInv'
<1>1. CASE TokenExpires \/ UNCHANGED vars
  <2>1. UNCHANGED <<now, updated, gver, glive, gbody, body, home, mapping, pc, inbox, cur, work>>
    BY <1>1 DEF TokenExpires, vars, google, local, jobVars
  <2>2. TimesInv' /\ CopiesInv' /\ OwnInv'
    BY <2>1 DEF SingleInv, TimesInv, CopiesInv, OwnInv, Belongs
  <2>3. CreateInv'
    BY <2>1 DEF SingleInv, CreateInv
  <2>4. PendingInv'
    BY <2>1 DEF SingleInv, PendingInv, SafeCopy
  <2> QED
    BY <2>2, <2>3, <2>4 DEF SingleInv
<1>2. ASSUME NEW x \in Ids, GoogleEdit(x) \/ GoogleDelete(x) PROVE SingleInv'
  <2>1. UNCHANGED <<body, home, updated, mapping, pc, inbox, cur, work>>
    BY <1>2 DEF GoogleEdit, GoogleDelete, local, jobVars
  <2>2. now \in Nat /\ now + 1 \in Nat /\ now <= now + 1 /\ now + 1 <= now + 1
    BY DEF TypeOK
  <2>3. CASE GoogleEdit(x)
    <3>1. GoogleWrites(x, TRUE, now + 1) /\ (glive[x] \/ (x \in Foreign /\ gver[x] = 0))
      BY <2>3 DEF GoogleEdit
    <3>2. Writes(x)
      BY <2>2, <3>1, WriteFacts
    <3>3. PICK b \in Nat : b = now + 1 /\ GoogleWrites(x, TRUE, b)
      BY <2>2, <3>1
    <3>4. gbody'[x] = b /\ \A y \in Ids : y # x => gbody'[y] = gbody[y]
      BY <3>3, WriteBody
    <3>5. x \in Events => glive[x]
      BY <3>1, CalendarAssumption
    <3> QED
      BY <2>1, <2>2, <3>2, <3>3, <3>4, <3>5, GoogleUserCopies
  <2>4. CASE GoogleDelete(x)
    <3>1. GoogleWrites(x, FALSE, gbody[x]) /\ glive[x]
      BY <2>4 DEF GoogleDelete
    <3>2. gbody[x] \in Nat /\ gbody[x] <= now + 1
      BY <2>2 DEF TypeOK, SingleInv, TimesInv
    <3>3. Writes(x)
      BY <3>1, <3>2, WriteFacts
    <3>4. PICK b \in Nat : b = gbody[x] /\ GoogleWrites(x, FALSE, b)
      BY <3>1, <3>2
    <3>5. /\ gbody'[x] = b /\ ~glive'[x] /\ \A y \in Ids : y # x => gbody'[y] = gbody[y]
      BY <3>4, WriteBody
    <3> QED
      BY <2>1, <3>1, <3>2, <3>3, <3>4, <3>5, GoogleUserCopies
  <2> QED
    BY <1>2, <2>3, <2>4
<1> QED
  BY <1>1, <1>2 DEF Elsewhere

\* An event without a mapping is created in Google, where nothing has its content.
LEMMA PostCopies ==
  ASSUME TypeOK, SyncInv, LinkInv, SettledInv, SingleInv, NEW item \in work, PostEvent(item)
  PROVE  SingleInv'
<1>1. /\ pc = "post" /\ pc' = "insert" /\ work' = work \ {item}
      /\ cur' = [item EXCEPT !.ver = gver'[item.id]]
      /\ UNCHANGED <<body, home, updated, mapping>>
  BY DEF PostEvent, Goto, local
<1>2. item \in Items /\ item.id \in Ids /\ item.event \in Events \cup {NoEvent} /\ item.body \in Nat
  BY ItemTypes DEF TypeOK
<1>3. item.id = item.event /\ item.event \in home /\ item.body = body[item.event]
  BY <1>1 DEF SettledInv, WorkInv
<1>4. PICK x \in Ids : x = item.id
  BY <1>2
<1>5. x \in Events /\ item.body # 0 /\ item.body = body[x] /\ x \in home /\ updated[x] # 0
  BY <1>3, <1>4 DEF SettledInv, HomeInv, LinkInv, TypeOK
<1>6. gver'[x] \in Nat => cur'.id = x /\ cur'.event = x
  <2>1. ASSUME NEW v \in Nat, v = gver'[x] PROVE cur'.id = x /\ cur'.event = x
    BY <1>1, <1>2, <1>3, <1>4, <2>1, AnsweredFields
  <2> QED
    BY <2>1
<1>7. \A y \in Ids : mapping[y].event # x
  BY <1>1, <1>3, <1>4 DEF SingleInv, CreateInv
<1>8. ASSUME gver'[x] \in Nat PROVE CreateInv' /\ PendingInv'
  <2>1. \A i \in work' : i.event # x
    BY <1>1, <1>3, <1>4 DEF SingleInv, CreateInv
  <2>2. CreateInv'
    BY <1>1, <1>6, <1>7, <1>8, <2>1 DEF SingleInv, CreateInv
  <2> QED
    BY <1>1, <2>2, Places DEF PendingInv
<1>9. CASE gver[x] = 0
  <2>1. GoogleWrites(x, TRUE, item.body)
    BY <1>4, <1>9 DEF PostEvent
  <2>2. Writes(x)
    BY <1>2, <1>9, <2>1, WriteFacts
  <2>3. gbody'[x] = item.body /\ \A y \in Ids : y # x => gbody'[y] = gbody[y]
    BY <2>1, WriteBody
  <2>4. gver'[x] \in Nat
    BY <2>2 DEF Writes
  <2>5. \A y \in Ids, e \in home : glive[y] /\ body[e] = gbody[y] => mapping[y].event = e
    BY <1>1 DEF SingleInv, CopiesInv, Belongs
  <2>6. \A y \in Ids : glive[y] => gbody[y] # gbody'[x]
    BY <1>5, <1>7, <2>3, <2>5
  <2>7. \A e \in home : body[e] = gbody'[x] => Belongs(x, e)'
    BY <1>1, <1>5, <1>6, <2>3, <2>4 DEF SingleInv, CopiesInv, Belongs
  <2>8. \A y \in Ids, e \in home : Belongs(y, e) => Belongs(y, e)'
    BY <1>1 DEF Belongs
  <2>9. gbody'[x] <= now + 1
    <3>1. body[x] <= now /\ body[x] \in Nat /\ now \in Nat
      BY <1>5 DEF SingleInv, TimesInv, TypeOK
    <3> QED
      BY <1>5, <2>3, <3>1
  <2>10. \A y \in Events : glive'[y] => mapping[y].exists \/ (pc' = "insert" /\ cur'.id = y)
    BY <1>1, <1>6, <2>2, <2>4 DEF SingleInv, OwnInv, Writes, Ids
  <2>11. TimesInv' /\ CopiesInv' /\ OwnInv'
    BY <1>1, <1>5, <2>2, <2>3, <2>6, <2>7, <2>8, <2>9, <2>10, WriteCopies
  <2> QED
    BY <1>8, <2>4, <2>11 DEF SingleInv
<1>10. CASE gver[x] # 0
  <2>1. UNCHANGED <<now, gver, glive, gbody>>
    BY <1>4, <1>10 DEF PostEvent, google
  <2>2. TimesInv' /\ CopiesInv' /\ OwnInv'
    BY <1>1, <2>1, CopyFrame DEF Linking
  <2> QED
    BY <1>8, <2>1, <2>2 DEF SingleInv, TypeOK
<1> QED
  BY <1>9, <1>10

\* A posted event gets its mapping.
LEMMA InsertCopies ==
  ASSUME TypeOK, SyncInv, SingleInv, InsertMapping
  PROVE  SingleInv'
<1>1. /\ pc = "insert" /\ pc' = "post" /\ Insertable(cur.id, cur.event)
      /\ UNCHANGED <<now, body, home, updated, gver, glive, gbody, work>>
  BY DEF InsertMapping, Goto, Rest, local, google
<1>2. PICK x \in Ids : x = cur.id
  BY <1>1, ItemTypes DEF TypeOK, Holding
<1> DEFINE n == NewMapping(cur.event, cur.ver)
<1>3. mapping' = [mapping EXCEPT ![x] = n]
  BY <1>2 DEF InsertMapping
<1>4. n \in Mappings /\ n.exists /\ n.event = cur.event
  <2>1. cur.event \in Events \cup {NoEvent} /\ cur.ver \in Nat
    BY ItemTypes DEF TypeOK
  <2> QED
    BY <2>1, NewMappingFields
<1> HIDE DEF n
<1>5. mapping'[x] = n /\ \A y \in Ids : y # x => mapping'[y] = mapping[y]
  BY <1>3, <1>4, OneMapping
<1>6. cur.event = x /\ mapping[x].event = NoEvent /\ NoEvent \notin home
  BY <1>1, <1>2, NoMappingFields, CalendarAssumption
     DEF Insertable, SingleInv, CreateInv, SyncInv, MappingInv, SafeMapping, TypeOK
<1>7. TimesInv'
  BY <1>1 DEF SingleInv, TimesInv
<1>8. CopiesInv'
  <2>1. ASSUME NEW e \in home, NEW y \in Ids, glive[y], body[e] = gbody[y] PROVE mapping'[y].event = e
    <3>1. Belongs(y, e)
      BY <2>1 DEF SingleInv, CopiesInv
    <3> QED
      BY <1>2, <1>4, <1>5, <1>6, <3>1 DEF Belongs
  <2> QED
    BY <1>1, <2>1 DEF SingleInv, CopiesInv, Belongs
<1>9. OwnInv'
  BY <1>1, <1>2, <1>4, <1>5, <1>6 DEF SingleInv, OwnInv, Ids, TypeOK
<1>10. CreateInv'
  BY <1>1, <1>4, <1>5 DEF SingleInv, CreateInv
<1>11. PendingInv'
  BY <1>1, Places DEF PendingInv
<1> QED
  BY <1>7, <1>8, <1>9, <1>10, <1>11 DEF SingleInv

\* A push deletes in Google, or writes there what the event of the mapping has.
LEMMA PushCopies ==
  ASSUME TypeOK, SyncInv, LinkInv, SettledInv, SingleInv,
         NEW item \in work, PushDelete(item) \/ PushUpdate(item)
  PROVE  SingleInv'
<1>1. /\ pc = "push" /\ pc' \in {"forget", "store"} /\ Accepts(item)
      /\ UNCHANGED <<body, home, updated, mapping>>
  BY DEF PushDelete, PushUpdate, Goto, local
<1>2. item \in Items /\ item.id \in Ids /\ item.body \in Nat
  BY ItemTypes DEF TypeOK
<1>3. PICK x \in Ids : x = item.id
  BY <1>2
<1>4. glive[x] /\ gver[x] # 0
  BY <1>1, <1>3 DEF Accepts, SyncInv, ClockInv
<1>5. x \in Events => updated[x] # 0
  BY <1>4 DEF SingleInv, OwnInv
<1>6. \A y \in Ids, e \in home : Belongs(y, e) => mapping[y].event = e /\ Belongs(y, e)'
  BY <1>1 DEF Belongs
<1>7. CreateInv' /\ PendingInv'
  BY <1>1, CopyElsewhere, Places
<1>8. \A y \in Events : glive[y] => mapping[y].exists
  BY <1>1 DEF SingleInv, OwnInv
<1>9. now \in Nat /\ (\A y \in Ids : gbody[y] \in Nat /\ gbody[y] <= now)
      /\ \A e \in home : body[e] \in Nat /\ body[e] <= now
  BY DEF SingleInv, TimesInv, TypeOK
<1>10. CASE PushDelete(item)
  <2>1. PICK b \in Nat : b = gbody[x] /\ GoogleWrites(x, FALSE, b)
    BY <1>3, <1>9, <1>10 DEF PushDelete
  <2>2. Writes(x)
    BY <2>1, WriteFacts
  <2>3. gbody'[x] = b /\ ~glive'[x] /\ \A y \in Ids : y # x => gbody'[y] = gbody[y]
    BY <2>1, WriteBody
  <2>4. gbody'[x] <= now + 1
    BY <1>9, <2>1, <2>3
  <2>5. \A y \in Events : glive'[y] => mapping[y].exists \/ (pc' = "insert" /\ cur'.id = y)
    BY <1>8, <2>2, <2>3 DEF Writes, Ids
  <2>6. TimesInv' /\ CopiesInv' /\ OwnInv'
    BY <1>1, <1>5, <1>6, <2>2, <2>3, <2>4, <2>5, WriteCopies
  <2> QED
    BY <1>7, <2>6 DEF SingleInv
<1>11. CASE PushUpdate(item)
  <2>1. item.event # NoEvent /\ GoogleWrites(x, TRUE, item.body)
    BY <1>3, <1>11 DEF PushUpdate
  <2>2. PICK e \in home : e = item.event /\ mapping[x].event = e /\ item.body = body[e]
    BY <1>1, <1>3, <2>1 DEF SettledInv, WorkInv, HomeInv
  <2>3. Writes(x)
    BY <1>2, <1>4, <2>1, WriteFacts
  <2>4. gbody'[x] = body[e] /\ \A y \in Ids : y # x => gbody'[y] = gbody[y]
    BY <2>1, <2>2, WriteBody
  <2>5. gbody'[x] <= now + 1
    BY <1>9, <2>4
  <2>6. \A y \in Ids : y # x /\ glive[y] => gbody[y] # gbody'[x]
    <3>1. \A y \in Ids : mapping[y].event = e => y = x
      BY <2>1, <2>2 DEF LinkInv
    <3> QED
      BY <1>6, <2>4, <3>1 DEF SingleInv, CopiesInv
  <2>7. \A d \in home : body[d] = gbody'[x] => Belongs(x, d)'
    BY <1>1, <2>2, <2>4 DEF SingleInv, CopiesInv, Belongs
  <2>8. \A y \in Events : glive'[y] => mapping[y].exists \/ (pc' = "insert" /\ cur'.id = y)
    BY <1>4, <1>8, <2>3 DEF Writes, Ids
  <2>9. TimesInv' /\ CopiesInv' /\ OwnInv'
    BY <1>1, <1>5, <1>6, <2>3, <2>4, <2>5, <2>6, <2>7, <2>8, WriteCopies
  <2> QED
    BY <1>7, <2>9 DEF SingleInv
<1> QED
  BY <1>10, <1>11

\* Mappings keep their events, but for one whose event is gone from Google.
LEMMA MarkedCopies ==
  ASSUME TypeOK, SingleInv, pc \notin Linking, pc' \notin Linking,
         UNCHANGED <<now, body, home, updated, gver, glive, gbody>>,
         \A y \in Ids :
             \/ mapping'[y].event = mapping[y].event /\ mapping'[y].exists = mapping[y].exists
             \/ ~mapping'[y].exists /\ ~glive[y]
  PROVE  TimesInv' /\ CopiesInv' /\ OwnInv'
<1>1. home \subseteq Ids /\ Events \subseteq Ids
  BY DEF TypeOK, Ids
<1>2. TimesInv'
  BY DEF SingleInv, TimesInv
<1>3. CopiesInv'
  <2>1. ASSUME NEW e \in home, NEW y \in Ids, glive[y], body[e] = gbody[y] PROVE mapping'[y].event = e
    BY <2>1 DEF SingleInv, CopiesInv, Belongs, Linking
  <2> QED
    BY <2>1 DEF SingleInv, CopiesInv, Belongs
<1>4. OwnInv'
  BY <1>1 DEF SingleInv, OwnInv, Linking
<1> QED
  BY <1>2, <1>3, <1>4

\* After a DELETE the mapping goes, after a PUT it gets the new version.
LEMMA PushedCopies ==
  ASSUME TypeOK, SyncInv, SingleInv, ForgetMapping \/ StorePushed
  PROVE  SingleInv'
<1>1. /\ pc \in {"forget", "store"} /\ pc' = "push"
      /\ UNCHANGED <<now, body, home, updated, gver, glive, gbody>>
  BY DEF ForgetMapping, StorePushed, Goto, Rest, local, google
<1>2. PICK x \in Ids : x = cur.id
  BY <1>1, ItemTypes DEF TypeOK, Holding
<1>3. PICK m \in Mappings : m = mapping[x]
  BY DEF TypeOK
<1>4. ASSUME NEW n \in Mappings, mapping' = [mapping EXCEPT ![x] = n],
             (n.event = m.event /\ n.exists = m.exists) \/ (~n.exists /\ ~glive[x])
      PROVE  SingleInv'
  <2>1. mapping'[x] = n /\ \A y \in Ids : y # x => mapping'[y] = mapping[y]
    BY <1>4, OneMapping
  <2>2. \A y \in Ids :
            \/ mapping'[y].event = mapping[y].event /\ mapping'[y].exists = mapping[y].exists
            \/ ~mapping'[y].exists /\ ~glive[y]
    BY <1>3, <1>4, <2>1
  <2>3. TimesInv' /\ CopiesInv' /\ OwnInv'
    BY <1>1, <2>2, MarkedCopies DEF Linking
  <2> QED
    BY <1>1, <2>3, CopyElsewhere, Places DEF SingleInv
<1>5. CASE ForgetMapping
  <2>1. mapping' = [mapping EXCEPT ![x] = NoMapping] /\ ~glive[x]
    BY <1>2, <1>5 DEF ForgetMapping, SyncInv, PushInv
  <2> QED
    BY <1>4, <2>1, NoMappingFields
<1>6. CASE StorePushed
  <2> DEFINE n == [m EXCEPT !.etag = cur.ver, !.dirty = FALSE]
  <2>1. mapping' = [mapping EXCEPT ![x] = n]
    BY <1>2, <1>3, <1>6 DEF StorePushed
  <2>2. n \in Mappings /\ n.exists = m.exists /\ n.event = m.event
    BY ItemTypes, StoredFields DEF TypeOK
  <2> HIDE DEF n
  <2> QED
    BY <1>4, <2>1, <2>2
<1> QED
  BY <1>5, <1>6

\* An event is created or edited: its content is nowhere else.
LEMMA ChangeCopies ==
  ASSUME TypeOK, SyncInv, SingleInv, pc = "idle", pc' = "idle",
         NEW e \in Events, CreateEvent(e) \/ UpdateEvent(e)
  PROVE  TimesInv' /\ CopiesInv' /\ OwnInv'
<1>1. /\ now' = now + 1 /\ home' = home \cup {e} /\ UNCHANGED <<gver, glive, gbody>>
      /\ MarkChanged(e) /\ (e \in home \/ updated[e] = 0)
      /\ body' = [body EXCEPT ![e] = now'] /\ updated' = [updated EXCEPT ![e] = now']
  BY DEF CreateEvent, UpdateEvent, Request, Edit, google
<1>2. /\ now \in Nat /\ home \subseteq Events /\ Events \subseteq Ids
      /\ \A d \in Events : body[d] \in Nat /\ body[d] <= now
      /\ \A y \in Ids : gbody[y] \in Nat /\ gbody[y] <= now
  BY DEF TypeOK, Ids, SingleInv, TimesInv
<1>3. /\ body'[e] = now + 1 /\ updated'[e] = now + 1
      /\ \A d \in Events : d # e => body'[d] = body[d] /\ updated'[d] = updated[d]
  BY <1>1 DEF TypeOK
<1>4. ASSUME NEW y \in Ids
      PROVE  mapping'[y].event = mapping[y].event /\ mapping'[y].exists = mapping[y].exists
  <2>1. mapping[y] \in Mappings
    BY DEF TypeOK
  <2> DEFINE c == [mapping[y] EXCEPT !.dirty = TRUE, !.deleted = FALSE]
  <2>2. c.event = mapping[y].event /\ c.exists = mapping[y].exists
    BY <2>1, MarkedFields
  <2>3. mapping'[y] = IF y \in MappingOf(e) THEN c ELSE mapping[y]
    BY <1>1 DEF MarkChanged
  <2> HIDE DEF c
  <2> QED
    BY <2>2, <2>3
<1>5. TimesInv'
  BY <1>1, <1>2, <1>3 DEF TimesInv
<1>6. CopiesInv'
  <2>1. \A c, d \in home' : body'[c] = body'[d] => c = d
    BY <1>1, <1>2, <1>3 DEF SingleInv, CopiesInv
  <2>2. ASSUME NEW d \in home', NEW y \in Ids, glive[y], body'[d] = gbody[y]
        PROVE  mapping'[y].event = d
    <3>1. d # e
      BY <1>2, <1>3, <2>2
    <3>2. d \in home /\ body[d] = gbody[y]
      BY <1>1, <1>2, <1>3, <2>2, <3>1
    <3> QED
      BY <1>4, <2>2, <3>2 DEF SingleInv, CopiesInv, Belongs
  <2> QED
    BY <1>1, <2>1, <2>2 DEF SingleInv, CopiesInv, Belongs
<1>7. OwnInv'
  <2>1. mapping[e].exists => mapping[e].event = e
    BY <1>1, <1>2 DEF SingleInv, OwnInv, SyncInv, ClockInv
  <2>2. \A y \in Events : gver[y] # 0 => updated'[y] # 0
    BY <1>2, <1>3 DEF SingleInv, OwnInv
  <2> QED
    BY <1>1, <1>2, <1>4, <2>1, <2>2 DEF SingleInv, OwnInv
<1> QED
  BY <1>5, <1>6, <1>7

\* An event is deleted, and its mapping unlinked.
LEMMA RemovalCopies ==
  ASSUME TypeOK, SyncInv, SingleInv, pc = "idle", pc' = "idle", NEW e \in Events, DeleteEvent(e)
  PROVE  TimesInv' /\ CopiesInv' /\ OwnInv'
<1>1. /\ now' = now + 1 /\ home' = home \ {e} /\ UNCHANGED <<gver, glive, gbody, updated>>
      /\ MarkDeleted(e) /\ body' = [body EXCEPT ![e] = 0]
  BY DEF DeleteEvent, Request, Edit, google
<1>2. /\ now \in Nat /\ home \subseteq Events /\ Events \subseteq Ids
      /\ \A d \in Events : body[d] \in Nat /\ body[d] <= now
      /\ \A y \in Ids : gbody[y] \in Nat /\ gbody[y] <= now
  BY DEF TypeOK, Ids, SingleInv, TimesInv
<1>3. body'[e] = 0 /\ \A d \in Events : d # e => body'[d] = body[d]
  BY <1>1 DEF TypeOK
<1>4. ASSUME NEW y \in Ids
      PROVE  /\ mapping'[y].exists = mapping[y].exists
             /\ \A d \in home' : mapping[y].event = d => mapping'[y].event = d
  <2>1. mapping[y] \in Mappings
    BY DEF TypeOK
  <2> DEFINE c == [mapping[y] EXCEPT !.dirty = FALSE, !.deleted = TRUE, !.event = NoEvent]
  <2>2. c.exists = mapping[y].exists
    BY <2>1, MarkedFields
  <2>3. mapping'[y] = IF y \in MappingOf(e) THEN c ELSE mapping[y]
    BY <1>1 DEF MarkDeleted
  <2> HIDE DEF c
  <2> QED
    BY <1>1, <2>2, <2>3 DEF MappingOf
<1>5. TimesInv'
  BY <1>1, <1>2, <1>3 DEF TimesInv
<1>6. CopiesInv'
  <2>1. \A d \in home' : d \in home /\ body'[d] = body[d]
    BY <1>1, <1>2, <1>3
  <2>2. ASSUME NEW d \in home', NEW y \in Ids, glive[y], body'[d] = gbody[y]
        PROVE  mapping'[y].event = d
    BY <1>4, <2>1, <2>2 DEF SingleInv, CopiesInv, Belongs
  <2> QED
    BY <1>1, <2>1, <2>2 DEF SingleInv, CopiesInv, Belongs
<1>7. OwnInv'
  BY <1>1, <1>2, <1>4 DEF SingleInv, OwnInv
<1> QED
  BY <1>5, <1>6, <1>7

\* Requests between jobs, other than a move to another calendar, make no copy.
LEMMA UserCopies ==
  ASSUME BusyOperations = {}, "move" \notin Operations, TypeOK, SyncInv, SingleInv, User
  PROVE  SingleInv'
<1>1. pc = "idle" /\ pc' = "idle"
  BY QuietRequest
<1>2. CreateInv' /\ PendingInv'
  BY <1>1, CopyElsewhere, Places
<1>3. ASSUME NEW e \in Events,
             CreateEvent(e) \/ UpdateEvent(e) \/ DeleteEvent(e) \/ MoveAway(e) \/ MoveInto(e)
      PROVE  TimesInv' /\ CopiesInv' /\ OwnInv'
  BY <1>1, <1>3, ChangeCopies, RemovalCopies DEF MoveAway, MoveInto, Request
<1>4. ASSUME NEW x \in Ids, NEW choice \in Choices, ResolveConflict(x, choice)
      PROVE  TimesInv' /\ CopiesInv' /\ OwnInv'
  <2>1. UNCHANGED <<now, body, home, updated, gver, glive, gbody>>
    BY <1>4 DEF ResolveConflict, local, google
  <2>2. PICK m \in Mappings : m = mapping[x]
    BY DEF TypeOK
  <2> DEFINE g == [m EXCEPT !.conflict = FALSE, !.dirty = FALSE, !.deleted = FALSE, !.etag = 0,
                            !.pending = choice]
             d == [m EXCEPT !.conflict = FALSE, !.dirty = TRUE, !.pending = choice]
             n == IF choice = "google" THEN g ELSE d
  <2>3. mapping' = [mapping EXCEPT ![x] = n]
    BY <1>4, <2>2 DEF ResolveConflict
  <2>4. g \in Mappings /\ d \in Mappings
    BY CalendarAssumption, ResolvedFields
  <2>5. g.event = m.event /\ g.exists = m.exists /\ d.event = m.event /\ d.exists = m.exists
    BY DEF Mappings
  <2> HIDE DEF g, d
  <2>6. n \in Mappings /\ n.event = m.event /\ n.exists = m.exists
    BY <2>4, <2>5
  <2> HIDE DEF n
  <2>7. mapping'[x] = n /\ \A y \in Ids : y # x => mapping'[y] = mapping[y]
    BY <2>3, <2>6, OneMapping
  <2>8. \A y \in Ids :
          mapping'[y].event = mapping[y].event /\ mapping'[y].exists = mapping[y].exists
    BY <2>2, <2>6, <2>7
  <2> QED
    BY <1>1, <2>1, <2>8, MarkedCopies DEF Linking
<1>5. TimesInv' /\ CopiesInv' /\ OwnInv'
  BY <1>3, <1>4 DEF User
<1> QED
  BY <1>2, <1>5 DEF SingleInv

\* Every step but a failure keeps the copies apart.
LEMMA NextCopies ==
  ASSUME BusyOperations = {}, "move" \notin Operations,
         TypeOK, SyncInv, LinkInv, FreshInv, SettledInv, CopyInv, [Next]_vars
  PROVE  CopyInv'
<1> SUFFICES ASSUME faults' = 0 PROVE SingleInv'
  BY DEF CopyInv
<1>1. ~Fault
  BY DEF Fault, TypeOK
<1>2. faults = 0
  <2>1. CASE Job
    BY <2>1 DEF Job, StartSync, PullFully, ListChanges, ReadMapping, SkipChange, OpenConflict,
         MarkConflict, KeepLocal, ApplyDeletion, Unmap, UpdateCanonical, InsertCanonical, Relink,
         Baseline, Link, FinishPull, SelectUnmapped, PostEvent, InsertMapping, SelectDirty,
         PushDelete, PushUpdate, ForgetMapping, StorePushed, EndSync, FailSync, Rest
  <2>2. CASE User \/ Elsewhere \/ UNCHANGED vars
    BY <2>2 DEF User, CreateEvent, UpdateEvent, DeleteEvent, MoveAway, MoveInto, ResolveConflict,
         Request, Elsewhere, TokenExpires, GoogleEdit, GoogleDelete, vars
  <2> QED
    BY <1>1, <2>1, <2>2 DEF Next
<1>3. SingleInv
  BY <1>2 DEF CopyInv
<1>4. CASE StartSync \/ PullFully \/ EndSync \/ FailSync
  BY <1>3, <1>4, OutsideCopies
<1>5. CASE SkipChange \/ MarkConflict \/ KeepLocal \/ Unmap \/ Baseline \/ Link
  BY <1>3, <1>5, DoneSteps
<1>6. CASE ListChanges \/ (\E item \in inbox : ReadMapping(item)) \/ OpenConflict \/ FinishPull
  BY <1>3, <1>6, ListCopies, ReadCopies, IdleCopies
<1>7. CASE ApplyDeletion \/ UpdateCanonical \/ (\E e \in Events : InsertCanonical(e)) \/ Relink
  BY <1>3, <1>7, DeletionCopies, UpdateCopies, ImportCopies, RelinkCopies
<1>8. CASE SelectUnmapped \/ (\E item \in work : PostEvent(item)) \/ InsertMapping \/ SelectDirty
  BY <1>3, <1>8, SelectCopies, PostCopies, InsertCopies
<1>9. CASE (\E item \in work : PushDelete(item) \/ PushUpdate(item)) \/ ForgetMapping \/ StorePushed
  BY <1>3, <1>9, PushCopies, PushedCopies
<1>10. CASE User \/ Elsewhere \/ UNCHANGED vars
  BY <1>3, <1>10, UserCopies, ElsewhereCopies
<1> QED
  BY <1>1, <1>4, <1>5, <1>6, <1>7, <1>8, <1>9, <1>10 DEF Next, Job

\* Nothing is there at the start.
LEMMA InitCopies == Init => CopyInv
<1> SUFFICES ASSUME Init PROVE SingleInv
  BY DEF CopyInv
<1>1. /\ \A x \in Ids : mapping[x] = NoMapping /\ gver[x] = 0 /\ ~glive[x] /\ gbody[x] = 0
      /\ \A e \in Events : body[e] = 0 /\ e \in Ids
      /\ home = {} /\ pc = "idle" /\ now = 1
  BY DEF Init, Ids
<1>2. TimesInv /\ CopiesInv /\ OwnInv
  BY <1>1 DEF TimesInv, CopiesInv, OwnInv
<1>3. CreateInv /\ PendingInv
  BY <1>1, Places DEF CreateInv, PendingInv
<1> QED
  BY <1>2, <1>3 DEF SingleInv

\* No event is in the calendar twice, here or in Google, whatever the users of both change
\* and whatever Google refuses, as long as no job is cut short, the user's requests come
\* between jobs and none of them moves an event between calendars.
THEOREM EventsHaveOneCopy ==
  ASSUME BusyOperations = {}, "move" \notin Operations
  PROVE  Spec => []OneCopyOfEachEvent
<1>1. Init => SettledInv /\ FreshInv /\ CopyInv
  BY InitSettles, InitCopies DEF Init, FreshInv
<1>2. TypeOK /\ SyncInv /\ LinkInv /\ SettledInv /\ FreshInv /\ CopyInv /\ [Next]_vars
        => SettledInv' /\ FreshInv' /\ CopyInv'
  BY NextSettles, FreshStep, NextCopies
<1>3. CopyInv => OneCopyOfEachEvent
  BY DEF CopyInv, SingleInv, CopiesInv, OneCopyOfEachEvent
<1>4. Spec => [](TypeOK /\ SyncInv /\ LinkInv)
  <2>1. "resolve" \notin BusyOperations
    OBVIOUS
  <2> QED
    BY <2>1, LinkInvariant
<1> QED
  BY <1>1, <1>2, <1>3, <1>4, PTL DEF Spec
=============================================================================
