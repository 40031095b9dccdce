---------------------------- MODULE GoogleWatch ----------------------------
(***************************************************************************)
(* Push notifications of Google Calendar: how a watch channel is opened,   *)
(* stored, renewed, replaced and closed, and how a notification becomes a  *)
(* synchronization job.                                                    *)
(*                                                                         *)
(* One user and one calendar of Google.  The row that stands for it in     *)
(* `calendars` may be deleted and discovered again, each time with a new   *)
(* id.  The jobs of one user run one at a time (the advisory lock of       *)
(* SyncJobs), and a job whose process dies stays "running" for good, so    *)
(* that it is lost; a job that fails returns to the queue until it is      *)
(* given up.  Requests, notifications and time go on between the steps of  *)
(* a job.  Time is counted in the six hours of a renewal bucket.           *)
(***************************************************************************)
EXTENDS Naturals, Sequences

CONSTANTS
    TTL,            \* life of a channel in Google (seven days)
    Guess,          \* life assumed when Google answers no expiration (six days)
    Margin,         \* a channel that ends within it is renewed (24 hours)
    MaxTime, MaxCalendars, MaxChannels, MaxChanges, MaxUpsets

ASSUME LifeAssumption ==
    /\ {TTL, Guess, Margin} \subseteq Nat \ {0}
    /\ Margin < Guess
    /\ Guess <= TTL

ASSUME BoundAssumption ==
    {MaxTime, MaxCalendars, MaxChannels, MaxChanges, MaxUpsets} \subseteq Nat

VARIABLES
    connected,  \* the row of google_accounts exists
    cal,        \* the row of `calendars` for the calendar in Google
    row,        \* its row of google_watch_channels
    jobs,       \* jobs that wait: pending, or failed with attempts left
    keys,       \* idempotency keys of the calendar's jobs, waiting or done
    run,        \* the job that runs and its local variables
    web,        \* an update_calendar request between its statements
    channels,   \* Google: the channels it was asked for
    changes,    \* Google: revision of the calendar
    wire,       \* notifications on their way
    now, born, upsets,
    excused, strays, bucket, lapses, cut   \* see Observation below

app == <<connected, cal, row, jobs, keys, run, web, born>>
google == <<channels, changes, wire>>
ghosts == <<excused, strays, bucket, lapses, cut>>
vars == <<app, google, now, upsets, ghosts>>

NoCalendar == [id |-> 0, selected |-> FALSE, writer |-> FALSE, seen |-> 0]
NoRow == [channel |-> 0, expires |-> 0]

Job(kind, calendar) == [kind |-> kind, calendar |-> calendar]
SyncJob(c) == Job("sync", c)
WatchJob(c) == Job("watch", c)
DiscoverJob == Job("discover", 0)
RevokeJob == Job("revoke", 0)

\* The idempotency keys that can come up twice; the others hold a version, a channel or
\* the time of a request.
WatchKey(time) == <<"calendar-watch", time, 0>>
NoticeKey(ch, number) == <<"google-watch", ch, number>>

Idle == [job |-> Job("none", 0), step |-> "idle", channel |-> 0, expires |-> 0, old |-> 0]

(***************************************************************************)
(* Observation.  What the properties need and the program does not keep:   *)
(* excused - the next change may be missed: a notification was lost or a   *)
(*           job died or was given up, and no synchronization has read the *)
(*           calendar since;                                               *)
(* strays  - channels nobody will stop: their job died or their stop call  *)
(*           failed, or their row went with the calendar or by its guessed *)
(*           end;                                                          *)
(* bucket  - the renewal in this bucket: "open" until it has been looked   *)
(*           for, then "checked"; "lost" when a job was, or the calendar   *)
(*           was not to be watched all the time;                           *)
(* lapses  - how many buckets in a row, up to Margin, had no renewal that  *)
(*           got through;                                                  *)
(* cut     - a revocation stopped the stored channel and has not finished. *)
(***************************************************************************)

\* The calendars enqueue_expiring_calendar_watches and watch_calendar select.
Watchable == cal.id # 0 /\ cal.selected /\ cal.writer

Covered == row.channel # 0 /\ row.expires > now

\* Fault: renew only what has ended.
WatchDueLate == Watchable /\ ~(row.channel # 0 /\ row.expires > now)
\* Whether the calendar has no channel that outlives the margin.
WatchDue == Watchable /\ ~(row.channel # 0 /\ row.expires > now + Margin)

\* Something that will still read the calendar, or renew its channel and then read it.
Pending ==
    \/ \E j \in jobs : j.kind \in {"sync", "watch"}
    \/ run.step # "idle" /\ run.job.kind = "watch" /\ run.job.calendar = cal.id
    \/ /\ DiscoverJob \in jobs \/ (run.step = "enqueue" /\ run.job.kind = "discover")
       /\ WatchDue /\ WatchKey(now) \notin keys
    \/ web = cal.id

Alive(ch) == channels[ch].live /\ channels[ch].expires > now

---------------------------------------------------------------------------
(* Queue *)

\* Of the keys in the table only those matter that a job can be inserted under again: of
\* this bucket and of the messages on their way.
Repeatable(ks, messages) ==
    {k \in ks : k = WatchKey(now) \/ \E m \in messages : k = NoticeKey(m.channel, m.number)}

\* INSERT of a job under a key that is new.
Enqueue(job) == jobs' = jobs \cup {job} /\ UNCHANGED keys

\* ON DELETE CASCADE from calendars to sync_jobs and google_watch_channels.
DropCalendar ==
    /\ cal' = NoCalendar
    /\ row' = NoRow
    /\ jobs' = {j \in jobs : j.calendar = 0}
    /\ keys' = {}
    /\ excused' = FALSE /\ cut' = FALSE

Finish == run' = Idle

\* The job returns to the queue, unless its row went with the calendar.
Retry ==
    /\ run' = Idle
    /\ jobs' = jobs \cup {j \in {run.job} : j.calendar \in {0, cal.id}}

Running(kind, step) == run.step = step /\ run.job.kind = kind

Take(kind) == {j \in jobs : run.step = "idle" /\ j.kind = kind}

\* Deletes the channel that has ended and asks for a new one once a bucket, besides
\* the jobs the caller enqueues.
EnqueueExpiringWatches(more) ==
    LET asked == WatchDue /\ WatchKey(now) \notin keys
        ended == row.expires <= now
    IN  /\ row' = IF ended THEN NoRow ELSE row
        /\ jobs' = jobs \cup more \cup {j \in {WatchJob(cal.id)} : asked}
        /\ keys' = keys \cup {k \in {WatchKey(now)} : asked}
        /\ strays' = strays \cup {ch \in {row.channel} \ {0} : ended}
        /\ bucket' = IF Watchable /\ bucket = "open" THEN "checked" ELSE bucket

---------------------------------------------------------------------------
(* Requests and notifications *)

Init ==
    /\ connected = TRUE
    /\ cal = [id |-> 1, selected |-> TRUE, writer |-> TRUE, seen |-> 0]
    /\ row = NoRow /\ keys = {} /\ run = Idle /\ web = 0
    /\ jobs = {}
    /\ channels = <<>> /\ changes = 0 /\ wire = {}
    /\ now = 0 /\ born = 1 /\ upsets = 0
    /\ excused = FALSE /\ strays = {} /\ bucket = "open" /\ lapses = 0 /\ cut = FALSE

\* Requests of the user and faults, bounded together.
Upset == upsets < MaxUpsets /\ upsets' = upsets + 1

\* A job whose calendar is gone fails anyhow, any other one by a fault.
Unlucky == IF run.job.calendar \in {0, cal.id} THEN Upset ELSE UNCHANGED upsets

\* update_calendar: the UPDATE of `selected`; the jobs follow.
UpdateCalendar(selected) ==
    /\ Upset /\ cal.id # 0 /\ web = 0
    /\ cal' = [cal EXCEPT !.selected = selected]
    /\ web' = IF selected THEN cal.id ELSE 0
    /\ bucket' = IF selected THEN bucket ELSE "lost"
    /\ UNCHANGED <<connected, row, jobs, keys, run, born, google, now>>
    /\ UNCHANGED <<excused, strays, lapses, cut>>

\* ... its synchronization job and the renewal; enqueue_sync refuses a calendar that is gone.
UpdateCalendarEnqueues ==
    /\ web # 0 /\ web' = 0
    /\ \/ /\ web = cal.id
          /\ EnqueueExpiringWatches({SyncJob(cal.id)})
       \/ /\ web # cal.id
          /\ UNCHANGED <<row, jobs, keys, strays, bucket>>
    /\ UNCHANGED <<connected, cal, run, born, google, now, upsets>>
    /\ UNCHANGED <<excused, lapses, cut>>

\* The server stops between the two.
UpdateCalendarDies ==
    /\ web # 0 /\ web' = 0 /\ Upset
    /\ excused' = TRUE /\ bucket' = "lost"
    /\ UNCHANGED <<connected, cal, row, jobs, keys, run, born, google, now>>
    /\ UNCHANGED <<strays, lapses, cut>>

\* The channel of a deleted calendar is not stopped.
DeleteCalendar ==
    /\ Upset /\ cal.id # 0
    /\ DropCalendar
    /\ strays' = strays \cup ({row.channel} \ {0})
    /\ UNCHANGED <<connected, run, web, born, google, now, bucket, lapses>>

\* The end of the consent flow: store the credentials, then look for calendars.
Connect ==
    /\ Upset /\ connected' = TRUE
    /\ Enqueue(DiscoverJob)
    /\ UNCHANGED <<cal, row, run, web, born, google, now, ghosts>>

DiscoverGoogleCalendars ==
    /\ Upset /\ Enqueue(DiscoverJob)
    /\ UNCHANGED <<connected, cal, row, run, web, born, google, now, ghosts>>

RevokeGoogle ==
    /\ Upset /\ Enqueue(RevokeJob)
    /\ UNCHANGED <<connected, cal, row, run, web, born, google, now, ghosts>>

\* enqueue_periodic_work at startup, in the worker's loop and for the trigger.  Whether
\* the last synchronization is five minutes old is left open.
Periodic(stale) ==
    /\ EnqueueExpiringWatches({j \in {SyncJob(cal.id)} : stale /\ cal.id # 0 /\ cal.selected})
    /\ UNCHANGED <<connected, cal, run, web, born, google, now, upsets>>
    /\ UNCHANGED <<excused, lapses, cut>>

\* google_calendar_webhook: only a stored channel that has not ended enqueues a job.
\* Google may send a message twice.
Deliver(m, again) ==
    /\ m \in wire
    /\ wire' = IF again THEN wire ELSE wire \ {m}
    /\ LET accepted == Covered /\ row.channel = m.channel
           key == NoticeKey(m.channel, m.number)
       IN  /\ jobs' = jobs \cup {j \in {SyncJob(cal.id)} : accepted /\ key \notin keys}
           /\ keys' = Repeatable(keys \cup {k \in {key} : accepted}, wire')
    /\ UNCHANGED <<connected, cal, row, run, web, born, channels, changes, now, upsets, ghosts>>

\* The message is lost or refused by the rate limit.
Lose(m) ==
    /\ m \in wire /\ wire' = wire \ {m} /\ Upset
    /\ excused' = (excused \/ m.channel = row.channel)
    /\ keys' = Repeatable(keys, wire')
    /\ UNCHANGED <<connected, cal, row, jobs, run, web, born, channels, changes, now, strays, bucket, lapses, cut>>

\* Somebody edits the calendar in Google.
Change ==
    /\ changes < MaxChanges /\ changes' = changes + 1
    /\ wire' = wire \cup {[channel |-> ch, number |-> changes'] :
                            ch \in {c \in DOMAIN channels : Alive(c)}}
    /\ excused' = (excused \/ cut \/ (cal.selected /\ ~Covered /\ ~Pending))
    /\ UNCHANGED <<app, channels, now, upsets, strays, bucket, lapses, cut>>

\* Six hours pass.  Google delivers a message, or drops it, in less.
Tick ==
    /\ now < MaxTime /\ wire = {}
    /\ now' = now + 1
    /\ lapses' = IF /\ bucket = "checked" /\ Watchable
                    /\ ~\E j \in jobs : j.kind = "watch"
                    /\ run.step = "idle" /\ web = 0
                 THEN 0 ELSE IF lapses < Margin THEN lapses + 1 ELSE lapses
    /\ bucket' = "open"
    /\ keys' = {}
    /\ UNCHANGED <<connected, cal, row, jobs, run, web, born, google, upsets, excused, strays, cut>>

---------------------------------------------------------------------------
(* Jobs *)

\* A synchronization job reads a selected calendar (CalendarSync has its steps).
RunSync(j) ==
    /\ j \in Take("sync")
    /\ jobs' = jobs \ {j}
    /\ cal' = IF cal.selected THEN [cal EXCEPT !.seen = changes] ELSE cal
    /\ excused' = (excused /\ ~cal.selected)
    /\ UNCHANGED <<connected, row, keys, run, web, born, google, now, upsets>>
    /\ UNCHANGED <<strays, bucket, lapses, cut>>

\* The last attempt of a job fails.
GiveUp(j) ==
    /\ j \in jobs /\ jobs' = jobs \ {j} /\ Upset
    /\ excused' = TRUE /\ bucket' = "lost"
    /\ UNCHANGED <<connected, cal, row, keys, run, web, born, google, now>>
    /\ UNCHANGED <<strays, lapses, cut>>

\* The process dies inside a job, whose row stays "running".
Crash ==
    /\ run.step # "idle" /\ Upset
    /\ run' = Idle /\ excused' = TRUE /\ bucket' = "lost"
    /\ strays' = strays \cup ({run.channel, run.old} \ {0})
    /\ UNCHANGED <<connected, cal, row, jobs, keys, web, born, google, now, lapses, cut>>

\* A statement or a call fails after something was done; one that fails earlier leaves
\* the job in the queue as it was.
JobFails ==
    /\ run.step \in {"enqueue", "delete"}
    /\ Unlucky
    /\ Retry
    /\ UNCHANGED <<connected, cal, row, keys, web, born, google, now, ghosts>>

\* watch_calendar: a calendar that is not to be watched ends the job.
WatchSkip(j) ==
    /\ j \in Take("watch") /\ ~Watchable
    /\ jobs' = jobs \ {j}
    /\ bucket' = "lost" /\ excused' = TRUE
    /\ UNCHANGED <<connected, cal, row, keys, run, web, born, google, now, upsets>>
    /\ UNCHANGED <<strays, lapses, cut>>

\* Google opens a channel and announces it with a first message, which the webhook does
\* not tell from any other.
Open ==
    /\ channels' = Append(channels, [live |-> TRUE, expires |-> now + TTL])
    /\ wire' = wire \cup {[channel |-> Len(channels) + 1, number |-> 0]}

\* POST .../events/watch, answered with or without an expiration.
WatchPost(j, expires) ==
    /\ j \in Take("watch") /\ Watchable /\ Len(channels) < MaxChannels
    /\ Open
    /\ jobs' = jobs \ {j}
    /\ run' = [Idle EXCEPT !.job = j, !.step = "replace",
                           !.channel = Len(channels) + 1, !.expires = expires]
    /\ UNCHANGED <<connected, cal, row, keys, web, born, changes, now, upsets, ghosts>>

\* ... or not answered although Google has opened the channel.  The job will try again.
WatchPostUncertain ==
    /\ Take("watch") # {} /\ Watchable /\ Len(channels) < MaxChannels /\ Upset
    /\ Open
    /\ strays' = strays \cup {Len(channels) + 1}
    /\ UNCHANGED <<app, changes, now, excused, bucket, lapses, cut>>

Closed == [live |-> FALSE, expires |-> 0]

Stop(ch) == channels' = [c \in DOMAIN channels |-> IF c = ch THEN Closed ELSE channels[c]]

\* A stop call that fails is logged and passed over.
StopFails(ch) ==
    /\ ch # 0 /\ Upset
    /\ strays' = strays \cup {ch}
    /\ UNCHANGED channels

Stopped(ch) ==
    \/ Stop(ch) /\ UNCHANGED <<upsets, strays>>
    \/ StopFails(ch)

\* replace_google_watch_channel, one transaction.
WatchReplace ==
    /\ Running("watch", "replace") /\ run.job.calendar = cal.id
    /\ row' = [channel |-> run.channel, expires |-> run.expires]
    /\ run' = [run EXCEPT !.step = IF row = NoRow THEN "enqueue" ELSE "stop", !.old = row.channel]
    /\ cut' = FALSE
    /\ bucket' = IF run.expires > now + Margin THEN bucket ELSE "lost"
    /\ UNCHANGED <<connected, cal, jobs, keys, web, born, google, now, upsets>>
    /\ UNCHANGED <<excused, strays, lapses>>

\* Fault: a channel that could not be stored is left open.
WatchReplaceForgotten ==
    /\ Running("watch", "replace")
    /\ Unlucky /\ Retry
    /\ UNCHANGED <<connected, cal, row, keys, web, born, google, now, ghosts>>

\* The transaction fails: the database does, or the calendar is gone and the foreign key
\* refuses the row.  The new channel is stopped, if that call succeeds, and the job fails.
WatchReplaceFails ==
    /\ Running("watch", "replace") /\ Retry
    /\ \/ Unlucky /\ Stop(run.channel) /\ UNCHANGED strays
       \/ StopFails(run.channel)
    /\ UNCHANGED <<connected, cal, row, keys, web, born, changes, wire, now>>
    /\ UNCHANGED <<excused, bucket, lapses, cut>>

WatchStopOld ==
    /\ Running("watch", "stop")
    /\ Stopped(run.old)
    /\ run' = [run EXCEPT !.step = "enqueue", !.old = 0]
    /\ UNCHANGED <<connected, cal, row, jobs, keys, web, born, changes, wire, now>>
    /\ UNCHANGED <<excused, bucket, lapses, cut>>

\* Fault: no synchronization after the change of channels.
WatchEnqueueNothing ==
    /\ Running("watch", "enqueue") /\ run.job.calendar = cal.id
    /\ Finish
    /\ UNCHANGED <<connected, cal, row, jobs, keys, web, born, google, now, upsets, ghosts>>

\* The synchronization that catches what neither channel reported; enqueue_sync refuses
\* a calendar that is gone (JobFails).  When the activity entry after it fails, the job
\* is done and will be done again.
WatchEnqueue ==
    /\ Running("watch", "enqueue") /\ run.job.calendar = cal.id
    /\ Finish
    /\ \/ jobs' = jobs \cup {SyncJob(cal.id)} /\ UNCHANGED upsets
       \/ jobs' = jobs \cup {SyncJob(cal.id), run.job} /\ Upset
    /\ UNCHANGED <<connected, cal, row, keys, web, born, google, now, ghosts>>

\* discover_calendars: Google lists the calendar, or does not; `selected` is only set for
\* a new row.
DiscoverList(selected, writer, listed) ==
    /\ connected /\ Take("discover") # {}
    /\ jobs' = jobs \ {DiscoverJob}
    /\ run' = [Idle EXCEPT !.job = DiscoverJob, !.step = "enqueue"]
    /\ \/ /\ listed /\ cal.id # 0
          /\ cal' = [cal EXCEPT !.writer = writer]
          /\ UNCHANGED born
       \/ /\ listed /\ cal.id = 0 /\ born < MaxCalendars
          /\ born' = born + 1
          /\ cal' = [id |-> born + 1, selected |-> selected, writer |-> writer, seen |-> 0]
       \/ ~listed /\ UNCHANGED <<cal, born>>
    /\ bucket' = IF cal'.writer = cal.writer THEN bucket ELSE "lost"
    /\ UNCHANGED <<connected, row, keys, web, google, now, upsets>>
    /\ UNCHANGED <<excused, strays, lapses, cut>>

DiscoverEnqueues ==
    /\ Running("discover", "enqueue")
    /\ EnqueueExpiringWatches({})
    /\ Finish
    /\ UNCHANGED <<connected, cal, web, born, google, now, upsets>>
    /\ UNCHANGED <<excused, lapses, cut>>

\* revoke: stop the stored channel, if there is one and a token for it.
RevokeStop ==
    /\ connected /\ Take("revoke") # {}
    /\ jobs' = jobs \ {RevokeJob}
    /\ run' = [Idle EXCEPT !.job = RevokeJob, !.step = "delete"]
    /\ Stopped(row.channel)
    /\ cut' = (cut \/ row.channel # 0)
    /\ UNCHANGED <<connected, cal, row, keys, web, born, changes, wire, now>>
    /\ UNCHANGED <<excused, bucket, lapses>>

\* ... revoke the grant, delete the calendars and the account.
RevokeDelete ==
    /\ Running("revoke", "delete")
    /\ connected' = FALSE
    /\ DropCalendar /\ Finish
    /\ UNCHANGED <<web, born, google, now, upsets, strays, bucket, lapses>>

Next ==
    \/ \E b \in BOOLEAN : UpdateCalendar(b) \/ Periodic(b)
    \/ UpdateCalendarEnqueues \/ UpdateCalendarDies
    \/ DeleteCalendar \/ DiscoverGoogleCalendars \/ Connect \/ RevokeGoogle
    \/ \E m \in wire : Lose(m) \/ \E again \in BOOLEAN : Deliver(m, again)
    \/ Change \/ Tick \/ Crash \/ JobFails
    \/ \E j \in jobs : RunSync(j) \/ GiveUp(j) \/ WatchSkip(j)
    \/ \E j \in jobs, e \in {now + TTL, now + Guess} : WatchPost(j, e)
    \/ WatchPostUncertain \/ WatchReplace \/ WatchReplaceFails
    \/ WatchStopOld \/ WatchEnqueue
    \/ \E s, w, l \in BOOLEAN : DiscoverList(s, w, l)
    \/ DiscoverEnqueues \/ RevokeStop \/ RevokeDelete

Spec == Init /\ [][Next]_vars

---------------------------------------------------------------------------
(* Properties *)

\* Every change in Google that the calendar has not been read after is still going to be
\* noticed: by a message the webhook will accept, by a job, or by the replacement of the
\* channel that is under way and ends with a synchronization.  A message of the old
\* channel that comes after the replacement and one of the new channel that comes before
\* it are both refused.
NoChangeForgotten ==
    Watchable /\ cal.seen < changes /\ ~excused =>
        \/ Pending
        \/ \E m \in wire : /\ Covered /\ m.channel = row.channel
                          /\ NoticeKey(m.channel, m.number) \notin keys

\* A channel that was to be renewed ends only when the renewal was not looked for, or did
\* not get through, in any bucket of the margin.
RenewedInTime ==
    Watchable /\ web = 0 /\ run.step = "idle" /\ row.channel # 0 /\ row.expires <= now =>
        lapses = Margin

\* Between jobs, the only channel that still notifies is the stored one: a replaced one,
\* one that could not be stored and the one of a revoked account have been stopped, unless
\* a call or a process failed.
NoStrayChannels ==
    run.step = "idle" =>
        \A ch \in DOMAIN channels : Alive(ch) => ch = row.channel \/ ch \in strays
============================================================================
