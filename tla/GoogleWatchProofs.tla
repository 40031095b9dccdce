------------------------- MODULE GoogleWatchProofs -------------------------
(***************************************************************************)
(* The watch channels, for every value of the constants: none is left open *)
(* behind the application's back (NoStrayChannels), the stored one is      *)
(* renewed before it ends (RenewedInTime), and no change made in Google is *)
(* forgotten (NoChangeForgotten).                                          *)
(*                                                                         *)
(* NoStrayChannels speaks of the states between jobs and is not inductive: *)
(* while a job runs, a channel may be known to its local variables only.   *)
(* StrayInv says where it is known in every state, and RevokedInv that a   *)
(* revocation has dealt with the stored channel before it deletes the row. *)
(* The invariants of the other two are introduced with their proofs.       *)
(***************************************************************************)
EXTENDS GoogleWatch, TLAPS

Channel == [live : BOOLEAN, expires : Nat]

WatchTypes ==
    /\ now \in Nat
    /\ channels \in Seq(Channel)
    /\ run = [job |-> run.job, step |-> run.step, channel |-> run.channel,
              expires |-> run.expires, old |-> run.old]

Known(ch) ==
    \/ ch = row.channel
    \/ ch \in strays
    \/ run.step = "replace" /\ ch = run.channel
    \/ run.step = "stop" /\ ch = run.old

StrayInv == \A ch \in DOMAIN channels : Alive(ch) => Known(ch)

RevokedInv ==
    run.step = "delete" =>
        \A ch \in DOMAIN channels : Alive(ch) /\ ch = row.channel => ch \in strays

WatchInv == WatchTypes /\ StrayInv /\ RevokedInv

\* No channel is open at the start.
LEMMA InitWatch == Init => WatchInv
<1> SUFFICES ASSUME Init PROVE WatchInv
  OBVIOUS
<1>1. channels = <<>> /\ now = 0 /\ run = Idle
  BY DEF Init
<1>2. WatchTypes
  BY <1>1 DEF WatchTypes, Idle
<1>3. DOMAIN channels = {}
  BY <1>1
<1>4. QED
  BY <1>2, <1>3 DEF WatchInv, StrayInv, RevokedInv

\* Steps that touch neither channels nor what is known of them.
LEMMA NothingTouched ==
    ASSUME WatchInv, UNCHANGED <<channels, row, run, now, strays>>
    PROVE  WatchInv'
BY DEF WatchInv, WatchTypes, StrayInv, RevokedInv, Known, Alive

\* Steps that forget the stored channel, when it is no longer alive or counted as lost.
LEMMA RowForgotten ==
    ASSUME WatchInv, UNCHANGED <<channels, run, now>>,
           strays \subseteq strays',
           row' = row \/ (\A ch \in DOMAIN channels : Alive(ch) /\ ch = row.channel => ch \in strays')
    PROVE  WatchInv'
BY DEF WatchInv, WatchTypes, StrayInv, RevokedInv, Known, Alive

\* Steps that end a job or start one that opens no channel.
LEMMA JobForgotten ==
    ASSUME WatchInv, UNCHANGED <<channels, row, now>>,
           strays \subseteq strays',
           run.step = "replace" => run.channel \in strays' \/ run.channel \notin DOMAIN channels,
           run.step = "stop" => run.old \in strays' \/ run.old \notin DOMAIN channels,
           run' = Idle \/ run' = [Idle EXCEPT !.job = DiscoverJob, !.step = "enqueue"]
    PROVE  WatchInv'
<1>0. run' = [job |-> run'.job, step |-> run'.step, channel |-> run'.channel,
              expires |-> run'.expires, old |-> run'.old]
  BY DEF Idle
<1>1. run'.step \in {"idle", "enqueue"}
  <2>1. Idle.step = "idle"
    BY DEF Idle
  <2>2. [Idle EXCEPT !.job = DiscoverJob, !.step = "enqueue"].step = "enqueue"
    BY DEF Idle
  <2>3. QED
    BY <2>1, <2>2
<1>2. WatchTypes'
  BY <1>0 DEF WatchInv, WatchTypes
<1>3. StrayInv'
  BY <1>1 DEF WatchInv, StrayInv, Known, Alive
<1>4. QED
  BY <1>1, <1>2, <1>3 DEF WatchInv, RevokedInv

\* The renewal's clean-up counts the channel of the row it deletes as lost.
LEMMA CleanUp ==
    ASSUME WatchInv, NEW more, EnqueueExpiringWatches(more), UNCHANGED <<channels, run, now>>
    PROVE  WatchInv'
<1>1. strays \subseteq strays'
  BY DEF EnqueueExpiringWatches
<1>2. row' = row \/ (\A ch \in DOMAIN channels : ch = row.channel => ch \in strays')
  <2> SUFFICES ASSUME row' # row, NEW ch \in DOMAIN channels, ch = row.channel
               PROVE  ch \in strays'
    OBVIOUS
  <2>1. row.expires <= now
    BY DEF EnqueueExpiringWatches
  <2>2. ch # 0
    BY DEF WatchInv, WatchTypes
  <2>3. QED
    BY <2>1, <2>2 DEF EnqueueExpiringWatches
<1>3. QED
  BY <1>1, <1>2, RowForgotten

\* Opening a channel leaves the others alone.
LEMMA OpenChannel ==
    ASSUME WatchTypes, Open
    PROVE  /\ channels' \in Seq(Channel)
           /\ DOMAIN channels' = DOMAIN channels \cup {Len(channels) + 1}
           /\ \A ch \in DOMAIN channels : channels'[ch] = channels[ch]
<1>1. now + TTL \in Nat
  BY LifeAssumption DEF WatchTypes
<1>2. [live |-> TRUE, expires |-> now + TTL] \in Channel
  BY <1>1 DEF Channel
<1>3. QED
  BY <1>2 DEF Open, WatchTypes

\* Stopping a channel ends that one and no other.
LEMMA StopChannel ==
    ASSUME WatchTypes, NEW stopped, Stop(stopped)
    PROVE  /\ channels' \in Seq(Channel)
           /\ DOMAIN channels' = DOMAIN channels
           /\ \A ch \in DOMAIN channels :
                 /\ ch # stopped => channels'[ch] = channels[ch]
                 /\ ch = stopped => ~channels'[ch].live
<1>1. Closed \in Channel
  BY DEF Closed, Channel
<1>2. DOMAIN channels = 1 .. Len(channels) /\ Len(channels) \in Nat
  BY DEF WatchTypes
<1>3. \A ch \in 1 .. Len(channels) : channels'[ch] \in Channel
  BY <1>1, <1>2 DEF Stop, WatchTypes
<1>4. channels' \in [1 .. Len(channels) -> Channel]
  BY <1>2, <1>3 DEF Stop
<1>5. channels' \in Seq(Channel)
  BY <1>2, <1>4
<1>6. QED
  BY <1>2, <1>4, <1>5 DEF Stop, Closed

\* Steps that stop a channel that is the stored one or that the running job knows.
LEMMA ChannelStopped ==
    ASSUME WatchInv, NEW stopped, Stopped(stopped), UNCHANGED <<row, now>>,
           run' = [job |-> run'.job, step |-> run'.step, channel |-> run'.channel,
                   expires |-> run'.expires, old |-> run'.old],
           run'.step \in {"enqueue", "delete"},
           run.step \notin {"replace", "delete"},
           run.step = "stop" => stopped = run.old,
           run'.step = "delete" => stopped = row.channel
    PROVE  WatchInv'
<1> USE DEF WatchInv
<1>1. CASE Stop(stopped) /\ UNCHANGED strays
  <2>1. /\ channels' \in Seq(Channel)
        /\ DOMAIN channels' = DOMAIN channels
        /\ \A ch \in DOMAIN channels :
              /\ ch # stopped => channels'[ch] = channels[ch]
              /\ ch = stopped => ~channels'[ch].live
    BY <1>1, StopChannel
  <2>2. \A ch \in DOMAIN channels' : Alive(ch)' => Alive(ch) /\ ch # stopped
    BY <2>1 DEF Alive
  <2>3. WatchTypes'
    BY <2>1 DEF WatchTypes
  <2>4. StrayInv'
    BY <1>1, <2>1, <2>2 DEF StrayInv, Known
  <2>5. RevokedInv'
    BY <1>1, <2>1, <2>2 DEF RevokedInv
  <2>6. QED
    BY <2>3, <2>4, <2>5
<1>2. CASE StopFails(stopped)
  <2>1. channels' = channels /\ strays' = strays \cup {stopped}
    BY <1>2 DEF StopFails
  <2>2. \A ch \in DOMAIN channels : Alive(ch)' => Alive(ch)
    BY <2>1 DEF Alive
  <2>3. WatchTypes'
    BY <2>1 DEF WatchTypes
  <2>4. StrayInv'
    BY <2>1, <2>2 DEF StrayInv, Known
  <2>5. RevokedInv'
    BY <2>1, <2>2 DEF RevokedInv
  <2>6. QED
    BY <2>3, <2>4, <2>5
<1>3. QED
  BY <1>1, <1>2 DEF Stopped

\* The steps of a watch job.
LEMMA WatchSteps ==
    ASSUME WatchInv,
           \/ \E j \in jobs, e \in {now + TTL, now + Guess} : WatchPost(j, e)
           \/ WatchPostUncertain \/ WatchReplace \/ WatchReplaceFails
           \/ WatchStopOld \/ WatchEnqueue
    PROVE  WatchInv'
<1> USE DEF WatchInv
<1>1. ASSUME NEW j \in jobs, NEW e, WatchPost(j, e) PROVE WatchInv'
  <2>1. /\ channels' \in Seq(Channel)
        /\ DOMAIN channels' = DOMAIN channels \cup {Len(channels) + 1}
        /\ \A ch \in DOMAIN channels : channels'[ch] = channels[ch]
    BY <1>1, OpenChannel DEF WatchPost
  <2>2. /\ run.step = "idle" /\ run'.step = "replace" /\ run'.channel = Len(channels) + 1
        /\ run' = [job |-> run'.job, step |-> run'.step, channel |-> run'.channel,
                   expires |-> run'.expires, old |-> run'.old]
        /\ UNCHANGED <<row, now, strays>>
    BY <1>1 DEF WatchPost, Take, Idle, ghosts
  <2>3. WatchTypes'
    BY <2>1, <2>2 DEF WatchTypes
  <2>4. StrayInv'
    BY <2>1, <2>2 DEF StrayInv, Known, Alive
  <2>5. QED
    BY <2>2, <2>3, <2>4 DEF RevokedInv
<1>2. CASE WatchPostUncertain
  <2>1. /\ channels' \in Seq(Channel)
        /\ DOMAIN channels' = DOMAIN channels \cup {Len(channels) + 1}
        /\ \A ch \in DOMAIN channels : channels'[ch] = channels[ch]
    BY <1>2, OpenChannel DEF WatchPostUncertain
  <2>2. /\ run.step = "idle" /\ UNCHANGED <<run, row, now>>
        /\ strays' = strays \cup {Len(channels) + 1}
    BY <1>2 DEF WatchPostUncertain, Take, app
  <2>3. WatchTypes'
    BY <2>1, <2>2 DEF WatchTypes
  <2>4. StrayInv'
    BY <2>1, <2>2 DEF StrayInv, Known, Alive
  <2>5. QED
    BY <2>2, <2>3, <2>4 DEF RevokedInv
<1>3. CASE WatchReplace
  <2>1. /\ run.step = "replace" /\ row'.channel = run.channel
        /\ UNCHANGED <<channels, now, strays>>
    BY <1>3 DEF WatchReplace, Running, google
  <2>2. /\ run'.step = IF row = NoRow THEN "enqueue" ELSE "stop"
        /\ run'.old = row.channel
        /\ run' = [job |-> run'.job, step |-> run'.step, channel |-> run'.channel,
                   expires |-> run'.expires, old |-> run'.old]
    BY <1>3 DEF WatchReplace, WatchTypes
  <2>3. WatchTypes'
    BY <2>1, <2>2 DEF WatchTypes
  <2>4. row = NoRow => row.channel \notin DOMAIN channels
    BY DEF NoRow, WatchTypes
  <2>5. StrayInv'
    BY <2>1, <2>2, <2>4 DEF StrayInv, Known, Alive
  <2>6. QED
    BY <2>2, <2>3, <2>5 DEF RevokedInv
<1>4. CASE WatchReplaceFails
  <2>1. /\ run.step = "replace" /\ run' = Idle /\ UNCHANGED <<row, now>>
        /\ \/ Stop(run.channel) /\ UNCHANGED strays
           \/ StopFails(run.channel)
    BY <1>4 DEF WatchReplaceFails, Running, Retry
  <2>2. CASE Stop(run.channel) /\ UNCHANGED strays
    <3>1. /\ channels' \in Seq(Channel)
          /\ DOMAIN channels' = DOMAIN channels
          /\ \A ch \in DOMAIN channels :
                /\ ch # run.channel => channels'[ch] = channels[ch]
                /\ ch = run.channel => ~channels'[ch].live
      BY <2>2, StopChannel
    <3>2. WatchTypes' /\ run'.step = "idle"
      BY <2>1, <3>1 DEF WatchTypes, Idle
    <3>3. StrayInv'
      BY <2>1, <2>2, <3>1, <3>2 DEF StrayInv, Known, Alive
    <3>4. QED
      BY <3>2, <3>3 DEF RevokedInv
  <2>3. CASE StopFails(run.channel)
    <3>1. channels' = channels /\ strays' = strays \cup {run.channel}
      BY <2>3 DEF StopFails
    <3>2. run.channel \in strays' /\ strays \subseteq strays' /\ run.step # "stop"
      BY <2>1, <3>1
    <3>3. QED
      BY <2>1, <3>1, <3>2, JobForgotten
  <2>4. QED
    BY <2>1, <2>2, <2>3
<1>5. CASE WatchStopOld
  <2>1. /\ run.step = "stop" /\ Stopped(run.old) /\ UNCHANGED <<row, now>>
        /\ run' = [run EXCEPT !.step = "enqueue", !.old = 0]
    BY <1>5 DEF WatchStopOld, Running
  <2>2. /\ run'.step = "enqueue"
        /\ run' = [job |-> run'.job, step |-> run'.step, channel |-> run'.channel,
                   expires |-> run'.expires, old |-> run'.old]
    BY <2>1 DEF WatchTypes
  <2>3. QED
    BY <2>1, <2>2, ChannelStopped
<1>6. CASE WatchEnqueue
  BY <1>6, JobForgotten DEF WatchEnqueue, Running, Finish, google, ghosts
<1>7. QED
  BY <1>1, <1>2, <1>3, <1>4, <1>5, <1>6

\* Discovery, revocation and the ways a job can end.
LEMMA OtherJobSteps ==
    ASSUME WatchInv,
           \/ Crash \/ JobFails \/ DiscoverEnqueues \/ RevokeStop \/ RevokeDelete
           \/ \E s, w, l \in BOOLEAN : DiscoverList(s, w, l)
           \/ \E j \in jobs : RunSync(j) \/ GiveUp(j) \/ WatchSkip(j)
    PROVE  WatchInv'
<1>1. CASE Crash
  <2>1. /\ UNCHANGED <<channels, row, now>> /\ run' = Idle
        /\ strays' = strays \cup ({run.channel, run.old} \ {0})
    BY <1>1 DEF Crash, google
  <2>2. 0 \notin DOMAIN channels
    BY DEF WatchInv, WatchTypes
  <2>3. QED
    BY <2>1, <2>2, JobForgotten
<1>2. CASE JobFails
  BY <1>2, JobForgotten DEF JobFails, Retry, google, ghosts
<1>3. CASE DiscoverEnqueues
  <2>1. run.step = "enqueue" /\ run' = Idle /\ UNCHANGED <<channels, now>>
    BY <1>3 DEF DiscoverEnqueues, Running, Finish, google
  <2>2. strays \subseteq strays'
    BY <1>3 DEF DiscoverEnqueues, EnqueueExpiringWatches
  <2>3. row' = row \/ (\A ch \in DOMAIN channels : ch = row.channel => ch \in strays')
    <3> SUFFICES ASSUME row' # row, NEW ch \in DOMAIN channels, ch = row.channel
                 PROVE  ch \in strays'
      OBVIOUS
    <3>1. row.expires <= now
      BY <1>3 DEF DiscoverEnqueues, EnqueueExpiringWatches
    <3>2. ch # 0
      BY DEF WatchInv, WatchTypes
    <3>3. QED
      BY <1>3, <3>1, <3>2 DEF DiscoverEnqueues, EnqueueExpiringWatches
  <2>4. WatchTypes' /\ run'.step = "idle"
    BY <2>1 DEF WatchInv, WatchTypes, Idle
  <2>5. StrayInv'
    BY <2>1, <2>2, <2>3, <2>4 DEF WatchInv, StrayInv, Known, Alive
  <2>6. QED
    BY <2>4, <2>5 DEF WatchInv, RevokedInv
<1>4. CASE RevokeStop
  <2>1. /\ run.step = "idle" /\ Stopped(row.channel) /\ UNCHANGED <<row, now>>
        /\ run' = [Idle EXCEPT !.job = RevokeJob, !.step = "delete"]
    BY <1>4 DEF RevokeStop, Take
  <2>2. /\ run'.step = "delete"
        /\ run' = [job |-> run'.job, step |-> run'.step, channel |-> run'.channel,
                   expires |-> run'.expires, old |-> run'.old]
    BY <2>1 DEF Idle
  <2>3. QED
    BY <2>1, <2>2, ChannelStopped
<1>5. CASE RevokeDelete
  <2>1. run.step = "delete" /\ run' = Idle /\ UNCHANGED <<channels, now, strays>>
    BY <1>5 DEF RevokeDelete, Running, Finish, google
  <2>2. WatchTypes' /\ run'.step = "idle"
    BY <2>1 DEF WatchInv, WatchTypes, Idle
  <2>3. StrayInv'
    BY <2>1, <2>2 DEF WatchInv, StrayInv, RevokedInv, Known, Alive
  <2>4. QED
    BY <2>2, <2>3 DEF WatchInv, RevokedInv
<1>6. ASSUME NEW s, NEW w, NEW l, DiscoverList(s, w, l) PROVE WatchInv'
  BY <1>6, JobForgotten DEF DiscoverList, Take, google
<1>7. ASSUME NEW j, RunSync(j) \/ GiveUp(j) \/ WatchSkip(j) PROVE WatchInv'
  BY <1>7, NothingTouched DEF RunSync, GiveUp, WatchSkip, google
<1>8. QED
  BY <1>1, <1>2, <1>3, <1>4, <1>5, <1>6, <1>7

\* Requests, notifications and time.
LEMMA OutsideSteps ==
    ASSUME WatchInv,
           \/ \E b \in BOOLEAN : UpdateCalendar(b) \/ Periodic(b)
           \/ UpdateCalendarEnqueues \/ UpdateCalendarDies
           \/ DeleteCalendar \/ DiscoverGoogleCalendars \/ Connect \/ RevokeGoogle
           \/ \E m \in wire : Lose(m) \/ \E again \in BOOLEAN : Deliver(m, again)
           \/ Change \/ Tick
    PROVE  WatchInv'
<1>1. ASSUME NEW b, UpdateCalendar(b) PROVE WatchInv'
  BY <1>1, NothingTouched DEF UpdateCalendar, google
<1>2. ASSUME NEW b, Periodic(b) PROVE WatchInv'
  BY <1>2, CleanUp DEF Periodic, google
<1>3. CASE UpdateCalendarEnqueues
  <2>1. UNCHANGED <<channels, run, now>>
    BY <1>3 DEF UpdateCalendarEnqueues, google
  <2>2. CASE EnqueueExpiringWatches({SyncJob(cal.id)})
    BY <2>1, <2>2, CleanUp
  <2>3. CASE UNCHANGED <<row, strays>>
    BY <2>1, <2>3, NothingTouched
  <2>4. QED
    BY <1>3, <2>2, <2>3 DEF UpdateCalendarEnqueues
<1>4. CASE UpdateCalendarDies
  BY <1>4, NothingTouched DEF UpdateCalendarDies, google
<1>5. CASE DeleteCalendar
  <2>1. UNCHANGED <<channels, run, now>> /\ strays' = strays \cup ({row.channel} \ {0})
    BY <1>5 DEF DeleteCalendar, google
  <2>2. 0 \notin DOMAIN channels
    BY DEF WatchInv, WatchTypes
  <2>3. QED
    BY <2>1, <2>2, RowForgotten
<1>6. CASE DiscoverGoogleCalendars \/ Connect \/ RevokeGoogle
  BY <1>6, NothingTouched DEF DiscoverGoogleCalendars, Connect, RevokeGoogle, google, ghosts
<1>7. ASSUME NEW m, Lose(m) PROVE WatchInv'
  BY <1>7, NothingTouched DEF Lose
<1>8. ASSUME NEW m, NEW again, Deliver(m, again) PROVE WatchInv'
  BY <1>8, NothingTouched DEF Deliver, ghosts
<1>9. CASE Change
  BY <1>9, NothingTouched DEF Change, app
<1>10. CASE Tick
  <2>1. now' = now + 1 /\ UNCHANGED <<channels, row, run, strays>>
    BY <1>10 DEF Tick, google
  <2>2. \A ch \in DOMAIN channels : Alive(ch)' => Alive(ch)
    <3> SUFFICES ASSUME NEW ch \in DOMAIN channels, Alive(ch)' PROVE Alive(ch)
      OBVIOUS
    <3>1. channels[ch] \in Channel /\ now \in Nat
      BY DEF WatchInv, WatchTypes
    <3>2. channels[ch].expires \in Nat
      BY <3>1 DEF Channel
    <3>3. channels[ch].live /\ channels[ch].expires > now + 1
      BY <2>1 DEF Alive
    <3>4. QED
      BY <3>1, <3>2, <3>3 DEF Alive
  <2>3. QED
    BY <2>1, <2>2 DEF WatchInv, WatchTypes, StrayInv, RevokedInv, Known
<1>11. QED
  BY <1>1, <1>2, <1>3, <1>4, <1>5, <1>6, <1>7, <1>8, <1>9, <1>10

\* What is known of the channels is known in every state.
LEMMA WatchInvariance == Spec => []WatchInv
<1>1. WatchInv /\ [Next]_vars => WatchInv'
  <2> SUFFICES ASSUME WatchInv, [Next]_vars PROVE WatchInv'
    OBVIOUS
  <2>1. CASE UNCHANGED vars
    BY <2>1, NothingTouched DEF vars, app, google, ghosts
  <2>2. CASE Next
    BY <2>2, WatchSteps, OtherJobSteps, OutsideSteps DEF Next
  <2>3. QED
    BY <2>1, <2>2
<1>2. QED
  BY InitWatch, <1>1, PTL DEF Spec

\* Between jobs the only channel that still notifies the webhook is the stored one, unless
\* a call, a process or a deletion of the calendar lost it: the replaced channel, one that
\* could not be stored (watch_calendar) and that of a revoked account (revoke) are stopped.
THEOREM ChannelsAreKnown == Spec => []NoStrayChannels
<1>1. WatchInv => NoStrayChannels
  BY DEF WatchInv, StrayInv, Known, NoStrayChannels
<1>2. QED
  BY WatchInvariance, <1>1, PTL
---------------------------------------------------------------------------
(* Renewal in time.                                                        *)

\* The row of the calendar, when there is one.
CalendarInv ==
    /\ changes \in Nat /\ born \in Nat
    /\ cal = [id |-> cal.id, selected |-> cal.selected, writer |-> cal.writer, seen |-> cal.seen]
    /\ cal.id = 0 => ~cal.selected /\ ~cal.writer

ClockTypes ==
    /\ row.expires \in Nat /\ run.expires \in Nat
    /\ lapses \in 0..Margin
    /\ run.step = "replace" => run.channel # 0

\* The stored channel, or the one about to be stored, outlives the margin, less the
\* buckets that had no renewal.
LapseInv ==
    lapses # Margin =>
        /\ row.channel # 0 => row.expires + lapses >= now + Margin
        /\ run.step = "replace" => run.expires + lapses >= now + Margin

\* Fresh enough not to be renewed.
Fresh == row.channel # 0 /\ row.expires > now + Margin

\* A job that will store a new channel.
Renewing ==
    \/ \E j \in jobs : j.kind = "watch" /\ j.calendar = cal.id
    \/ run.step = "replace" /\ run.job.kind = "watch" /\ run.job.calendar = cal.id

\* Once the renewal of a bucket has been looked for, it is not needed or under way.
BucketInv ==
    /\ bucket = "checked" \/ WatchKey(now) \in keys
    /\ bucket # "lost"
    /\ cal.id # 0 /\ cal.writer
    => Fresh \/ Renewing

RenewalInv == ClockTypes /\ LapseInv /\ BucketInv

---------------------------------------------------------------------------
(* No change is forgotten.                                                 *)

\* Jobs are about the calendar there is.
JobInv ==
    /\ \A j \in jobs : j.kind \in {"sync", "watch"} => j.calendar = cal.id /\ j.calendar # 0
    /\ run.step # "idle" => run.job.kind # "sync"
    /\ run.step # "idle" /\ run.job.kind = "watch" => run.job.calendar # 0
    /\ run.step # "idle" /\ run.job.kind = "discover" => run.job = DiscoverJob
    /\ cal.id = 0 => row = NoRow /\ WatchKey(now) \notin keys

\* A key that can come up again is of this bucket or of a message on its way.
KeyInv ==
    /\ \A m \in wire : m.number \in 0..changes
    /\ \A k \in keys : k = WatchKey(now) \/ \E m \in wire : k = NoticeKey(m.channel, m.number)

\* Google notifies the stored channel as long as the application believes so.
StoredInv ==
    /\ row.channel # 0 /\ ~cut =>
          /\ row.channel \in DOMAIN channels /\ channels[row.channel].live
          /\ channels[row.channel].expires >= row.expires
    /\ row.channel # 0 => row.channel \in DOMAIN channels
    /\ run.step = "replace" =>
          /\ run.channel \in DOMAIN channels /\ channels[run.channel].live
          /\ channels[run.channel].expires >= run.expires
          /\ run.channel # row.channel
    /\ run.step = "stop" /\ row.channel # 0 => run.old # row.channel

\* What is to be noticed of a calendar that cannot be written will be when it can.
Suspended == ~cal.writer /\ ~Fresh /\ WatchKey(now) \notin keys

Noticed == \E m \in wire : /\ Covered /\ m.channel = row.channel
                          /\ NoticeKey(m.channel, m.number) \notin keys

ChangeInv == cal.selected /\ cal.seen < changes /\ ~excused => Pending \/ Noticed \/ Suspended

NoticeInv == JobInv /\ KeyInv /\ StoredInv /\ ChangeInv

\* Nothing about the calendar's row is left when it goes.
LEMMA StepCalendar == CalendarInv /\ [Next]_vars => CalendarInv'
<1> SUFFICES ASSUME CalendarInv, [Next]_vars PROVE CalendarInv'
  OBVIOUS
<1> USE DEF google, app, ghosts
<1>1. ASSUME UNCHANGED <<cal, changes, born>> PROVE CalendarInv'
  BY <1>1 DEF CalendarInv
<1>2. ASSUME NEW b \in BOOLEAN, UpdateCalendar(b) PROVE CalendarInv'
  BY <1>2 DEF UpdateCalendar, CalendarInv
<1>3. CASE DeleteCalendar \/ RevokeDelete
  <2>1. cal' = NoCalendar /\ UNCHANGED <<changes, born>>
    BY <1>3 DEF DeleteCalendar, RevokeDelete, DropCalendar
  <2> QED BY <2>1 DEF CalendarInv, NoCalendar
<1>4. CASE Change
  BY <1>4 DEF Change, CalendarInv
<1>5. ASSUME NEW j \in jobs, RunSync(j) PROVE CalendarInv'
  BY <1>5 DEF RunSync, CalendarInv
<1>6. ASSUME NEW s \in BOOLEAN, NEW w \in BOOLEAN, NEW l \in BOOLEAN, DiscoverList(s, w, l) PROVE CalendarInv'
  <2>1. CASE cal.id # 0 /\ cal' = [cal EXCEPT !.writer = w] /\ UNCHANGED born
    BY <1>6, <2>1 DEF DiscoverList, CalendarInv
  <2>2. CASE cal' = [id |-> born + 1, selected |-> s, writer |-> w, seen |-> 0] /\ born' = born + 1
    BY <1>6, <2>2 DEF DiscoverList, CalendarInv
  <2>3. CASE UNCHANGED <<cal, born>>
    BY <1>1, <1>6, <2>3 DEF DiscoverList
  <2> QED BY <1>6, <2>1, <2>2, <2>3 DEF DiscoverList
<1>7. CASE UNCHANGED vars
  BY <1>1, <1>7 DEF vars
<1>8. CASE \/ UpdateCalendarEnqueues \/ UpdateCalendarDies \/ DiscoverGoogleCalendars \/ Connect \/ RevokeGoogle
           \/ Tick \/ Crash \/ JobFails
  BY <1>1, <1>8 DEF UpdateCalendarEnqueues, UpdateCalendarDies, DiscoverGoogleCalendars, Connect, RevokeGoogle,
     Tick, Crash, JobFails
<1>9. CASE \/ WatchPostUncertain \/ WatchReplace \/ WatchReplaceFails \/ WatchStopOld \/ WatchEnqueue
           \/ DiscoverEnqueues \/ RevokeStop
  BY <1>1, <1>9 DEF WatchPostUncertain, WatchReplace, WatchReplaceFails, WatchStopOld, WatchEnqueue,
     DiscoverEnqueues, RevokeStop
<1>10. ASSUME NEW j, NEW e, WatchPost(j, e) \/ GiveUp(j) \/ WatchSkip(j) PROVE CalendarInv'
  BY <1>1, <1>10 DEF WatchPost, GiveUp, WatchSkip
<1>11. ASSUME NEW b, Periodic(b) PROVE CalendarInv'
  BY <1>1, <1>11 DEF Periodic
<1>12. ASSUME NEW m, NEW again, Lose(m) \/ Deliver(m, again) PROVE CalendarInv'
  BY <1>1, <1>12 DEF Lose, Deliver
<1> QED
  BY <1>2, <1>3, <1>4, <1>5, <1>6, <1>7, <1>8, <1>9, <1>10, <1>11, <1>12 DEF Next

\* Neither the channels that are or will be stored nor the clock change.
LEMMA LapsesKept ==
    ASSUME ClockTypes, LapseInv, UNCHANGED <<now, lapses>>,
           row' = row \/ row' = NoRow,
           run' = run \/ (run'.step # "replace" /\ run'.expires \in Nat)
    PROVE  (ClockTypes /\ LapseInv)'
BY DEF ClockTypes, LapseInv, NoRow

\* The renewal of the bucket is as far as it was.
LEMMA BucketKept ==
    ASSUME BucketInv, UNCHANGED <<now, row>>,
           bucket' = bucket \/ bucket' = "lost",
           WatchKey(now) \in keys' => WatchKey(now) \in keys,
           cal'.id = 0 \/ (cal'.id = cal.id /\ cal'.writer = cal.writer) \/ bucket' = "lost" \/ ~cal'.writer,
           /\ bucket' # "lost" /\ cal'.id = cal.id
           /\ \E j \in jobs : j.kind = "watch" /\ j.calendar = cal.id
           => \E j \in jobs' : j.kind = "watch" /\ j.calendar = cal.id,
           run.step # "replace" \/ run' = run \/ bucket' = "lost"
    PROVE  BucketInv'
<1> SUFFICES ASSUME bucket' = "checked" \/ WatchKey(now') \in keys', bucket' # "lost", cal'.id # 0, cal'.writer
             PROVE  Fresh' \/ Renewing'
  BY DEF BucketInv
<1>1. bucket' = bucket /\ cal'.id = cal.id /\ cal'.writer = cal.writer
  OBVIOUS
<1>2. Fresh \/ Renewing
  BY <1>1 DEF BucketInv
<1>3. CASE Fresh
  BY <1>3 DEF Fresh
<1>4. CASE Renewing
  BY <1>1, <1>4 DEF Renewing
<1> QED BY <1>2, <1>3, <1>4

\* What enqueue_expiring_calendar_watches looks for it finds done or asks for.
LEMMA RenewalAsked ==
    ASSUME RenewalInv, WatchTypes, NEW more, EnqueueExpiringWatches(more),
           UNCHANGED <<now, lapses, cal>>,
           run' = run \/ (run.step # "replace" /\ run'.step # "replace" /\ run'.expires \in Nat)
    PROVE  RenewalInv'
<1>1. (ClockTypes /\ LapseInv)'
  <2>1. row' = row \/ row' = NoRow
    BY DEF EnqueueExpiringWatches
  <2> QED BY <2>1, LapsesKept DEF RenewalInv
<1>2. BucketInv'
  <2> SUFFICES ASSUME bucket' = "checked" \/ WatchKey(now) \in keys', bucket' # "lost", cal.id # 0, cal.writer
               PROVE  Fresh' \/ Renewing'
    BY DEF BucketInv
  <2>1. /\ bucket # "lost"
        /\ \A j \in jobs : j \in jobs'
        /\ WatchDue /\ WatchKey(now) \notin keys => WatchJob(cal.id) \in jobs'
        /\ WatchKey(now) \in keys' => WatchKey(now) \in keys \/ (WatchDue /\ WatchKey(now) \notin keys)
        /\ bucket' = "checked" => bucket = "checked" \/ Watchable
    BY DEF EnqueueExpiringWatches
  <2>2. WatchJob(cal.id).kind = "watch" /\ WatchJob(cal.id).calendar = cal.id
    BY DEF WatchJob, Job
  <2>3. ASSUME Renewing PROVE Renewing'
    BY <2>1, <2>3 DEF Renewing
  <2>4. ASSUME Fresh PROVE Fresh'
    BY <2>4, LifeAssumption DEF Fresh, EnqueueExpiringWatches, WatchTypes, RenewalInv, ClockTypes
  <2>5. CASE bucket = "checked" \/ WatchKey(now) \in keys
    <3>1. Fresh \/ Renewing
      BY <2>1, <2>5 DEF RenewalInv, BucketInv
    <3> QED BY <3>1, <2>3, <2>4
  <2>6. CASE bucket # "checked" /\ WatchKey(now) \notin keys
    <3>1. Watchable
      BY <2>1, <2>6 DEF WatchDue
    <3>2. CASE WatchDue
      BY <2>1, <2>2, <2>6, <3>2 DEF Renewing
    <3>3. CASE ~WatchDue
      BY <3>1, <3>3, <2>4 DEF WatchDue, Fresh
    <3> QED BY <3>2, <3>3
  <2> QED BY <2>5, <2>6
<1> QED BY <1>1, <1>2 DEF RenewalInv

\* At the end of a bucket that was seen to, the stored channel outlives the margin.
LEMMA RenewalTick == ASSUME RenewalInv, WatchTypes, Tick PROVE RenewalInv'
<1>1. /\ now' = now + 1 /\ now \in Nat /\ bucket' = "open" /\ keys' = {} /\ row' = row /\ run' = run
      /\ Margin \in Nat /\ lapses \in 0..Margin /\ row.expires \in Nat /\ run.expires \in Nat
  BY LifeAssumption DEF Tick, RenewalInv, ClockTypes, WatchTypes
<1>2. BucketInv'
  BY <1>1 DEF BucketInv
<1>3. CASE /\ bucket = "checked" /\ Watchable
           /\ ~\E j \in jobs : j.kind = "watch"
           /\ run.step = "idle" /\ web = 0
  <2>1. lapses' = 0
    BY <1>3 DEF Tick
  <2>2. Fresh
    BY <1>3 DEF RenewalInv, BucketInv, Renewing, Watchable
  <2> QED BY <1>1, <1>2, <1>3, <2>1, <2>2 DEF RenewalInv, ClockTypes, LapseInv, Fresh
<1>4. CASE ~(/\ bucket = "checked" /\ Watchable
             /\ ~\E j \in jobs : j.kind = "watch"
             /\ run.step = "idle" /\ web = 0)
  <2>1. lapses' = IF lapses < Margin THEN lapses + 1 ELSE lapses
    BY <1>4, Zenon DEF Tick
  <2> QED BY <1>1, <1>2, <2>1 DEF RenewalInv, ClockTypes, LapseInv
<1> QED BY <1>3, <1>4

\* Nothing is known of renewals at the start.
LEMMA InitRenewal == Init => RenewalInv
BY LifeAssumption DEF Init, RenewalInv, ClockTypes, LapseInv, BucketInv, NoRow, Idle

\* Every step keeps the renewals on time.
LEMMA StepRenewal == WatchTypes /\ CalendarInv /\ RenewalInv /\ [Next]_vars => RenewalInv'
<1> SUFFICES ASSUME WatchTypes, CalendarInv, RenewalInv, [Next]_vars PROVE RenewalInv'
  OBVIOUS
<1>0. ClockTypes /\ LapseInv /\ BucketInv
  BY DEF RenewalInv
<1> USE DEF google, app, ghosts
<1>1. CASE UNCHANGED vars
  <2>1. UNCHANGED <<now, lapses, row, run, bucket, keys, cal, jobs>>
    BY <1>1 DEF vars
  <2> QED BY <2>1, <1>0, LapsesKept, BucketKept DEF RenewalInv
<1>2. ASSUME NEW b \in BOOLEAN, UpdateCalendar(b) PROVE RenewalInv'
  <2>1. UNCHANGED <<now, lapses, row, run, keys, jobs>> /\ (bucket' = bucket \/ bucket' = "lost")
    BY <1>2 DEF UpdateCalendar
  <2>2. cal'.id = cal.id /\ cal'.writer = cal.writer
    BY <1>2 DEF UpdateCalendar, CalendarInv
  <2> QED BY <2>1, <2>2, <1>0, LapsesKept, BucketKept DEF RenewalInv
<1>3. ASSUME NEW b \in BOOLEAN, Periodic(b) PROVE RenewalInv'
  BY <1>3, RenewalAsked DEF Periodic
<1>4. CASE UpdateCalendarEnqueues
  <2>1. UNCHANGED <<now, lapses, run, cal>>
    BY <1>4 DEF UpdateCalendarEnqueues
  <2>2. CASE EnqueueExpiringWatches({SyncJob(cal.id)})
    BY <2>1, <2>2, RenewalAsked
  <2>3. CASE UNCHANGED <<row, jobs, keys, strays, bucket>>
    BY <2>1, <2>3, <1>0, LapsesKept, BucketKept DEF RenewalInv
  <2> QED BY <1>4, <2>2, <2>3 DEF UpdateCalendarEnqueues
<1>5. CASE UpdateCalendarDies
  <2>1. UNCHANGED <<now, lapses, row, run, keys, cal, jobs>> /\ bucket' = "lost"
    BY <1>5 DEF UpdateCalendarDies
  <2> QED BY <2>1, <1>0, LapsesKept, BucketKept DEF RenewalInv
<1>6. CASE DeleteCalendar \/ RevokeDelete
  <2>1. UNCHANGED <<now, lapses>> /\ row' = NoRow /\ cal' = NoCalendar
        /\ (run' = run \/ (run'.step # "replace" /\ run'.expires \in Nat))
    BY <1>6 DEF DeleteCalendar, RevokeDelete, DropCalendar, Finish, Idle
  <2>2. BucketInv'
    BY <2>1 DEF BucketInv, NoCalendar
  <2> QED BY <2>1, <2>2, <1>0, LapsesKept DEF RenewalInv
<1>7. CASE DiscoverGoogleCalendars \/ Connect \/ RevokeGoogle
  <2>1. UNCHANGED <<now, lapses, row, run, keys, cal, bucket>> /\ \A j \in jobs : j \in jobs'
    BY <1>7 DEF DiscoverGoogleCalendars, Connect, RevokeGoogle, Enqueue
  <2> QED BY <2>1, <1>0, LapsesKept, BucketKept DEF RenewalInv
<1>8. ASSUME NEW m \in wire, Lose(m) PROVE RenewalInv'
  <2>1. UNCHANGED <<now, lapses, row, run, cal, bucket, jobs>> /\ keys' \subseteq keys
    BY <1>8 DEF Lose, Repeatable
  <2> QED BY <2>1, <1>0, LapsesKept, BucketKept DEF RenewalInv
<1>9. ASSUME NEW m \in wire, NEW again \in BOOLEAN, Deliver(m, again) PROVE RenewalInv'
  <2>1. UNCHANGED <<now, lapses, row, run, cal, bucket>> /\ \A j \in jobs : j \in jobs'
    BY <1>9 DEF Deliver
  <2>2. keys' \subseteq keys \cup {NoticeKey(m.channel, m.number)}
    BY <1>9 DEF Deliver, Repeatable
  <2>3. WatchKey(now) # NoticeKey(m.channel, m.number)
    BY DEF WatchKey, NoticeKey
  <2> QED BY <2>1, <2>2, <2>3, <1>0, LapsesKept, BucketKept DEF RenewalInv
<1>10. CASE Change \/ WatchPostUncertain
  <2>1. UNCHANGED <<now, lapses, row, run, keys, cal, bucket, jobs>>
    BY <1>10 DEF Change, WatchPostUncertain
  <2> QED BY <2>1, <1>0, LapsesKept, BucketKept DEF RenewalInv
<1>11. CASE Tick
  BY <1>11, RenewalTick
<1>12. CASE Crash
  <2>1. UNCHANGED <<now, lapses, row, keys, cal, jobs>> /\ bucket' = "lost" /\ run' = Idle
    BY <1>12 DEF Crash
  <2>2. run'.step # "replace" /\ run'.expires \in Nat
    BY <2>1 DEF Idle
  <2> QED BY <2>1, <2>2, <1>0, LapsesKept, BucketKept DEF RenewalInv
<1>13. CASE JobFails \/ WatchReplaceFails
  <2>1. /\ UNCHANGED <<now, lapses, row, keys, cal, bucket>> /\ run' = Idle
        /\ jobs' = jobs \cup {j \in {run.job} : j.calendar \in {0, cal.id}}
    BY <1>13 DEF JobFails, WatchReplaceFails, Retry
  <2>2. run'.step = "idle" /\ run'.expires \in Nat
    BY <2>1 DEF Idle
  <2>3. Renewing => Renewing'
    BY <2>1 DEF Renewing
  <2>4. Fresh' <=> Fresh
    BY <2>1 DEF Fresh
  <2>5. BucketInv'
    BY <2>1, <2>3, <2>4, <1>0 DEF BucketInv
  <2> QED BY <2>1, <2>2, <2>5, <1>0, LapsesKept DEF RenewalInv
<1>14. ASSUME NEW j \in jobs, RunSync(j) PROVE RenewalInv'
  <2>1. UNCHANGED <<now, lapses, row, run, keys, bucket>> /\ jobs' = jobs \ {j} /\ j.kind = "sync"
    BY <1>14 DEF RunSync, Take
  <2>2. cal'.id = cal.id /\ cal'.writer = cal.writer
    BY <1>14 DEF RunSync
  <2> QED BY <2>1, <2>2, <1>0, LapsesKept, BucketKept DEF RenewalInv
<1>15. ASSUME NEW j \in jobs, GiveUp(j) \/ WatchSkip(j) PROVE RenewalInv'
  <2>1. UNCHANGED <<now, lapses, row, run, keys, cal>> /\ bucket' = "lost"
    BY <1>15 DEF GiveUp, WatchSkip
  <2> QED BY <2>1, <1>0, LapsesKept, BucketKept DEF RenewalInv
<1>16. ASSUME NEW j \in jobs, NEW e \in {now + TTL, now + Guess}, WatchPost(j, e) PROVE RenewalInv'
  <2>1. /\ UNCHANGED <<now, lapses, row, keys, cal, bucket>> /\ jobs' = jobs \ {j} /\ j.kind = "watch"
        /\ run.step = "idle"
    BY <1>16 DEF WatchPost, Take
  <2>2. /\ run'.step = "replace" /\ run'.job = j /\ run'.expires = e /\ run'.channel = Len(channels) + 1
    BY <1>16 DEF WatchPost, Idle
  <2>3. /\ e \in Nat /\ e >= now + Margin /\ Len(channels) + 1 # 0 /\ lapses \in Nat /\ now + Margin \in Nat
    BY <1>0, LifeAssumption DEF WatchTypes, ClockTypes
  <2>4. (ClockTypes /\ LapseInv)'
    <3>1. e + lapses >= now + Margin
      BY <2>3
    <3> QED BY <2>1, <2>2, <2>3, <3>1, <1>0 DEF ClockTypes, LapseInv
  <2>5. Renewing => Renewing'
    BY <2>1, <2>2 DEF Renewing
  <2>6. BucketInv'
    BY <2>1, <2>5, <1>0 DEF BucketInv, Fresh
  <2> QED BY <2>4, <2>6 DEF RenewalInv
<1>17. CASE WatchReplace
  <2>1. /\ UNCHANGED <<now, lapses, keys, cal, jobs>> /\ run.step = "replace"
        /\ row' = [channel |-> run.channel, expires |-> run.expires]
        /\ bucket' = IF run.expires > now + Margin THEN bucket ELSE "lost"
    BY <1>17 DEF WatchReplace, Running
  <2>2. run'.step # "replace" /\ run'.expires = run.expires
    BY <1>17 DEF WatchReplace, WatchTypes
  <2>3. (ClockTypes /\ LapseInv)'
    BY <2>1, <2>2, <1>0 DEF ClockTypes, LapseInv
  <2>4. BucketInv'
    <3>1. CASE run.expires > now + Margin /\ run.channel # 0
      BY <2>1, <3>1 DEF BucketInv, Fresh
    <3>2. CASE ~(run.expires > now + Margin)
      BY <2>1, <3>2 DEF BucketInv
    <3> QED BY <3>1, <3>2, <2>1, <1>0 DEF ClockTypes
  <2> QED BY <2>3, <2>4 DEF RenewalInv
<1>18. CASE WatchStopOld
  <2>1. /\ UNCHANGED <<now, lapses, row, keys, cal, bucket, jobs>> /\ run.step = "stop"
    BY <1>18 DEF WatchStopOld, Running
  <2>2. run'.step = "enqueue" /\ run'.expires = run.expires
    BY <1>18 DEF WatchStopOld, WatchTypes
  <2>3. run'.step # "replace" /\ run'.expires \in Nat
    BY <2>2, <1>0 DEF ClockTypes
  <2> QED BY <2>1, <2>3, <1>0, LapsesKept, BucketKept DEF RenewalInv
<1>19. CASE WatchEnqueue
  <2>1. /\ UNCHANGED <<now, lapses, row, keys, cal, bucket>> /\ run.step = "enqueue" /\ run' = Idle
        /\ \A j \in jobs : j \in jobs'
    BY <1>19 DEF WatchEnqueue, Running, Finish
  <2>2. run'.step # "replace" /\ run'.expires \in Nat
    BY <2>1 DEF Idle
  <2> QED BY <2>1, <2>2, <1>0, LapsesKept, BucketKept DEF RenewalInv
<1>20. ASSUME NEW s \in BOOLEAN, NEW w \in BOOLEAN, NEW l \in BOOLEAN, DiscoverList(s, w, l) PROVE RenewalInv'
  <2>1. /\ UNCHANGED <<now, lapses, row, keys>> /\ run.step = "idle" /\ jobs' = jobs \ {DiscoverJob}
        /\ bucket' = IF cal'.writer = cal.writer THEN bucket ELSE "lost"
    BY <1>20 DEF DiscoverList, Take
  <2>2. run'.step # "replace" /\ run'.expires \in Nat
    BY <1>20 DEF DiscoverList, Idle
  <2>3. \A j \in jobs : j.kind = "watch" => j \in jobs'
    BY <2>1 DEF DiscoverJob, Job
  <2>4. cal'.id = cal.id \/ (cal.id = 0 /\ ~cal.writer)
    BY <1>20 DEF DiscoverList, CalendarInv
  <2>5. (cal'.id = cal.id /\ cal'.writer = cal.writer) \/ bucket' = "lost" \/ ~cal'.writer
    BY <2>1, <2>4
  <2> QED BY <2>1, <2>2, <2>3, <2>5, <1>0, LapsesKept, BucketKept DEF RenewalInv
<1>21. CASE DiscoverEnqueues
  <2>1. /\ UNCHANGED <<now, lapses, cal>> /\ run.step = "enqueue" /\ run' = Idle
        /\ EnqueueExpiringWatches({})
    BY <1>21 DEF DiscoverEnqueues, Running, Finish
  <2>2. run'.step # "replace" /\ run'.expires \in Nat
    BY <2>1 DEF Idle
  <2> QED BY <2>1, <2>2, RenewalAsked
<1>22. CASE RevokeStop
  <2>1. /\ UNCHANGED <<now, lapses, row, keys, cal, bucket>> /\ run.step = "idle" /\ jobs' = jobs \ {RevokeJob}
    BY <1>22 DEF RevokeStop, Take
  <2>2. run'.step # "replace" /\ run'.expires \in Nat
    BY <1>22 DEF RevokeStop, Idle
  <2>3. \A j \in jobs : j.kind = "watch" => j \in jobs'
    BY <2>1 DEF RevokeJob, Job
  <2> QED BY <2>1, <2>2, <2>3, <1>0, LapsesKept, BucketKept DEF RenewalInv
<1> QED
  BY <1>1, <1>2, <1>3, <1>4, <1>5, <1>6, <1>7, <1>8, <1>9, <1>10, <1>11, <1>12, <1>13, <1>14, <1>15,
     <1>16, <1>17, <1>18, <1>19, <1>20, <1>21, <1>22 DEF Next

\* Jobs are added about the calendar there is, or about none.
LEMMA JobsKept ==
    ASSUME JobInv, cal'.id = cal.id,
           \A j \in jobs' : \/ j \in jobs
                            \/ j \in {SyncJob(cal.id), WatchJob(cal.id)} /\ cal.id # 0
                            \/ j \in {DiscoverJob, RevokeJob}
                            \/ run.step # "idle" /\ j = run.job /\ j.calendar \in {0, cal.id},
           \/ run'.step = "idle"
           \/ run.step # "idle" /\ run'.job = run.job
           \/ run'.job \in {DiscoverJob, RevokeJob}
           \/ run'.job \in jobs /\ run'.job.kind = "watch",
           row' = row \/ row' = NoRow \/ cal.id # 0,
           WatchKey(now') \in keys' => WatchKey(now) \in keys \/ cal.id # 0
    PROVE  JobInv'
<1>1. /\ SyncJob(cal.id).calendar = cal.id /\ WatchJob(cal.id).calendar = cal.id
      /\ DiscoverJob.kind = "discover" /\ RevokeJob.kind = "revoke"
  BY DEF SyncJob, WatchJob, DiscoverJob, RevokeJob, Job
<1>2. \A j \in jobs' : j.kind \in {"sync", "watch"} => j.calendar = cal.id /\ j.calendar # 0
  BY <1>1 DEF JobInv
<1>3. /\ run'.step # "idle" => run'.job.kind # "sync"
      /\ run'.step # "idle" /\ run'.job.kind = "watch" => run'.job.calendar # 0
      /\ run'.step # "idle" /\ run'.job.kind = "discover" => run'.job = DiscoverJob
  BY <1>1 DEF JobInv
<1>4. cal'.id = 0 => row' = NoRow /\ WatchKey(now') \notin keys'
  BY DEF JobInv
<1> QED BY <1>2, <1>3, <1>4 DEF JobInv

\* Every step keeps the jobs about the calendar there is.
LEMMA StepJobs == WatchTypes /\ CalendarInv /\ JobInv /\ [Next]_vars => JobInv'
<1> SUFFICES ASSUME WatchTypes, CalendarInv, JobInv, [Next]_vars PROVE JobInv'
  OBVIOUS
<1> USE DEF google, app, ghosts
<1>0. ASSUME NEW more, EnqueueExpiringWatches(more) PROVE
          /\ \A j \in jobs' : j \in jobs \/ j \in more \/ (j = WatchJob(cal.id) /\ cal.id # 0)
          /\ row' = row \/ row' = NoRow
          /\ WatchKey(now) \in keys' => WatchKey(now) \in keys \/ cal.id # 0
  BY <1>0 DEF EnqueueExpiringWatches, WatchDue, Watchable
<1>1. CASE UNCHANGED vars
  BY <1>1, JobsKept DEF vars
<1>2. ASSUME NEW b \in BOOLEAN, UpdateCalendar(b) PROVE JobInv'
  <2>1. UNCHANGED <<jobs, run, row, keys, now>> /\ cal'.id = cal.id
    BY <1>2 DEF UpdateCalendar, CalendarInv
  <2> QED BY <2>1, JobsKept
<1>3. ASSUME NEW b \in BOOLEAN, Periodic(b) PROVE JobInv'
  <2> DEFINE more == {j \in {SyncJob(cal.id)} : b /\ cal.id # 0 /\ cal.selected}
  <2>1. UNCHANGED <<run, cal, now>> /\ EnqueueExpiringWatches(more)
    BY <1>3 DEF Periodic
  <2>2. \A j \in more : j = SyncJob(cal.id) /\ cal.id # 0
    OBVIOUS
  <2> HIDE DEF more
  <2> QED BY <2>1, <2>2, <1>0, JobsKept
<1>4. CASE UpdateCalendarEnqueues
  <2>1. UNCHANGED <<run, cal, now>> /\ web # 0
    BY <1>4 DEF UpdateCalendarEnqueues
  <2>2. CASE web = cal.id /\ EnqueueExpiringWatches({SyncJob(cal.id)})
    BY <2>1, <2>2, <1>0, JobsKept
  <2>3. CASE UNCHANGED <<row, jobs, keys>>
    BY <2>1, <2>3, JobsKept
  <2> QED BY <1>4, <2>2, <2>3 DEF UpdateCalendarEnqueues
<1>5. CASE UpdateCalendarDies \/ Change \/ WatchPostUncertain
  BY <1>5, JobsKept DEF UpdateCalendarDies, Change, WatchPostUncertain
<1>6. CASE DeleteCalendar \/ RevokeDelete
  <2>1. /\ cal' = NoCalendar /\ row' = NoRow /\ jobs' = {j \in jobs : j.calendar = 0} /\ keys' = {}
        /\ run' = run \/ run' = Idle
    BY <1>6 DEF DeleteCalendar, RevokeDelete, DropCalendar, Finish
  <2>2. Idle.step = "idle"
    BY DEF Idle
  <2> QED BY <2>1, <2>2 DEF JobInv
<1>7. CASE DiscoverGoogleCalendars \/ Connect \/ RevokeGoogle
  <2>1. UNCHANGED <<row, run, keys, cal, now>> /\ \A j \in jobs' : j \in jobs \/ j \in {DiscoverJob, RevokeJob}
    BY <1>7 DEF DiscoverGoogleCalendars, Connect, RevokeGoogle, Enqueue
  <2> QED BY <2>1, JobsKept
<1>8. ASSUME NEW m \in wire, Lose(m) PROVE JobInv'
  <2>1. UNCHANGED <<row, run, cal, jobs, now>> /\ keys' \subseteq keys
    BY <1>8 DEF Lose, Repeatable
  <2> QED BY <2>1, JobsKept
<1>9. ASSUME NEW m \in wire, NEW again \in BOOLEAN, Deliver(m, again) PROVE JobInv'
  <2>1. /\ UNCHANGED <<row, run, cal, now>>
        /\ \A j \in jobs' : j \in jobs \/ (j = SyncJob(cal.id) /\ row.channel # 0)
    BY <1>9 DEF Deliver, Covered
  <2>2. keys' \subseteq keys \cup {NoticeKey(m.channel, m.number)}
    BY <1>9 DEF Deliver, Repeatable
  <2>3. WatchKey(now) # NoticeKey(m.channel, m.number)
    BY DEF WatchKey, NoticeKey
  <2>4. row.channel # 0 => cal.id # 0
    BY DEF JobInv, NoRow
  <2> QED BY <2>1, <2>2, <2>3, <2>4, JobsKept
<1>11. CASE Tick
  <2>1. UNCHANGED <<row, run, cal, jobs>> /\ keys' = {}
    BY <1>11 DEF Tick
  <2> QED BY <2>1, JobsKept
<1>12. CASE Crash
  <2>1. UNCHANGED <<row, keys, cal, jobs, now>> /\ run' = Idle
    BY <1>12 DEF Crash
  <2>2. run'.step = "idle"
    BY <2>1 DEF Idle
  <2> QED BY <2>1, <2>2, JobsKept
<1>13. CASE JobFails \/ WatchReplaceFails
  <2>1. /\ UNCHANGED <<now, row, keys, cal>> /\ run' = Idle /\ run.step # "idle"
        /\ jobs' = jobs \cup {j \in {run.job} : j.calendar \in {0, cal.id}}
    BY <1>13 DEF JobFails, WatchReplaceFails, Retry, Running
  <2>2. run'.step = "idle"
    BY <2>1 DEF Idle
  <2> QED BY <2>1, <2>2, JobsKept
<1>14. ASSUME NEW j \in jobs, RunSync(j) PROVE JobInv'
  <2>1. UNCHANGED <<now, row, run, keys>> /\ jobs' = jobs \ {j} /\ cal'.id = cal.id
    BY <1>14 DEF RunSync, CalendarInv
  <2> QED BY <2>1, JobsKept
<1>15. ASSUME NEW j \in jobs, GiveUp(j) \/ WatchSkip(j) PROVE JobInv'
  <2>1. UNCHANGED <<now, row, run, keys, cal>> /\ jobs' = jobs \ {j}
    BY <1>15 DEF GiveUp, WatchSkip
  <2> QED BY <2>1, JobsKept
<1>16. ASSUME NEW j \in jobs, NEW e, WatchPost(j, e) PROVE JobInv'
  <2>1. /\ UNCHANGED <<now, row, keys, cal>> /\ jobs' = jobs \ {j} /\ j.kind = "watch"
    BY <1>16 DEF WatchPost, Take
  <2>2. run'.job = j
    BY <1>16 DEF WatchPost, Idle
  <2> QED BY <2>1, <2>2, JobsKept
<1>17. CASE WatchReplace
  <2>1. /\ UNCHANGED <<now, keys, cal, jobs>> /\ run.step = "replace" /\ run.job.kind = "watch"
        /\ run.job.calendar = cal.id
    BY <1>17 DEF WatchReplace, Running
  <2>2. run'.job = run.job
    BY <1>17 DEF WatchReplace, WatchTypes
  <2>3. cal.id # 0
    BY <2>1 DEF JobInv
  <2> QED BY <2>1, <2>2, <2>3, JobsKept
<1>18. CASE WatchStopOld
  <2>1. /\ UNCHANGED <<now, row, keys, cal, jobs>> /\ run.step = "stop"
    BY <1>18 DEF WatchStopOld, Running
  <2>2. run'.job = run.job
    BY <1>18 DEF WatchStopOld, WatchTypes
  <2> QED BY <2>1, <2>2, JobsKept
<1>19. CASE WatchEnqueue
  <2>1. /\ UNCHANGED <<now, row, keys, cal>> /\ run.step = "enqueue" /\ run' = Idle
        /\ run.job.calendar = cal.id /\ run.job.kind = "watch"
        /\ \A j \in jobs' : j \in jobs \/ j = SyncJob(cal.id) \/ j = run.job
    BY <1>19 DEF WatchEnqueue, Running, Finish
  <2>2. run'.step = "idle"
    BY <2>1 DEF Idle
  <2>3. cal.id # 0
    BY <2>1 DEF JobInv
  <2> QED BY <2>1, <2>2, <2>3, JobsKept
<1>20. ASSUME NEW s \in BOOLEAN, NEW w \in BOOLEAN, NEW l \in BOOLEAN, DiscoverList(s, w, l) PROVE JobInv'
  <2>1. /\ UNCHANGED <<now, row, keys>> /\ run.step = "idle" /\ jobs' = jobs \ {DiscoverJob}
    BY <1>20 DEF DiscoverList, Take
  <2>2. run'.job = DiscoverJob
    BY <1>20 DEF DiscoverList, Idle
  <2>3. cal'.id = cal.id \/ (cal.id = 0 /\ cal'.id # 0)
    BY <1>20 DEF DiscoverList, CalendarInv
  <2>4. CASE cal'.id = cal.id
    BY <2>1, <2>2, <2>4, JobsKept
  <2>5. CASE cal.id = 0 /\ cal'.id # 0
    <3>1. DiscoverJob.kind = "discover"
      BY DEF DiscoverJob, Job
    <3> QED BY <2>1, <2>2, <2>5, <3>1 DEF JobInv
  <2> QED BY <2>3, <2>4, <2>5
<1>21. CASE DiscoverEnqueues
  <2>1. /\ UNCHANGED <<now, cal>> /\ run' = Idle /\ EnqueueExpiringWatches({})
    BY <1>21 DEF DiscoverEnqueues, Running, Finish
  <2>2. run'.step = "idle"
    BY <2>1 DEF Idle
  <2> QED BY <2>1, <2>2, <1>0, JobsKept
<1>22. CASE RevokeStop
  <2>1. UNCHANGED <<now, row, keys, cal>> /\ jobs' = jobs \ {RevokeJob}
    BY <1>22 DEF RevokeStop, Take
  <2>2. run'.job = RevokeJob
    BY <1>22 DEF RevokeStop, Idle
  <2> QED BY <2>1, <2>2, JobsKept
<1> QED
  BY <1>1, <1>2, <1>3, <1>4, <1>5, <1>6, <1>7, <1>8, <1>9, <1>11, <1>12, <1>13, <1>14, <1>15,
     <1>16, <1>17, <1>18, <1>19, <1>20, <1>21, <1>22 DEF Next

\* Every step keeps the keys that matter.
LEMMA StepKeys == CalendarInv /\ KeyInv /\ [Next]_vars => KeyInv'
<1> SUFFICES ASSUME CalendarInv, KeyInv, [Next]_vars PROVE KeyInv'
  OBVIOUS
<1> USE DEF google, app, ghosts
<1>1. ASSUME UNCHANGED <<wire, changes, now>>, keys' \subseteq keys \cup {WatchKey(now)} PROVE KeyInv'
  BY <1>1 DEF KeyInv
<1>2. ASSUME NEW more, EnqueueExpiringWatches(more) PROVE keys' \subseteq keys \cup {WatchKey(now)}
  BY <1>2 DEF EnqueueExpiringWatches
<1>3. ASSUME Open, UNCHANGED <<changes, now, keys>> PROVE KeyInv'
  <2>1. \A m \in wire' : m \in wire \/ m.number = 0
    BY <1>3 DEF Open
  <2>2. \A m \in wire : m \in wire'
    BY <1>3 DEF Open
  <2> QED BY <1>3, <2>1, <2>2 DEF KeyInv, CalendarInv
<1>4. ASSUME NEW ks, wire' \subseteq wire, UNCHANGED <<changes, now>>, keys' = Repeatable(ks, wire') PROVE KeyInv'
  BY <1>4 DEF KeyInv, Repeatable
<1>5. CASE Change
  <2>1. changes' = changes + 1 /\ UNCHANGED <<now, keys>>
    BY <1>5 DEF Change
  <2>2. \A m \in wire' : m \in wire \/ m.number = changes'
    BY <1>5 DEF Change
  <2>3. \A m \in wire : m \in wire'
    BY <1>5 DEF Change
  <2> QED BY <2>1, <2>2, <2>3 DEF KeyInv, CalendarInv
<1>6. CASE Tick
  <2>1. keys' = {} /\ UNCHANGED <<wire, changes>>
    BY <1>6 DEF Tick
  <2> QED BY <2>1 DEF KeyInv
<1>7. CASE DeleteCalendar \/ RevokeDelete
  <2>1. keys' = {} /\ UNCHANGED <<wire, changes, now>>
    BY <1>7 DEF DeleteCalendar, RevokeDelete, DropCalendar
  <2> QED BY <2>1, <1>1
<1>8. ASSUME NEW m \in wire, NEW again \in BOOLEAN, Lose(m) \/ Deliver(m, again) PROVE KeyInv'
  <2>1. UNCHANGED <<changes, now>> /\ wire' \subseteq wire
    BY <1>8 DEF Lose, Deliver
  <2>2. \E ks : keys' = Repeatable(ks, wire')
    BY <1>8, Zenon DEF Lose, Deliver
  <2> QED BY <2>1, <2>2, <1>4
<1>9. ASSUME NEW b, Periodic(b) PROVE KeyInv'
  BY <1>9, <1>1, <1>2 DEF Periodic
<1>10. CASE UpdateCalendarEnqueues \/ DiscoverEnqueues
  <2>1. UNCHANGED <<wire, changes, now>>
    BY <1>10 DEF UpdateCalendarEnqueues, DiscoverEnqueues
  <2>2. keys' = keys \/ \E more : EnqueueExpiringWatches(more)
    BY <1>10, Zenon DEF UpdateCalendarEnqueues, DiscoverEnqueues
  <2> QED BY <2>1, <2>2, <1>1, <1>2
<1>11. ASSUME NEW j, NEW e, WatchPost(j, e) PROVE KeyInv'
  BY <1>3, <1>11 DEF WatchPost
<1>12. CASE WatchPostUncertain
  BY <1>3, <1>12 DEF WatchPostUncertain
<1>13. CASE UNCHANGED vars
  BY <1>1, <1>13 DEF vars
<1>14. CASE \/ UpdateCalendarDies \/ DiscoverGoogleCalendars \/ Connect \/ RevokeGoogle \/ Crash \/ JobFails
            \/ WatchReplace \/ WatchReplaceFails \/ WatchStopOld \/ WatchEnqueue \/ RevokeStop
  <2>1. UNCHANGED <<wire, changes, now, keys>>
    BY <1>14 DEF UpdateCalendarDies, DiscoverGoogleCalendars, Connect, RevokeGoogle, Enqueue, Crash, JobFails,
       WatchReplace, WatchReplaceFails, WatchStopOld, WatchEnqueue, RevokeStop
  <2> QED BY <2>1, <1>1
<1>15. ASSUME NEW j, NEW b, UpdateCalendar(b) \/ RunSync(j) \/ GiveUp(j) \/ WatchSkip(j) PROVE KeyInv'
  <2>1. UNCHANGED <<wire, changes, now, keys>>
    BY <1>15 DEF UpdateCalendar, RunSync, GiveUp, WatchSkip
  <2> QED BY <2>1, <1>1
<1>16. ASSUME NEW s, NEW w, NEW l, DiscoverList(s, w, l) PROVE KeyInv'
  <2>1. UNCHANGED <<wire, changes, now, keys>>
    BY <1>16 DEF DiscoverList
  <2> QED BY <2>1, <1>1
<1> QED
  BY <1>5, <1>6, <1>7, <1>8, <1>9, <1>10, <1>11, <1>12, <1>13, <1>14, <1>15, <1>16 DEF Next

\* Google is not asked anything, and nothing is stored but what was.
LEMMA StoredKept ==
    ASSUME WatchTypes, StoredInv, UNCHANGED channels,
           UNCHANGED <<row, cut>> \/ row' = NoRow,
           run' = run \/ run'.step \notin {"replace", "stop"}
    PROVE  StoredInv'
<1>1. 0 \notin DOMAIN channels
  BY DEF WatchTypes
<1>2. CASE UNCHANGED <<row, cut>>
  BY <1>2 DEF StoredInv
<1>3. CASE row' = NoRow
  <2>1. row'.channel = 0
    BY <1>3 DEF NoRow
  <2> QED BY <1>1, <2>1 DEF StoredInv
<1> QED BY <1>2, <1>3

\* A channel is stopped that is neither the stored one nor about to be stored.
LEMMA OtherStopped ==
    ASSUME WatchTypes, StoredInv, NEW ch, Stopped(ch), row.channel # 0 => ch # row.channel,
           UNCHANGED <<row, cut>>, run'.step \notin {"replace", "stop"}
    PROVE  StoredInv'
<1>1. CASE Stop(ch)
  <2>1. /\ DOMAIN channels' = DOMAIN channels
        /\ \A d \in DOMAIN channels : d # ch => channels'[d] = channels[d]
    BY <1>1, StopChannel
  <2> QED BY <2>1 DEF StoredInv
<1>2. CASE UNCHANGED channels
  BY <1>2 DEF StoredInv
<1> QED BY <1>1, <1>2 DEF Stopped, StopFails

\* Every step keeps the stored channel open in Google, unless a revocation stopped it.
LEMMA StepStored == WatchTypes /\ ClockTypes /\ StoredInv /\ [Next]_vars => StoredInv'
<1> SUFFICES ASSUME WatchTypes, ClockTypes, StoredInv, [Next]_vars PROVE StoredInv'
  OBVIOUS
<1> USE DEF google, app, ghosts
<1>0. Idle.step = "idle"
  BY DEF Idle
<1>1. CASE UNCHANGED vars
  BY <1>1, StoredKept DEF vars
<1>2. ASSUME NEW b, UpdateCalendar(b) PROVE StoredInv'
  BY <1>2, StoredKept DEF UpdateCalendar
<1>3. ASSUME NEW b, Periodic(b) PROVE StoredInv'
  BY <1>3, StoredKept DEF Periodic, EnqueueExpiringWatches
<1>4. CASE UpdateCalendarEnqueues
  BY <1>4, StoredKept DEF UpdateCalendarEnqueues, EnqueueExpiringWatches
<1>5. CASE UpdateCalendarDies \/ DiscoverGoogleCalendars \/ Connect \/ RevokeGoogle \/ Tick \/ Change
  BY <1>5, StoredKept DEF UpdateCalendarDies, DiscoverGoogleCalendars, Connect, RevokeGoogle, Tick, Change
<1>6. CASE DeleteCalendar
  BY <1>6, StoredKept DEF DeleteCalendar, DropCalendar
<1>7. CASE RevokeDelete
  BY <1>0, <1>7, StoredKept DEF RevokeDelete, DropCalendar, Finish
<1>8. ASSUME NEW m, NEW again, Lose(m) \/ Deliver(m, again) PROVE StoredInv'
  BY <1>8, StoredKept DEF Lose, Deliver
<1>9. CASE Crash \/ JobFails \/ WatchEnqueue
  BY <1>0, <1>9, StoredKept DEF Crash, JobFails, Retry, WatchEnqueue, Finish
<1>10. ASSUME NEW j, RunSync(j) \/ GiveUp(j) \/ WatchSkip(j) PROVE StoredInv'
  BY <1>10, StoredKept DEF RunSync, GiveUp, WatchSkip
<1>11. CASE DiscoverEnqueues
  BY <1>0, <1>11, StoredKept DEF DiscoverEnqueues, EnqueueExpiringWatches, Finish
<1>12. ASSUME NEW s, NEW w, NEW l, DiscoverList(s, w, l) PROVE StoredInv'
  <2>1. UNCHANGED <<channels, row, cut>>
    BY <1>12 DEF DiscoverList
  <2>2. run'.step = "enqueue"
    BY <1>12 DEF DiscoverList, Idle
  <2> QED BY <2>1, <2>2, StoredKept
<1>13. ASSUME NEW j \in jobs, NEW e \in {now + TTL, now + Guess}, WatchPost(j, e) PROVE StoredInv'
  <2>1. /\ channels' \in Seq(Channel)
        /\ DOMAIN channels' = DOMAIN channels \cup {Len(channels) + 1}
        /\ \A ch \in DOMAIN channels : channels'[ch] = channels[ch]
    BY <1>13, OpenChannel DEF WatchPost
  <2>2. channels'[Len(channels) + 1] = [live |-> TRUE, expires |-> now + TTL]
    BY <1>13 DEF WatchPost, Open, WatchTypes
  <2>3. /\ run'.step = "replace" /\ run'.channel = Len(channels) + 1 /\ run'.expires = e
        /\ UNCHANGED <<row, cut>>
    BY <1>13 DEF WatchPost, Idle
  <2>4. now + TTL >= e /\ Len(channels) + 1 \notin DOMAIN channels /\ Len(channels) + 1 # 0
    BY LifeAssumption DEF WatchTypes
  <2>5. row.channel # Len(channels) + 1
    BY <2>4 DEF StoredInv
  <2>6. channels'[Len(channels) + 1].live /\ channels'[Len(channels) + 1].expires = now + TTL
    BY <2>2
  <2> QED BY <2>1, <2>3, <2>4, <2>5, <2>6 DEF StoredInv
<1>14. CASE WatchPostUncertain
  <2>1. /\ DOMAIN channels' = DOMAIN channels \cup {Len(channels) + 1}
        /\ \A ch \in DOMAIN channels : channels'[ch] = channels[ch]
    BY <1>14, OpenChannel DEF WatchPostUncertain
  <2>2. UNCHANGED <<row, cut, run>>
    BY <1>14 DEF WatchPostUncertain
  <2> QED BY <2>1, <2>2 DEF StoredInv
<1>15. CASE WatchReplace
  <2>1. /\ run.step = "replace" /\ row' = [channel |-> run.channel, expires |-> run.expires]
        /\ UNCHANGED channels
    BY <1>15 DEF WatchReplace, Running
  <2>2. run'.step # "replace" /\ run'.old = row.channel
    BY <1>15 DEF WatchReplace, WatchTypes
  <2> QED BY <2>1, <2>2 DEF StoredInv
<1>16. CASE WatchReplaceFails
  <2>1. run.step = "replace" /\ run' = Idle /\ UNCHANGED <<row, cut>>
    BY <1>16 DEF WatchReplaceFails, Running, Retry
  <2>2. CASE Stop(run.channel)
    <3>1. /\ DOMAIN channels' = DOMAIN channels
          /\ \A d \in DOMAIN channels : d # run.channel => channels'[d] = channels[d]
      BY <2>2, StopChannel
    <3> QED BY <1>0, <2>1, <3>1 DEF StoredInv
  <2>3. CASE UNCHANGED channels
    BY <1>0, <2>1, <2>3, StoredKept
  <2> QED BY <1>16, <2>2, <2>3 DEF WatchReplaceFails, StopFails
<1>17. CASE WatchStopOld
  <2>1. /\ run.step = "stop" /\ Stopped(run.old) /\ UNCHANGED <<row, cut>>
    BY <1>17 DEF WatchStopOld, Running
  <2>2. run'.step = "enqueue"
    BY <1>17 DEF WatchStopOld, WatchTypes
  <2>3. row.channel # 0 => run.old # row.channel
    BY <2>1 DEF StoredInv
  <2> QED BY <2>1, <2>2, <2>3, OtherStopped
<1>18. CASE RevokeStop
  <2>1. Stopped(row.channel) /\ cut' = (cut \/ row.channel # 0) /\ row' = row
    BY <1>18 DEF RevokeStop
  <2>2. run'.step = "delete"
    BY <1>18 DEF RevokeStop, Idle
  <2>3. DOMAIN channels' = DOMAIN channels
    BY <2>1, StopChannel DEF Stopped, StopFails
  <2> QED BY <2>1, <2>2, <2>3 DEF StoredInv
<1> QED
  BY <1>1, <1>2, <1>3, <1>4, <1>5, <1>6, <1>7, <1>8, <1>9, <1>10, <1>11, <1>12, <1>13, <1>14, <1>15,
     <1>16, <1>17, <1>18 DEF Next

\* The ways in which a change is still going to be noticed.
Reading == \E j \in jobs : j.kind \in {"sync", "watch"}
Replacing == run.step # "idle" /\ run.job.kind = "watch" /\ run.job.calendar = cal.id
Discovering == DiscoverJob \in jobs \/ (run.step = "enqueue" /\ run.job.kind = "discover")

\* Pending, for a selected calendar, in these terms.
LEMMA PendingParts ==
    ASSUME cal.id # 0, cal.selected
    PROVE  Pending <=> \/ Reading \/ Replacing \/ web = cal.id
                       \/ Discovering /\ cal.writer /\ ~Fresh /\ WatchKey(now) \notin keys
BY DEF Pending, Reading, Replacing, Discovering, WatchDue, Watchable, Fresh

\* Every step keeps what will notice a change, or excuses that it does not.
LEMMA StepChange ==
    ASSUME WatchTypes, CalendarInv, CalendarInv', ClockTypes, JobInv, KeyInv, StoredInv, ChangeInv, [Next]_vars
    PROVE  ChangeInv'
<1> USE DEF google, app, ghosts
<1> DEFINE Hope == Reading \/ Replacing \/ web = cal.id \/ Noticed
           Rest == ~Fresh /\ WatchKey(now) \notin keys /\ (Discovering \/ ~cal.writer)
<1>0. /\ ChangeInv <=> (cal.selected /\ cal.seen < changes /\ ~excused => Hope \/ Rest)
      /\ cal.selected => cal.id # 0
  <2>1. cal.selected => cal.id # 0
    BY DEF CalendarInv
  <2>2. cal.selected => (Pending \/ Noticed \/ Suspended <=> Hope \/ Rest)
    BY <2>1, PendingParts DEF Suspended
  <2> QED BY <2>1, <2>2 DEF ChangeInv
<1>a. /\ cal'.selected => cal'.id # 0
      /\ cal'.selected /\ (Hope' \/ Rest') => ChangeInv'
  <2>1. cal'.selected => cal'.id # 0
    BY DEF CalendarInv
  <2>2. Reading' \/ Replacing' \/ web' = cal'.id => Pending'
    BY DEF Pending, Reading, Replacing
  <2>3. ASSUME cal'.selected, Discovering', cal'.writer, ~Fresh', WatchKey(now)' \notin keys'
        PROVE  Pending'
    <3>1. WatchDue'
      BY <2>1, <2>3 DEF WatchDue, Watchable, Fresh
    <3> QED BY <2>3, <3>1 DEF Pending, Discovering
  <2>4. ASSUME ~cal'.writer, ~Fresh', WatchKey(now)' \notin keys'
        PROVE  Suspended'
    BY <2>4 DEF Suspended
  <2>5. ASSUME cal'.selected, Rest' PROVE Pending' \/ Suspended'
    <3>1. CASE cal'.writer
      BY <2>3, <2>5, <3>1
    <3>2. CASE ~cal'.writer
      BY <2>4, <2>5, <3>2
    <3> QED BY <3>1, <3>2
  <2>6. Hope' => Pending' \/ Noticed'
    BY <2>2
  <2> QED BY <2>1, <2>5, <2>6 DEF ChangeInv
<1> HIDE DEF Hope, Rest
<1>b. SUFFICES ASSUME cal'.selected, cal'.seen < changes', ~excused' PROVE Hope' \/ Rest'
  BY <1>a DEF ChangeInv
<1>c. cal'.id # 0
  BY <1>a, <1>b
<1>d. ASSUME cal.selected, cal.seen < changes, ~excused PROVE Hope \/ Rest
  BY <1>0, <1>d
\* Steps that leave the calendar, its row and the messages alone and take no job away.
<1>e. ASSUME UNCHANGED <<cal, changes, excused, row, now, web, wire>>,
             keys' \subseteq keys, jobs \subseteq jobs',
             run' = run \/ run.step = "idle" \/ (run.job.kind \notin {"watch", "discover"})
      PROVE  Hope' \/ Rest'
  <2>1. Hope \/ Rest
    BY <1>b, <1>d, <1>e
  <2>2. (Fresh' <=> Fresh) /\ (Noticed => Noticed') /\ (Reading => Reading')
    BY <1>e DEF Fresh, Noticed, Covered, Reading
  <2>3. (Replacing => Replacing') /\ (Discovering => Discovering')
    BY <1>e DEF Replacing, Discovering
  <2> QED BY <2>1, <2>2, <2>3, <1>e DEF Hope, Rest
\* The renewal is asked for if it is due.
<1>f. ASSUME NEW more, EnqueueExpiringWatches(more), UNCHANGED <<cal, changes, excused, now, wire>>,
             web' = web \/ more = {SyncJob(cal.id)},
             run' = run \/ run.job.kind = "discover"
      PROVE  Hope' \/ Rest'
  <2>1. Hope \/ Rest
    BY <1>b, <1>d, <1>f
  <2>2. /\ row' = row \/ (row.expires <= now /\ row' = NoRow)
        /\ \A j \in jobs : j \in jobs'
        /\ \A j \in more : j \in jobs'
        /\ WatchDue /\ WatchKey(now) \notin keys => WatchJob(cal.id) \in jobs'
        /\ \A k \in keys' : k \in keys \/ (k = WatchKey(now) /\ WatchDue /\ WatchKey(now) \notin keys)
    BY <1>f DEF EnqueueExpiringWatches
  <2>3. WatchJob(cal.id).kind = "watch" /\ SyncJob(cal.id).kind = "sync"
    BY DEF WatchJob, SyncJob, Job
  <2>4. ASSUME WatchDue, WatchKey(now) \notin keys PROVE Hope'
    <3>1. Reading'
      BY <2>2, <2>3, <2>4 DEF Reading
    <3> QED BY <3>1 DEF Hope
  <2>5. ASSUME ~(WatchDue /\ WatchKey(now) \notin keys) PROVE keys' \subseteq keys
    BY <2>2, <2>5
  <2>6. CASE more = {SyncJob(cal.id)}
    <3>1. Reading'
      BY <2>2, <2>3, <2>6 DEF Reading
    <3> QED BY <3>1 DEF Hope
  <2>7. CASE Hope /\ web' = web /\ ~(WatchDue /\ WatchKey(now) \notin keys)
    <3>1. Reading => Reading'
      BY <2>2 DEF Reading
    <3>2. Replacing => Replacing'
      BY <1>f DEF Replacing
    <3>3. Noticed => Noticed'
      <4> SUFFICES ASSUME Noticed PROVE Noticed'
        OBVIOUS
      <4>1. row.expires > now
        BY DEF Noticed, Covered
      <4>2. row.expires \in Nat /\ now \in Nat
        BY DEF ClockTypes, WatchTypes
      <4>3. row' = row
        BY <2>2, <4>1, <4>2
      <4>4. keys' \subseteq keys
        BY <2>5, <2>7
      <4> QED BY <1>f, <4>3, <4>4 DEF Noticed, Covered
    <3> QED BY <2>7, <3>1, <3>2, <3>3, <1>f DEF Hope
  <2>8. CASE Rest /\ ~(WatchDue /\ WatchKey(now) \notin keys)
    <3>1. ~cal.writer /\ ~Fresh /\ WatchKey(now) \notin keys
      BY <1>0, <1>b, <1>f, <2>8 DEF Rest, WatchDue, Watchable, Fresh
    <3>2. ~Fresh'
      <4>1. (row'.channel = row.channel /\ row'.expires = row.expires) \/ row'.channel = 0
        BY <2>2 DEF NoRow
      <4> QED BY <1>f, <3>1, <4>1 DEF Fresh
    <3> QED BY <1>f, <2>5, <2>8, <3>1, <3>2 DEF Rest
  <2> QED BY <1>f, <2>1, <2>4, <2>6, <2>7, <2>8
<1>1. CASE UNCHANGED vars
  <2>1. UNCHANGED <<cal, changes, excused, row, now, web, wire, keys, jobs, run>>
    BY <1>1 DEF vars
  <2> QED BY <2>1, <1>e
<1>2. ASSUME NEW b \in BOOLEAN, UpdateCalendar(b) PROVE Hope' \/ Rest'
  <2>1. cal'.id = cal.id /\ cal'.selected = b
    BY <1>2 DEF UpdateCalendar, CalendarInv
  <2>2. web' = cal'.id
    BY <1>2, <1>b, <2>1 DEF UpdateCalendar
  <2> QED BY <2>2 DEF Hope
<1>3. ASSUME NEW b \in BOOLEAN, Periodic(b) PROVE Hope' \/ Rest'
  BY <1>3, <1>f DEF Periodic
<1>4. CASE UpdateCalendarEnqueues
  <2>1. UNCHANGED <<cal, changes, excused, now, wire, run>>
    BY <1>4 DEF UpdateCalendarEnqueues
  <2>2. CASE EnqueueExpiringWatches({SyncJob(cal.id)})
    BY <2>1, <2>2, <1>f
  <2>3. CASE web # cal.id /\ UNCHANGED <<row, jobs, keys>>
    <3>1. Hope \/ Rest
      BY <1>b, <1>d, <2>1
    <3>2. Hope => Hope'
      BY <2>1, <2>3 DEF Hope, Reading, Replacing, Noticed, Covered
    <3>3. Rest => Rest'
      BY <2>1, <2>3 DEF Rest, Fresh, Discovering
    <3> QED BY <3>1, <3>2, <3>3
  <2> QED BY <1>4, <2>2, <2>3 DEF UpdateCalendarEnqueues
<1>5. CASE UpdateCalendarDies \/ Crash
  BY <1>5, <1>b DEF UpdateCalendarDies, Crash
<1>6. CASE DeleteCalendar \/ RevokeDelete
  <2>1. ~cal'.selected
    BY <1>6 DEF DeleteCalendar, RevokeDelete, DropCalendar, NoCalendar
  <2> QED BY <2>1, <1>b
<1>7. CASE DiscoverGoogleCalendars \/ Connect \/ RevokeGoogle
  <2>1. UNCHANGED <<cal, changes, excused, row, now, web, wire, keys, run>> /\ jobs \subseteq jobs'
    BY <1>7 DEF DiscoverGoogleCalendars, Connect, RevokeGoogle, Enqueue
  <2> QED BY <2>1, <1>e
<1>8. ASSUME NEW m \in wire, Lose(m) PROVE Hope' \/ Rest'
  <2>1. /\ UNCHANGED <<cal, changes, row, now, web, jobs, run>> /\ keys' \subseteq keys /\ wire' = wire \ {m}
        /\ excused' = (excused \/ m.channel = row.channel)
    BY <1>8 DEF Lose, Repeatable
  <2>2. Hope \/ Rest
    BY <1>b, <1>d, <2>1
  <2>3. Noticed => Noticed'
    BY <1>b, <2>1 DEF Noticed, Covered
  <2>4. Hope => Hope'
    BY <2>1, <2>3 DEF Hope, Reading, Replacing
  <2>5. Rest => Rest'
    BY <2>1 DEF Rest, Fresh, Discovering
  <2> QED BY <2>2, <2>4, <2>5
<1>9. ASSUME NEW m \in wire, NEW again \in BOOLEAN, Deliver(m, again) PROVE Hope' \/ Rest'
  <2> DEFINE accepted == Covered /\ row.channel = m.channel
             key == NoticeKey(m.channel, m.number)
  <2>1. /\ UNCHANGED <<cal, changes, row, now, web, run, excused>>
        /\ \A n \in wire : n # m => n \in wire'
        /\ jobs' = jobs \cup {j \in {SyncJob(cal.id)} : accepted /\ key \notin keys}
        /\ keys' \subseteq keys \cup {k \in {key} : accepted}
    BY <1>9 DEF Deliver, Repeatable
  <2>2. Hope \/ Rest
    BY <1>b, <1>d, <2>1
  <2>3. ASSUME accepted, key \notin keys PROVE Hope'
    <3>1. SyncJob(cal.id).kind = "sync"
      BY DEF SyncJob, Job
    <3>2. Reading'
      BY <2>1, <2>3, <3>1 DEF Reading
    <3> QED BY <3>2 DEF Hope
  <2>4. ASSUME ~(accepted /\ key \notin keys), Noticed PROVE Noticed'
    <3>1. PICK n \in wire : /\ Covered /\ n.channel = row.channel
                            /\ NoticeKey(n.channel, n.number) \notin keys
      BY <2>4 DEF Noticed
    <3>2. n # m
      BY <2>4, <3>1
    <3>3. NoticeKey(n.channel, n.number) \notin keys'
      BY <2>1, <2>4, <3>1
    <3> QED BY <2>1, <3>1, <3>2, <3>3 DEF Noticed, Covered
  <2>5. Hope => Hope'
    <3>1. (Reading => Reading') /\ (Replacing => Replacing')
      BY <2>1 DEF Reading, Replacing
    <3> QED BY <2>1, <2>3, <2>4, <3>1 DEF Hope
  <2>6. Rest => Rest'
    <3>1. WatchKey(now) # key
      BY DEF WatchKey, NoticeKey
    <3>2. Discovering => Discovering'
      BY <2>1 DEF Discovering
    <3> QED BY <2>1, <3>1, <3>2 DEF Rest, Fresh
  <2> QED BY <2>2, <2>5, <2>6
<1>10. CASE Change
  <2>1. /\ UNCHANGED <<cal, row, jobs, keys, run, web, now>> /\ changes' = changes + 1
        /\ wire' = wire \cup {[channel |-> ch, number |-> changes'] :
                                ch \in {c \in DOMAIN channels : Alive(c)}}
        /\ excused' = (excused \/ cut \/ (cal.selected /\ ~Covered /\ ~Pending))
    BY <1>10 DEF Change
  <2>2. ~cut /\ (Covered \/ Pending) /\ cal.selected /\ cal.id # 0
    BY <1>b, <1>c, <2>1
  <2>3. CASE Pending
    <3>1. Pending'
      BY <2>1, <2>3 DEF Pending, WatchDue, Watchable
    <3>2. Pending' => Hope' \/ Rest'
      BY <1>b, <1>c DEF Hope, Rest, Pending, Reading, Replacing, Discovering, WatchDue, Watchable, Fresh
    <3> QED BY <3>1, <3>2
  <2>4. CASE Covered
    <3>1. row.channel \in DOMAIN channels /\ Alive(row.channel)
      <4>1. /\ row.channel \in DOMAIN channels /\ channels[row.channel].live
            /\ channels[row.channel].expires >= row.expires /\ row.expires > now
        BY <2>2, <2>4 DEF StoredInv, Covered
      <4>2. row.expires \in Nat /\ now \in Nat /\ channels[row.channel] \in Channel
        BY <4>1 DEF ClockTypes, WatchTypes
      <4>3. channels[row.channel].expires \in Nat
        BY <4>2 DEF Channel
      <4> QED BY <4>1, <4>2, <4>3 DEF Alive
    <3> DEFINE m == [channel |-> row.channel, number |-> changes']
    <3>2. m \in wire' /\ m.channel = row.channel /\ m.number = changes + 1
      BY <2>1, <3>1
    <3>3. NoticeKey(row.channel, changes + 1) \notin keys
      <4> SUFFICES ASSUME NoticeKey(row.channel, changes + 1) \in keys PROVE FALSE
        OBVIOUS
      <4>1. NoticeKey(row.channel, changes + 1) # WatchKey(now)
        BY DEF NoticeKey, WatchKey
      <4>2. PICK n \in wire : NoticeKey(row.channel, changes + 1) = NoticeKey(n.channel, n.number)
        BY <4>1 DEF KeyInv
      <4>3. n.number = changes + 1
        BY <4>2 DEF NoticeKey
      <4> QED BY <4>3 DEF KeyInv, CalendarInv
    <3> HIDE DEF m
    <3>4. Noticed'
      BY <2>1, <2>4, <3>2, <3>3 DEF Noticed, Covered
    <3> QED BY <3>4 DEF Hope
  <2> QED BY <2>2, <2>3, <2>4
<1>11. CASE Tick
  <2>1. UNCHANGED <<cal, changes, excused, row, web, wire, jobs, run>> /\ keys' = {} /\ now' = now + 1 /\ wire = {}
    BY <1>11 DEF Tick
  <2>2. Hope \/ Rest
    BY <1>b, <1>d, <2>1
  <2>3. Hope => Hope'
    BY <2>1 DEF Hope, Reading, Replacing, Noticed
  <2>4. Rest => Rest'
    <3>1. Fresh' => Fresh
      BY <2>1, LifeAssumption DEF Fresh, ClockTypes, WatchTypes
    <3> QED BY <2>1, <3>1 DEF Rest, Discovering
  <2> QED BY <2>2, <2>3, <2>4
<1>13. CASE JobFails \/ WatchReplaceFails
  <2>1. /\ UNCHANGED <<cal, changes, excused, row, now, web, wire, keys>> /\ run.step # "idle"
        /\ jobs' = jobs \cup {j \in {run.job} : j.calendar \in {0, cal.id}}
    BY <1>13 DEF JobFails, WatchReplaceFails, Retry, Running
  <2>2. Hope \/ Rest
    BY <1>b, <1>d, <2>1
  <2>3. Reading \/ Replacing => Reading'
    BY <2>1 DEF Reading, Replacing
  <2>4. Discovering => Discovering'
    <3>1. DiscoverJob.calendar = 0
      BY DEF DiscoverJob, Job
    <3> QED BY <2>1, <3>1 DEF Discovering, JobInv
  <2>5. Hope => Hope'
    BY <2>1, <2>3 DEF Hope, Noticed, Covered
  <2>6. Rest => Rest'
    BY <2>1, <2>4 DEF Rest, Fresh
  <2> QED BY <2>2, <2>5, <2>6
<1>14. ASSUME NEW j \in jobs, RunSync(j) PROVE Hope' \/ Rest'
  <2>1. cal' = (IF cal.selected THEN [cal EXCEPT !.seen = changes] ELSE cal) /\ changes' = changes
    BY <1>14 DEF RunSync
  <2>2. ~cal'.selected \/ cal'.seen = changes
    BY <2>1 DEF CalendarInv
  <2> QED BY <1>b, <2>1, <2>2 DEF CalendarInv
<1>15. ASSUME NEW j \in jobs, GiveUp(j) \/ WatchSkip(j) PROVE Hope' \/ Rest'
  BY <1>15, <1>b DEF GiveUp, WatchSkip
<1>16. ASSUME NEW j \in jobs, NEW e, WatchPost(j, e) PROVE Hope' \/ Rest'
  <2>1. UNCHANGED cal /\ j.kind = "watch"
    BY <1>16 DEF WatchPost, Take
  <2>2. run'.step = "replace" /\ run'.job = j
    BY <1>16 DEF WatchPost, Idle
  <2>3. Replacing'
    BY <2>1, <2>2 DEF Replacing, JobInv
  <2> QED BY <2>3 DEF Hope
<1>17. CASE WatchPostUncertain
  <2>1. UNCHANGED <<cal, changes, excused, row, now, web, keys, jobs, run>> /\ wire \subseteq wire'
    BY <1>17 DEF WatchPostUncertain, Open
  <2>2. Hope \/ Rest
    BY <1>b, <1>d, <2>1
  <2>3. Hope => Hope'
    BY <2>1 DEF Hope, Reading, Replacing, Noticed, Covered
  <2>4. Rest => Rest'
    BY <2>1 DEF Rest, Fresh, Discovering
  <2> QED BY <2>2, <2>3, <2>4
<1>18. CASE WatchReplace
  <2>1. UNCHANGED cal /\ run.job.kind = "watch" /\ run.job.calendar = cal.id
    BY <1>18 DEF WatchReplace, Running
  <2>2. run'.step # "idle" /\ run'.job = run.job
    BY <1>18 DEF WatchReplace, WatchTypes
  <2>3. Replacing'
    BY <2>1, <2>2 DEF Replacing
  <2> QED BY <2>3 DEF Hope
<1>19. CASE WatchStopOld
  <2>1. /\ UNCHANGED <<cal, changes, excused, row, now, web, wire, keys, jobs>> /\ run.step = "stop"
        /\ run.job.kind = "watch"
    BY <1>19 DEF WatchStopOld, Running
  <2>2. run'.step = "enqueue" /\ run'.job = run.job
    BY <1>19 DEF WatchStopOld, WatchTypes
  <2>3. Hope \/ Rest
    BY <1>b, <1>d, <2>1
  <2>4. Hope => Hope'
    BY <2>1, <2>2 DEF Hope, Reading, Replacing, Noticed, Covered
  <2>5. Rest => Rest'
    BY <2>1, <2>2 DEF Rest, Fresh, Discovering
  <2> QED BY <2>3, <2>4, <2>5
<1>20. CASE WatchEnqueue
  <2>1. SyncJob(cal.id) \in jobs' /\ SyncJob(cal.id).kind = "sync"
    BY <1>20 DEF WatchEnqueue, SyncJob, Job
  <2>2. Reading'
    BY <2>1 DEF Reading
  <2> QED BY <2>2 DEF Hope
<1>21. ASSUME NEW s \in BOOLEAN, NEW w \in BOOLEAN, NEW l \in BOOLEAN, DiscoverList(s, w, l) PROVE Hope' \/ Rest'
  <2>1. /\ UNCHANGED <<changes, excused, row, now, web, wire, keys>> /\ run.step = "idle"
        /\ jobs' = jobs \ {DiscoverJob}
    BY <1>21 DEF DiscoverList, Take
  <2>2. run'.step = "enqueue" /\ run'.job = DiscoverJob
    BY <1>21 DEF DiscoverList, Idle
  <2>3. DiscoverJob.kind = "discover"
    BY DEF DiscoverJob, Job
  <2>4. Discovering' /\ (Reading => Reading') /\ ~Replacing
    BY <2>1, <2>2, <2>3 DEF Discovering, Reading, Replacing
  <2>5. CASE cal'.id = cal.id /\ cal'.selected = cal.selected /\ cal'.seen = cal.seen
    <3>1. Hope \/ Rest
      BY <1>b, <1>d, <2>1, <2>5
    <3>2. Hope => Hope'
      BY <2>1, <2>4, <2>5 DEF Hope, Noticed, Covered
    <3>3. Rest => Rest'
      BY <2>1, <2>4 DEF Rest, Fresh
    <3> QED BY <3>1, <3>2, <3>3
  <2>6. CASE cal.id = 0
    <3>1. row = NoRow /\ WatchKey(now) \notin keys
      BY <2>6 DEF JobInv
    <3>2. ~Fresh'
      BY <2>1, <3>1 DEF Fresh, NoRow
    <3> QED BY <2>1, <2>4, <3>1, <3>2 DEF Rest
  <2>7. (cal'.id = cal.id /\ cal'.selected = cal.selected /\ cal'.seen = cal.seen) \/ cal.id = 0
    BY <1>21 DEF DiscoverList, CalendarInv
  <2> QED BY <2>5, <2>6, <2>7
<1>22. CASE DiscoverEnqueues
  <2>1. /\ UNCHANGED <<cal, changes, excused, now, wire, web>> /\ run.job.kind = "discover"
        /\ EnqueueExpiringWatches({})
    BY <1>22 DEF DiscoverEnqueues, Running
  <2> QED BY <2>1, <1>f
<1>23. CASE RevokeStop
  <2>1. /\ UNCHANGED <<cal, changes, excused, row, now, web, wire, keys>> /\ run.step = "idle"
        /\ jobs' = jobs \ {RevokeJob}
    BY <1>23 DEF RevokeStop, Take
  <2>2. RevokeJob.kind = "revoke" /\ DiscoverJob.kind = "discover"
    BY DEF RevokeJob, DiscoverJob, Job
  <2>3. Hope \/ Rest
    BY <1>b, <1>d, <2>1
  <2>4. Hope => Hope'
    BY <2>1, <2>2 DEF Hope, Reading, Replacing, Noticed, Covered
  <2>5. Rest => Rest'
    <3>1. Discovering => Discovering'
      BY <2>1, <2>2 DEF Discovering
    <3> QED BY <2>1, <3>1 DEF Rest, Fresh
  <2> QED BY <2>3, <2>4, <2>5
<1> QED
  BY <1>1, <1>2, <1>3, <1>4, <1>5, <1>6, <1>7, <1>8, <1>9, <1>10, <1>11, <1>13, <1>14, <1>15,
     <1>16, <1>17, <1>18, <1>19, <1>20, <1>21, <1>22, <1>23 DEF Next

---------------------------------------------------------------------------
(* The theorems.                                                           *)

\* The calendar of the start has never changed.
LEMMA InitNotice == Init => CalendarInv /\ NoticeInv
<1> SUFFICES ASSUME Init PROVE CalendarInv /\ NoticeInv
  OBVIOUS
<1>1. /\ cal = [id |-> 1, selected |-> TRUE, writer |-> TRUE, seen |-> 0] /\ born = 1
      /\ row.channel = 0 /\ keys = {} /\ run.step = "idle" /\ jobs = {} /\ changes = 0 /\ wire = {}
  BY DEF Init, NoRow, Idle
<1>2. CalendarInv /\ JobInv
  BY <1>1 DEF CalendarInv, JobInv
<1>3. KeyInv /\ StoredInv /\ ChangeInv
  BY <1>1 DEF KeyInv, StoredInv, ChangeInv
<1> QED BY <1>2, <1>3 DEF NoticeInv

\* What is known of the calendar and of its renewals is known in every state.
LEMMA RenewalInvariance == Spec => [](CalendarInv /\ RenewalInv)
<1>1. Init => CalendarInv /\ RenewalInv
  BY InitNotice, InitRenewal
<1>2. WatchInv => WatchTypes
  BY DEF WatchInv
<1> QED BY <1>1, <1>2, WatchInvariance, StepCalendar, StepRenewal, PTL DEF Spec

\* RenewedInTime: while the jobs of the user get through, the renewal that is asked for
\* once a bucket (enqueue_expiring_calendar_watches) replaces a channel before it ends,
\* also when a renewal comes to nothing in some of the buckets of the margin.
THEOREM RenewalsAreInTime == Spec => []RenewedInTime
<1>1. RenewalInv /\ WatchInv => RenewedInTime
  <2> SUFFICES ASSUME ClockTypes, LapseInv, now \in Nat, row.channel # 0, row.expires <= now, lapses # Margin
               PROVE  FALSE
    BY DEF RenewalInv, WatchInv, WatchTypes, RenewedInTime
  <2>1. row.expires + lapses >= now + Margin
    BY DEF LapseInv
  <2>2. row.expires \in Nat /\ lapses \in 0..Margin /\ Margin \in Nat
    BY LifeAssumption DEF ClockTypes
  <2> QED BY <2>1, <2>2
<1> QED BY <1>1, WatchInvariance, RenewalInvariance, PTL

\* NoChangeForgotten: a change made in Google after the calendar was last read will be
\* noticed, by a message on the stored channel that google_calendar_webhook will accept or
\* by a job or a request that ends in a synchronization, whenever channels are replaced,
\* the calendar is deselected or loses its writer, or messages come late, twice or in any
\* order.
THEOREM ChangesAreNoticed == Spec => []NoChangeForgotten
<1>1. WatchTypes /\ CalendarInv /\ CalendarInv' /\ ClockTypes /\ NoticeInv /\ [Next]_vars => NoticeInv'
  BY StepJobs, StepKeys, StepStored, StepChange DEF NoticeInv
<1>2. WatchInv => WatchTypes
  BY DEF WatchInv
<1>3. RenewalInv => ClockTypes
  BY DEF RenewalInv
<1>4. Init => NoticeInv
  BY InitNotice
<1>5. Spec => []NoticeInv
  BY <1>1, <1>2, <1>3, <1>4, WatchInvariance, RenewalInvariance, PTL DEF Spec
<1>6. NoticeInv => NoChangeForgotten
  <2>1. Watchable => cal.selected /\ ~Suspended
    BY DEF Watchable, Suspended
  <2>2. Noticed <=> \E m \in wire : /\ Covered /\ m.channel = row.channel
                                    /\ NoticeKey(m.channel, m.number) \notin keys
    BY DEF Noticed
  <2> QED BY <2>1, <2>2 DEF NoticeInv, ChangeInv, NoChangeForgotten
<1> QED BY <1>5, <1>6, PTL
===========================================================================
