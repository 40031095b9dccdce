----------------------------- MODULE MCSyncJobs -----------------------------
(***************************************************************************)
(* An instance of SyncJobs for TLC: job j1 synchronizes a calendar of the  *)
(* user, j2 revokes the integration.                                       *)
(***************************************************************************)
EXTENDS SyncJobs

CONSTANTS j1, j2, u1, c1

MCOwner == [j \in Jobs |-> u1]
MCCalendarOf == [j \in Jobs |-> IF j = j1 THEN c1 ELSE NoCalendar]
\* The clock of the instance counts units of two seconds.
MCDelay == [a \in 1..MaxAttempts |-> BackoffSeconds(a) \div 2]
=============================================================================
