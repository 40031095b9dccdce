CONSTANTS
    j1 = j1  j2 = j2  u1 = u1  c1 = c1
    Jobs = {j1, j2}
    Workers = {w1, w2}
    Users = {u1}
    Calendars = {c1}
    NoCalendar = NoCalendar
    Owner <- MCOwner
    CalendarOf <- MCCalendarOf
    RevokeJobs = {j2}
    Offsets = {0}
    MaxAttempts = 2
    LeaseTime = 0
    Delay <- MCDelay
    MaxInterrupts = 1
SPECIFICATION FairSpec
INVARIANTS
    TypeOK
    OneExecutorPerUser
    JobOwnedByOneWorker
    ActivityTellsTheTruth
PROPERTIES
    FinishedIsFinal
    ImplementsLifecycle
    QueuedJobsSettle
CHECK_DEADLOCK FALSE
