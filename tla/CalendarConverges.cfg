CONSTANTS
    Events = {e1, e2, e3, e4}
    Born = {e1}
    Foreign = {g1}
    NoEvent = NoEvent
    Policies = {"ask", "google"}
    Choices = {"google"}
    Operations = {"create", "edit", "delete", "resolve", "google edit", "google delete"}
    BusyOperations = {}
    MaxEdits = 4
    MaxFaults = 0
SPECIFICATION FairSpec
INVARIANTS
    OneCopyOfEachEvent
PROPERTIES
    Converges
    JobsKeepSucceeding
