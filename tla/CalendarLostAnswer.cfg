CONSTANTS
    Events = {e1, e2, e3, e4}
    Born = {e1}
    Foreign = {g1}
    NoEvent = NoEvent
    Policies = {"ask"}
    Choices = {"google"}
    Operations = {"create"}
    BusyOperations = {}
    MaxEdits = 2
    MaxFaults = 1
SPECIFICATION FairSpec
PROPERTIES
    JobsKeepSucceeding
